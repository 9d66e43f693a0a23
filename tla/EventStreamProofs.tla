------------------------- MODULE EventStreamProofs -------------------------
(***************************************************************************)
(* What EventStream promises its viewers, for any number of viewers,       *)
(* events, crashes and broken connections.                                 *)
(***************************************************************************)
EXTENDS EventStreamProperties, TLAPS

\* A pass of a generator that never met a line in two pieces has read exactly
\* the lines it gave ids to.
PassMatches ==
  \A v \in Viewers \ torn :
    stream[v] \in {"reading", "fragment", "loading"} => pos[v] = index[v]

\* The file stops growing before the record says how the run ended.
FileIsFinal == finished => writer = "gone"
AppendFits  == writer = "appending" => lines < MaxEvents
DownIsGone  == ~up => writer = "gone" /\ \A v \in Viewers : stream[v] = "closed"

\* What a viewer that came after the verdict has when its pass is over.
LatePass ==
  \A v \in settled :
    /\ finished
    /\ stream[v] = "loading" /\ v \notin torn => index[v] = lines
ToldIsClosed == \A v \in told : stream[v] = "closed"

SInv ==
  /\ TypeOK
  /\ PaneIsPrefix
  /\ PassMatches
  /\ FileIsFinal
  /\ AppendFits
  /\ DownIsGone
  /\ LatePass
  /\ ToldIsClosed
  /\ LateViewerSeesAll

\* The first state has nobody connected and nothing in the file.
LEMMA StreamInit == Init => SInv
  <1> SUFFICES ASSUME Init PROVE SInv
    OBVIOUS
  <1>1. TypeOK
    <2>1. <<>> \in Seq(Nat)
      OBVIOUS
    <2>2. shown \in [Viewers -> Seq(Nat)]
      BY <2>1 DEF Init
    <2>3. stream \in [Viewers -> Stops] /\ pos \in [Viewers -> 0..lines]
          /\ index \in [Viewers -> 0..lines]
          /\ \A v \in Viewers : index[v] <= pos[v]
      BY DEF Init, Stops
    <2>4. lines \in 0..MaxEvents /\ crashes \in 0..MaxCrashes /\ cuts \in 0..MaxCuts
      BY EventStreamAssumption DEF Init
    <2>5. /\ told \subseteq Viewers /\ settled \subseteq Viewers /\ torn \subseteq Viewers
          /\ writer \in {"running", "appending", "ending", "gone"}
          /\ up \in BOOLEAN /\ partial \in BOOLEAN /\ finished \in BOOLEAN
      BY DEF Init
    <2> QED BY <2>2, <2>3, <2>4, <2>5 DEF TypeOK
  <1>2. \A v \in Viewers : shown[v] = <<>> /\ index[v] = 0
    BY DEF Init
  <1>3. PaneIsPrefix
    <2>1. Len(<<>>) = 0 /\ DOMAIN <<>> = {}
      OBVIOUS
    <2> QED BY <1>2, <2>1 DEF PaneIsPrefix
  <1>4. PassMatches /\ FileIsFinal /\ AppendFits /\ DownIsGone /\ LatePass /\ ToldIsClosed
        /\ LateViewerSeesAll
    BY DEF Init, PassMatches, FileIsFinal, AppendFits, DownIsGone, LatePass, ToldIsClosed,
           LateViewerSeesAll
  <1> QED BY <1>1, <1>3, <1>4 DEF SInv

\* The run's thread grows the file only while the record is open, so nothing a
\* late viewer relies on moves.
LEMMA RunPreserves == ASSUME SInv, Run PROVE SInv'
  <1> USE DEF SInv
  <1>1. CASE AppendBegin
    BY <1>1, EventStreamAssumption
    DEF AppendBegin, viewerVars, TypeOK, PaneIsPrefix, PassMatches, FileIsFinal, AppendFits,
        DownIsGone, LatePass, ToldIsClosed, LateViewerSeesAll
  <1>2. CASE AppendEnd
    <2>1. lines' = lines + 1 /\ lines \in Nat /\ lines' \in 0..MaxEvents
      BY <1>2, EventStreamAssumption DEF AppendEnd, AppendFits, TypeOK
    <2>2. UNCHANGED viewerVars /\ ~finished /\ settled = {}
      BY <1>2 DEF AppendEnd, FileIsFinal, LatePass
    <2>3. pos' \in [Viewers -> 0..lines'] /\ index' \in [Viewers -> 0..lines']
      BY <2>1, <2>2 DEF viewerVars, TypeOK
    <2>4. TypeOK'
      BY <1>2, <2>1, <2>2, <2>3 DEF AppendEnd, viewerVars, TypeOK
    <2> QED BY <1>2, <2>2, <2>4
      DEF AppendEnd, viewerVars, PaneIsPrefix, PassMatches, FileIsFinal, AppendFits,
          DownIsGone, LatePass, ToldIsClosed, LateViewerSeesAll
  <1>3. CASE AppendFails
    BY <1>3
    DEF AppendFails, viewerVars, TypeOK, PaneIsPrefix, PassMatches, FileIsFinal, AppendFits,
        DownIsGone, LatePass, ToldIsClosed, LateViewerSeesAll
  <1>4. CASE ExecuteEnds
    BY <1>4
    DEF ExecuteEnds, viewerVars, TypeOK, PaneIsPrefix, PassMatches, FileIsFinal, AppendFits,
        DownIsGone, LatePass, ToldIsClosed, LateViewerSeesAll
  <1>5. CASE FinishSave
    BY <1>5
    DEF FinishSave, viewerVars, TypeOK, PaneIsPrefix, PassMatches, FileIsFinal, AppendFits,
        DownIsGone, LatePass, ToldIsClosed, LateViewerSeesAll
  <1> QED BY <1>1, <1>2, <1>3, <1>4, <1>5 DEF Run

\* A crash closes every connection, and the restart that follows finds no
\* thread that could append.
LEMMA RestartPreserves == ASSUME SInv, Crash \/ Restart PROVE SInv'
  <1> USE DEF SInv
  <1>1. CASE Crash
    <2>1. /\ UNCHANGED <<lines, partial, finished, pos, index, shown, told, settled, torn, cuts>>
          /\ writer' = "gone" /\ up' = FALSE
          /\ \A v \in Viewers : stream'[v] = "closed"
      BY <1>1 DEF Crash
    <2>2. TypeOK'
      <3>1. stream' \in [Viewers -> Stops] /\ crashes' \in 0..MaxCrashes
        BY <1>1, EventStreamAssumption DEF Crash, TypeOK, Stops
      <3> QED BY <1>1, <2>1, <3>1 DEF Crash, TypeOK
    <2>3. PaneIsPrefix' /\ LateViewerSeesAll'
      BY <2>1 DEF PaneIsPrefix, LateViewerSeesAll
    <2>4. /\ PassMatches' /\ FileIsFinal' /\ AppendFits' /\ DownIsGone'
          /\ LatePass' /\ ToldIsClosed'
      BY <2>1 DEF TypeOK, PassMatches, FileIsFinal, AppendFits, DownIsGone, LatePass,
                  ToldIsClosed
    <2> QED BY <2>2, <2>3, <2>4
  <1>2. CASE Restart
    BY <1>2
    DEF Restart, viewerVars, TypeOK, PaneIsPrefix, PassMatches, FileIsFinal, AppendFits,
        DownIsGone, LatePass, ToldIsClosed, LateViewerSeesAll
  <1> QED BY <1>1, <1>2

\* A viewer that comes starts a pass where its ids are.
LEMMA OpenPreserves ==
  ASSUME SInv, NEW v \in Viewers, Show(v) \/ Resume(v) \/ Wake(v) \/ Cut(v)
  PROVE  SInv'
  <1> USE DEF SInv
  <1>1. CASE Show(v)
    <2>1. shown'[v] = <<>> /\ <<>> \in Seq(Nat) /\ Len(<<>>) = 0
      BY <1>1 DEF Show, TypeOK
    <2>2. \A w \in Viewers \ {v} : shown'[w] = shown[w] /\ index'[w] = index[w]
      BY <1>1 DEF Show, TypeOK
    <2>3. index'[v] = 0 /\ torn' = torn \ {v}
      BY <1>1 DEF Show, TypeOK
    <2>4. PaneIsPrefix'
      BY <2>1, <2>2, <2>3 DEF PaneIsPrefix
    <2>5. TypeOK'
      BY <1>1, <2>1, EventStreamAssumption
      DEF Show, PassFrom, runVars, TypeOK, Stops
    <2>6. LateViewerSeesAll'
      BY <1>1, <2>2 DEF Show, runVars, LateViewerSeesAll, TypeOK
    <2>7. PassMatches' /\ FileIsFinal' /\ AppendFits' /\ DownIsGone' /\ LatePass' /\ ToldIsClosed'
      BY <1>1 DEF Show, PassFrom, runVars, TypeOK, PassMatches, FileIsFinal, AppendFits,
                  DownIsGone, LatePass, ToldIsClosed
    <2> QED BY <2>4, <2>5, <2>6, <2>7
  <1>2. CASE Resume(v)
    BY <1>2, EventStreamAssumption
    DEF Resume, PassFrom, runVars, TypeOK, Stops, PaneIsPrefix, PassMatches,
        FileIsFinal, AppendFits, DownIsGone, LatePass, ToldIsClosed, LateViewerSeesAll
  <1>3. CASE Wake(v)
    BY <1>3, EventStreamAssumption
    DEF Wake, PassFrom, runVars, TypeOK, Stops, PaneIsPrefix, PassMatches,
        FileIsFinal, AppendFits, DownIsGone, LatePass, ToldIsClosed, LateViewerSeesAll
  <1>4. CASE Cut(v)
    BY <1>4, EventStreamAssumption
    DEF Cut, runVars, TypeOK, Stops, PaneIsPrefix, PassMatches,
        FileIsFinal, AppendFits, DownIsGone, LatePass, ToldIsClosed, LateViewerSeesAll
  <1> QED BY <1>1, <1>2, <1>3, <1>4

\* A pass that delivers adds the next event under the next id.
LEMMA DeliverPreserves ==
  ASSUME SInv, NEW v \in Viewers, Deliver(v)
  PROVE  SInv'
  <1> USE DEF SInv
  <1> DEFINE seen == shown[v]
             next == Append(seen, pos[v] + 1)
  <1>1. seen \in Seq(Nat) /\ pos[v] \in Nat /\ index[v] \in Nat /\ lines \in Nat
    BY EventStreamAssumption DEF TypeOK
  <1>2. /\ next \in Seq(Nat) /\ Len(next) = Len(seen) + 1
        /\ \A n \in 1..Len(seen) : next[n] = seen[n]
        /\ next[Len(seen) + 1] = pos[v] + 1
        /\ DOMAIN next = 1..(Len(seen) + 1) /\ DOMAIN seen = 1..Len(seen)
        /\ Len(seen) \in Nat
    BY <1>1
  <1>3. /\ shown'[v] = next /\ index'[v] = index[v] + 1 /\ pos'[v] = pos[v] + 1
        /\ \A w \in Viewers \ {v} :
             shown'[w] = shown[w] /\ index'[w] = index[w] /\ pos'[w] = pos[w]
    BY DEF Deliver, TypeOK
  <1>4. stream[v] = "reading" /\ pos[v] < lines /\ torn' = torn /\ stream' = stream
    BY DEF Deliver
  <1>5. TypeOK'
    BY <1>1, <1>2, EventStreamAssumption DEF Deliver, runVars, TypeOK
  <1>6. PaneIsPrefix'
    <2> SUFFICES ASSUME NEW w \in Viewers \ torn
                 PROVE  /\ Len(shown'[w]) = index'[w]
                        /\ \A n \in DOMAIN shown'[w] : shown'[w][n] = n
      BY <1>4 DEF PaneIsPrefix
    <2>1. CASE w # v
      BY <2>1, <1>3 DEF PaneIsPrefix
    <2>2. CASE w = v
      <3>1. pos[v] = index[v] /\ Len(seen) = index[v]
            /\ \A n \in DOMAIN seen : seen[n] = n
        BY <2>2, <1>4 DEF PassMatches, PaneIsPrefix
      <3> HIDE DEF seen, next
      <3> QED BY <3>1, <2>2, <1>1, <1>2, <1>3
    <2> QED BY <2>1, <2>2
  <1>7. PassMatches'
    BY <1>1, <1>3, <1>4 DEF PassMatches
  <1>8. v \notin told
    BY <1>4 DEF ToldIsClosed
  <1>9. LateViewerSeesAll'
    BY <1>3, <1>8 DEF Deliver, runVars, LateViewerSeesAll, TypeOK
  <1>10. FileIsFinal' /\ AppendFits' /\ DownIsGone' /\ LatePass' /\ ToldIsClosed'
    BY <1>3 DEF Deliver, runVars, TypeOK, FileIsFinal, AppendFits, DownIsGone, LatePass, ToldIsClosed
  <1> QED BY <1>5, <1>6, <1>7, <1>9, <1>10

\* The other steps of a pass send nothing, and the record is read when the
\* pass is over.
LEMMA PassPreserves ==
  ASSUME SInv, NEW v \in Viewers,
         ReadFragment(v) \/ ReadRest(v) \/ ReadEnd(v) \/ LoadRecord(v)
  PROVE  SInv'
  <1> USE DEF SInv
  <1>1. CASE ReadFragment(v)
    BY <1>1, EventStreamAssumption
    DEF ReadFragment, runVars, TypeOK, Stops, PaneIsPrefix, PassMatches,
        FileIsFinal, AppendFits, DownIsGone, LatePass, ToldIsClosed, LateViewerSeesAll
  <1>2. CASE ReadRest(v)
    BY <1>2, EventStreamAssumption
    DEF ReadRest, runVars, TypeOK, Stops, PaneIsPrefix, PassMatches,
        FileIsFinal, AppendFits, DownIsGone, LatePass, ToldIsClosed, LateViewerSeesAll
  <1>3. CASE ReadEnd(v)
    BY <1>3, EventStreamAssumption
    DEF ReadEnd, runVars, TypeOK, Stops, PaneIsPrefix, PassMatches,
        FileIsFinal, AppendFits, DownIsGone, LatePass, ToldIsClosed, LateViewerSeesAll
  <1>4. CASE LoadRecord(v)
    <2>1. v \in settled \ torn => Len(shown[v]) = lines
      BY <1>4 DEF LoadRecord, LatePass, PaneIsPrefix
    <2> QED BY <1>4, <2>1, EventStreamAssumption
      DEF LoadRecord, runVars, TypeOK, Stops, PaneIsPrefix, PassMatches,
          FileIsFinal, AppendFits, DownIsGone, LatePass, ToldIsClosed, LateViewerSeesAll
  <1> QED BY <1>1, <1>2, <1>3, <1>4

\* Every state of every behaviour satisfies the inductive invariant.
THEOREM StreamInvariance == Spec => []SInv
  <1>1. Init => SInv
    BY StreamInit
  <1>2. SInv /\ [Next]_vars => SInv'
    <2> SUFFICES ASSUME SInv, [Next]_vars PROVE SInv'
      OBVIOUS
    <2>1. CASE Run \/ Crash \/ Restart
      BY <2>1, RunPreserves, RestartPreserves
    <2>2. ASSUME NEW v \in Viewers, Show(v) \/ Resume(v) \/ Poll(v) \/ Cut(v)
          PROVE  SInv'
      BY <2>2, OpenPreserves, DeliverPreserves, PassPreserves DEF Poll
    <2>3. CASE UNCHANGED vars
      BY <2>3 DEF vars, runVars, viewerVars, SInv, TypeOK, PaneIsPrefix, PassMatches,
                  FileIsFinal, AppendFits, DownIsGone, LatePass, ToldIsClosed, LateViewerSeesAll
    <2> QED BY <2>1, <2>2, <2>3 DEF Next
  <1> QED BY <1>1, <1>2, PTL DEF Spec

\* What a viewer is shown is a beginning of the run, for as long as no pass of
\* its generator reads a line in two pieces.
THEOREM PanesArePrefixes == Spec => []PaneIsPrefix
  BY StreamInvariance, PTL DEF SInv

\* A viewer that opened or resumed the run after its verdict has every event
\* when it is told the verdict.
THEOREM LateViewersSeeAll == Spec => []LateViewerSeesAll
  BY StreamInvariance, PTL DEF SInv

\* Type correctness: what the run appends, what each generator holds of the
\* file and what each viewer was sent keep their types, for any number of
\* viewers, events, crashes and broken connections.
THEOREM StreamTypeCorrect == Spec => []TypeOK
  BY StreamInvariance, PTL DEF SInv
=============================================================================
