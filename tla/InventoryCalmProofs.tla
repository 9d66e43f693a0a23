------------------------ MODULE InventoryCalmProofs ------------------------
(***************************************************************************)
(* What a request that no write overlaps may rely on, proved for any       *)
(* operators, edits and bounds.                                            *)
(*                                                                         *)
(* CalmInv: a calm request is the only one writing, so what it wrote is    *)
(* what it stages and commits, and the commit it compared is still HEAD.   *)
(* CandInv: what a save will write carries its edit.  BasisInv: what a     *)
(* calm read saw is still what HEAD holds, or what the commit it names     *)
(* holds.  With them every step maps to one of InventoryHistory.           *)
(***************************************************************************)
EXTENDS InventoryProofs

CalmAt(a) ==
  /\ pc[a] = "written" => tree = cand[a]
  /\ pc[a] = "added" => index = cand[a]
  /\ pc[a] = "logged" => log # <<>> /\ log[Len(log)] = [doc |-> cand[a], author |-> a]
  /\ pc[a] \in {"comparing", "truncated", "written", "added"} /\ named[a] # NoMatch
       => named[a] = Len(log)

CalmInv ==
  \A a \in calm :
    /\ \A b \in Actors \ {a} : pc[b] \notin Saving
    /\ CalmAt(a)

\* Taking part in the history as an actor.
StepOf(a) ==
  \/ a \in Operators /\ (Browse(a) \/ Save(a) \/ Rollback(a) \/ Launch(a))
  \/ Commit(a)
  \/ a = Seeder /\ SeedStart

LEMMA NextCases ==
  ASSUME Next
  PROVE  (\E a \in Actors : StepOf(a)) \/ Serve \/ Crash
  BY DEF Next, StepOf, Actors

\* A step of one actor touches nothing of another, and the repository only if
\* the other is not calm afterwards.
LEMMA Frame ==
  ASSUME TypeOK, CalmInv, NEW a \in Actors, NEW b \in Actors \ {a}, StepOf(a)
  PROVE  /\ pc'[b] = pc[b] /\ cand'[b] = cand[b] /\ named'[b] = named[b]
         /\ b \in Operators => page'[b] = page[b]
         /\ b \in calm' => b \in calm /\ UNCHANGED repositoryVars
  <1> USE DEF TypeOK, Actors
  <1>1. CASE a \in Operators /\ (Browse(a) \/ Launch(a))
    BY <1>1 DEF Browse, BrowseDocument, BrowseHead, Launch, LaunchChecked,
       LaunchRecorded, LaunchFrozen, Go, End, BeginRead
  <1>2. CASE a \in Operators /\ Save(a)
    BY <1>2 DEF Save, PatchHost, Replace, Submit, Go, BeginWrite
  <1>3. CASE a \in Operators /\ Rollback(a)
    BY <1>3 DEF Rollback, Revert, RevertConflicts, Go, BeginWrite
  <1>4. CASE Commit(a)
    <2>1. pc[a] \in Saving
      BY <1>4 DEF Commit, CommitStale, CommitChecked, CommitUnchanged,
         CommitTruncate, CommitWrite, CommitAdd, CommitLog, CommitRefused,
         CommitFails, Answer, Go, End, Saving
    <2>2. b \notin calm
      BY <2>1 DEF CalmInv
    <2>3. calm' \subseteq calm
      BY <1>4 DEF Commit, CommitStale, CommitChecked, CommitUnchanged,
         CommitTruncate, CommitWrite, CommitAdd, CommitLog, CommitRefused,
         CommitFails, Answer, End
    <2>4. /\ pc'[b] = pc[b] /\ cand'[b] = cand[b] /\ named'[b] = named[b]
          /\ page' = page
      BY <1>4 DEF Commit, CommitStale, CommitChecked, CommitUnchanged,
         CommitTruncate, CommitWrite, CommitAdd, CommitLog, CommitRefused,
         CommitFails, Answer, Go, End
    <2> QED
      BY <2>2, <2>3, <2>4
  <1>5. CASE a = Seeder /\ SeedStart
    BY <1>5 DEF SeedStart, Go, BeginWrite
  <1> QED
    BY <1>1, <1>2, <1>3, <1>4, <1>5 DEF StepOf

\* A calm actor that writes, or begins to, is alone in writing.
LEMMA CalmIsAlone ==
  ASSUME TypeOK, CalmInv, NEW a \in Actors, StepOf(a), NEW c \in calm'
  PROVE  \A b \in Actors \ {c} : pc'[b] \notin Saving
  <1> USE DEF TypeOK, Actors
  <1>1. CASE a \in Operators /\ (Browse(a) \/ Launch(a))
    <2>1. \A b \in Actors : pc'[b] \in Saving => pc[b] \in Saving
      BY <1>1 DEF Browse, BrowseDocument, BrowseHead, Launch, LaunchChecked,
         LaunchRecorded, LaunchFrozen, Go, End, Saving
    <2>2. c \in calm \/ Writing = {}
      BY <1>1 DEF Browse, BrowseDocument, BrowseHead, Launch, LaunchChecked,
         LaunchRecorded, LaunchFrozen, Go, End, BeginRead
    <2> QED
      BY <2>1, <2>2 DEF CalmInv, Writing
  <1>2. CASE a \in Operators /\ Save(a)
    BY <1>2, Frame DEF Save, PatchHost, Replace, Submit, BeginWrite, Writing
  <1>3. CASE a \in Operators /\ Rollback(a)
    BY <1>3, Frame DEF Rollback, Revert, RevertConflicts, BeginWrite, Writing
  <1>4. CASE Commit(a)
    <2>1. calm' \subseteq calm /\ pc[a] \in Saving
      BY <1>4 DEF Commit, CommitStale, CommitChecked, CommitUnchanged,
         CommitTruncate, CommitWrite, CommitAdd, CommitLog, CommitRefused,
         CommitFails, Answer, End, Go, Saving
    <2>2. c = a
      BY <2>1 DEF CalmInv
    <2> QED
      BY <2>1, <2>2, Frame DEF CalmInv
  <1>5. CASE a = Seeder /\ SeedStart
    BY <1>5, Frame DEF SeedStart, BeginWrite, Writing
  <1> QED
    BY <1>1, <1>2, <1>3, <1>4, <1>5 DEF StepOf

LEMMA CalmStep ==
  ASSUME TypeOK, CalmInv, NEW a \in Actors, StepOf(a), a \in calm'
  PROVE  CalmAt(a)'
  <1> USE DEF TypeOK, Actors, CalmAt
  <1>1. CASE a \in Operators /\ (Browse(a) \/ Launch(a))
    BY <1>1 DEF Browse, BrowseDocument, BrowseHead, Launch, LaunchChecked,
       LaunchRecorded, LaunchFrozen, Go, End
  <1>2. CASE a \in Operators /\ Save(a)
    BY <1>2 DEF Save, PatchHost, Replace, Submit, Go
  <1>3. CASE a \in Operators /\ Rollback(a)
    <2>1. PICK n \in 1..Len(log) : Revert(a, n)
      BY <1>3 DEF Rollback, RevertConflicts
    <2>2. PICK result \in Reversed(n) :
            GitRevert(result, a) /\ cand' = [cand EXCEPT ![a] = result]
      BY <2>1 DEF Revert
    <2>3. result \in Contents \ {Mixed}
      BY <2>2, ReversedFacts
    <2>4. Len(log') = Len(log) + 1 /\ log'[Len(log')] = [doc |-> result, author |-> a]
      BY <2>2, <2>3, AppendFacts DEF GitRevert
    <2>5. log' # <<>>
      BY <2>4, HeadFacts
    <2> QED
      BY <2>1, <2>2, <2>4, <2>5 DEF Revert, Go
  <1>4. CASE Commit(a)
    <2>. a \in calm
      BY <1>4 DEF Commit, CommitStale, CommitChecked, CommitUnchanged,
         CommitTruncate, CommitWrite, CommitAdd, CommitLog, CommitRefused,
         CommitFails, Answer, End
    <2>1. CASE CommitLog(a)
      <3>1. a \in calm /\ index = cand[a] /\ index \in Contents \ {Mixed}
        BY <2>1 DEF CommitLog, Go, CalmInv, Committable
      <3>2. Len(log') = Len(log) + 1 /\ log'[Len(log')] = [doc |-> index, author |-> a]
        BY <2>1, <3>1, AppendFacts DEF CommitLog, GitCommit
      <3>3. log' # <<>>
        BY <3>2, HeadFacts
      <3> QED
        BY <2>1, <3>1, <3>2, <3>3 DEF CommitLog, Go
    <2>2. CASE CommitAdd(a)
      BY <2>2 DEF CommitAdd, GitAdd, Go, CalmInv
    <2>3. CASE CommitWrite(a)
      BY <2>3 DEF CommitWrite, WriteText, Go, CalmInv
    <2>4. CASE CommitTruncate(a) \/ CommitChecked(a)
      BY <2>4 DEF CommitTruncate, CommitChecked, Go, CalmInv, HeadMatches, HeadCommit,
         repositoryVars
    <2>5. CASE CommitStale(a) \/ CommitUnchanged(a) \/ CommitRefused(a)
               \/ CommitFails(a) \/ Answer(a)
      BY <2>5 DEF CommitStale, CommitUnchanged, CommitRefused, CommitFails, Answer, End
    <2> QED
      BY <1>4, <2>1, <2>2, <2>3, <2>4, <2>5 DEF Commit
  <1>5. CASE a = Seeder /\ SeedStart
    BY <1>5 DEF SeedStart, Go
  <1> QED
    BY <1>1, <1>2, <1>3, <1>4, <1>5 DEF StepOf

LEMMA CalmNext == TypeOK /\ CalmInv /\ [Next]_vars => CalmInv'
  <1> SUFFICES ASSUME TypeOK, CalmInv, [Next]_vars PROVE CalmInv'
    OBVIOUS
  <1>1. CASE UNCHANGED vars \/ Serve
    BY <1>1 DEF vars, requestVars, repositoryVars, Serve, CalmInv, CalmAt
  <1>2. CASE Crash
    BY <1>2 DEF Crash, CalmInv
  <1>3. ASSUME NEW a \in Actors, StepOf(a), NEW c \in calm'
        PROVE  (\A b \in Actors \ {c} : pc'[b] \notin Saving) /\ CalmAt(c)'
    <2>1. c \in Actors
      BY TypeNext DEF TypeOK
    <2>2. CASE c = a
      BY <1>3, <2>2, CalmIsAlone, CalmStep
    <2>3. CASE c # a
      <3>1. /\ c \in calm /\ UNCHANGED repositoryVars
            /\ pc'[c] = pc[c] /\ cand'[c] = cand[c] /\ named'[c] = named[c]
        BY <1>3, <2>1, <2>3, Frame
      <3>2. CalmAt(c)'
        BY <3>1 DEF CalmInv, CalmAt, repositoryVars
      <3> QED
        BY <1>3, <2>1, <3>2, CalmIsAlone
    <2> QED
      BY <2>2, <2>3
  <1>4. CASE \E a \in Actors : StepOf(a)
    BY <1>3, <1>4 DEF CalmInv
  <1> QED
    BY <1>1, <1>2, <1>4, NextCases

\* Whatever crashed or failed before, the commit a request that no write
\* overlapped is told about is its own, signed by it, with what it sent.
THEOREM AnswersAreOwn == Spec => []AnswerIsOwnCommit
  <1>1. Init => CalmInv
    BY DEF Init, CalmInv
  <1>2. CalmInv => AnswerIsOwnCommit
    <2> SUFFICES ASSUME CalmInv, NEW a \in Actors, pc[a] = "logged", a \in calm
                 PROVE  log[HeadCommit].author = a /\ log[HeadCommit].doc = cand[a]
      BY DEF AnswerIsOwnCommit
    <2>1. log[HeadCommit] = [doc |-> cand[a], author |-> a]
      BY DEF CalmInv, CalmAt, HeadCommit
    <2> QED
      BY <2>1
  <1> QED
    BY <1>1, <1>2, TypeInit, TypeNext, CalmNext, PTL DEF Spec

-----------------------------------------------------------------------------
\* What a request will write: the seed has no operator's edit, a save has one.
CandAt(a) ==
  Asking(a) => cand[a] \in Documents /\ (cand[a] = {} <=> a = Seeder)
CandInv == \A a \in Actors : CandAt(a)

LEMMA CandStep ==
  ASSUME TypeOK, NEW a \in Actors, CandAt(a), StepOf(a)
  PROVE  CandAt(a)'
  <1> USE DEF TypeOK, Actors, Asking, CandAt, Saving
  <1>1. CASE a \in Operators /\ (Browse(a) \/ Launch(a) \/ Rollback(a))
    BY <1>1 DEF Browse, BrowseDocument, BrowseHead, Launch, LaunchChecked,
       LaunchRecorded, LaunchFrozen, Rollback, Revert, RevertConflicts, Go, End
  <1>2. CASE a \in Operators /\ Save(a)
    <2>1. PICK edit \in Edits, sent \in {NoMatch, page[a].head} :
            PatchHost(a, edit, sent) \/ Replace(a, edit, sent)
      BY <1>2 DEF Save
    <2>2. PICK doc \in Documents : Submit(a, doc \union {edit}, sent)
      <3>1. {} \in Documents
        BY DEF Documents
      <3> QED
        BY <2>1, <3>1 DEF PatchHost, Replace, Shown
    <2>3. doc \union {edit} \in Documents /\ doc \union {edit} # {}
      BY DEF Documents
    <2> QED
      BY <1>2, <2>2, <2>3, InventoryRequestsAssumption DEF Submit
  <1>3. CASE Commit(a)
    BY <1>3 DEF Commit, CommitStale, CommitChecked, CommitUnchanged,
       CommitTruncate, CommitWrite, CommitAdd, CommitLog, CommitRefused,
       CommitFails, Answer, Go, End
  <1>4. CASE a = Seeder /\ SeedStart
    BY <1>4 DEF SeedStart, Go, Documents
  <1> QED
    BY <1>1, <1>2, <1>3, <1>4 DEF StepOf

LEMMA CandNext == TypeOK /\ CalmInv /\ CandInv /\ [Next]_vars => CandInv'
  <1> SUFFICES ASSUME TypeOK, CalmInv, CandInv, [Next]_vars PROVE CandInv'
    OBVIOUS
  <1>1. CASE UNCHANGED vars \/ Serve \/ Crash
    BY <1>1 DEF vars, requestVars, Serve, Crash, CandInv, CandAt, Asking, Saving
  <1>2. ASSUME NEW a \in Actors, StepOf(a), NEW b \in Actors
        PROVE  CandAt(b)'
    <2>1. CASE b = a
      BY <1>2, <2>1, CandStep DEF CandInv
    <2>2. CASE b # a
      BY <1>2, <2>2, Frame DEF CandInv, CandAt, Asking
    <2> QED
      BY <2>1, <2>2
  <1> QED
    BY <1>1, <1>2, NextCases DEF CandInv

-----------------------------------------------------------------------------
PageAt(o) ==
  /\ page[o].doc = Blank => page[o].head = 0
  /\ Undisturbed => page[o].doc # Mixed
  /\ Undisturbed /\ page[o].calm /\ page[o].doc # Blank
       => page[o].doc = DocAt(page[o].head)

AddsTo(doc, a) == \E edit \in Edits : cand[a] = doc \union {edit}

\* What a calm request may rely on at each of its places.
BasisAt(a) ==
  /\ pc[a] = "browsing" => cand[a] = HeadDoc
  /\ pc[a] = "checking" /\ named[a] \notin {0, NoMatch}
       => AddsTo(HeadDoc, a) \/ AddsTo(DocAt(named[a]), a)
  /\ pc[a] \in {"comparing", "truncated", "written", "added"} /\ named[a] # NoMatch
       => AddsTo(HeadDoc, a)
  /\ a = Seeder /\ Asking(a) => HeadDoc = Blank
  /\ pc[a] = "launching" => tree = HeadDoc /\ tree \in Documents
  /\ pc[a] = "freezing" => named[a] \in 1..Len(log) /\ tree = DocAt(named[a])

BasisInv ==
  /\ \A o \in Operators : PageAt(o)
  /\ Undisturbed => \A a \in Actors : pc[a] = "browsing" => cand[a] # Mixed
  /\ Undisturbed => \A a \in calm : BasisAt(a)

BInv == TypeOK /\ SettledInv /\ CalmInv /\ CandInv /\ BasisInv

LEMMA BasisInit == Init => BasisInv
  BY ContentFacts DEF Init, NoPage, BasisInv, PageAt

\* The history only grows, so a name keeps its meaning.
LEMMA HistoryGrows ==
  ASSUME TypeOK, [Next]_vars
  PROVE  /\ Len(log) <= Len(log')
         /\ \A n \in 0..Len(log) : DocAt(n)' = DocAt(n)
  <1>1. CASE log' = log
    BY <1>1, HeadFacts DEF DocAt
  <1>2. ASSUME NEW doc \in Contents \ {Mixed}, NEW author \in Actors,
               log' = Append(log, [doc |-> doc, author |-> author])
        PROVE  /\ Len(log) <= Len(log')
               /\ \A n \in 0..Len(log) : DocAt(n)' = DocAt(n)
    BY <1>2, AppendFacts, HeadFacts
  <1>3. CASE UNCHANGED vars \/ Serve \/ Crash
    BY <1>1, <1>3 DEF vars, repositoryVars, Serve, Crash
  <1>4. ASSUME NEW a \in Actors, StepOf(a)
        PROVE  \/ log' = log
               \/ \E doc \in Contents \ {Mixed} :
                    log' = Append(log, [doc |-> doc, author |-> a])
    <2>1. CASE a \in Operators /\ (Browse(a) \/ Save(a) \/ Launch(a))
      BY <2>1 DEF Browse, BrowseDocument, BrowseHead, Save, PatchHost, Replace,
         Submit, Launch, LaunchChecked, LaunchRecorded, LaunchFrozen, repositoryVars
    <2>2. CASE a \in Operators /\ Rollback(a)
      BY <2>2, ReversedFacts DEF Rollback, Revert, GitRevert, RevertConflicts,
         GitConflict
    <2>3. CASE Commit(a)
      BY <2>3 DEF Commit, CommitStale, CommitChecked, CommitUnchanged,
         CommitTruncate, CommitWrite, CommitAdd, CommitLog, GitCommit, Committable,
         CommitRefused, CommitFails, Answer, repositoryVars, TypeOK
    <2>4. CASE a = Seeder /\ SeedStart
      BY <2>4 DEF SeedStart, repositoryVars
    <2> QED
      BY <1>4, <2>1, <2>2, <2>3, <2>4 DEF StepOf
  <1> QED
    BY <1>1, <1>2, <1>3, <1>4, NextCases

LEMMA PageNext ==
  ASSUME BInv, [Next]_vars, NEW o \in Operators
  PROVE  PageAt(o)'
  <1> USE DEF BInv
  <1>1. Undisturbed' => Undisturbed
    BY MishapsGrow
  <1>2. page[o].head \in 0..Len(log)
    BY DEF TypeOK
  <1>3. CASE page'[o] = page[o]
    <2>1. PICK h \in 0..Len(log) : h = page[o].head
      BY <1>2
    <2>2. DocAt(h)' = DocAt(h)
      BY HistoryGrows
    <2>3. PageAt(o)
      BY DEF BasisInv
    <2> QED
      BY <1>1, <1>3, <2>1, <2>2, <2>3 DEF PageAt, DocAt
  <1>4. CASE BrowseHead(o)
    <2>1. /\ page'[o] = [doc  |-> cand[o],
                         head |-> IF cand[o] = Blank THEN 0 ELSE HeadCommit,
                         calm |-> o \in calm]
          /\ pc[o] = "browsing" /\ log' = log
      BY <1>4 DEF BrowseHead, End, Go, TypeOK, repositoryVars
    <2>2. Undisturbed => cand[o] # Mixed
      BY <2>1 DEF BasisInv, Actors
    <2>3. Undisturbed /\ o \in calm => cand[o] = DocAt(HeadCommit)
      BY <2>1 DEF BasisInv, BasisAt, HeadDoc, HeadCommit
    <2>4. cand[o] # Blank => page'[o].head = Len(log)
      BY <2>1 DEF HeadCommit
    <2>5. page'[o].doc = cand[o] /\ page'[o].calm = (o \in calm)
      BY <2>1
    <2>6. cand[o] = Blank => page'[o].head = 0
      BY <2>1
    <2>7. Undisturbed /\ o \in calm /\ cand[o] # Blank => cand[o] = DocAt(page[o].head)'
      BY <2>1, <2>3, <2>4 DEF DocAt, HeadCommit
    <2> QED
      BY <1>1, <2>2, <2>5, <2>6, <2>7 DEF PageAt
  <1>5. CASE UNCHANGED vars \/ Serve \/ Crash
    BY <1>3, <1>5 DEF vars, requestVars, Serve, Crash
  <1>6. ASSUME NEW a \in Actors, StepOf(a)
        PROVE  page'[o] = page[o] \/ BrowseHead(o)
    <2>1. CASE a # o
      BY <1>6, <2>1, Frame DEF Actors
    <2>2. CASE a = o /\ ~BrowseHead(o)
      BY <1>6, <2>2 DEF StepOf, Browse, BrowseDocument, Save, PatchHost, Replace,
         Submit, Rollback, Revert, RevertConflicts, Launch, LaunchChecked,
         LaunchRecorded, LaunchFrozen, Commit, CommitStale, CommitChecked,
         CommitUnchanged, CommitTruncate, CommitWrite, CommitAdd, CommitLog,
         CommitRefused, CommitFails, Answer, SeedStart
    <2> QED
      BY <2>1, <2>2
  <1> QED
    BY <1>3, <1>4, <1>5, <1>6, NextCases

\* A read that begins calm, in an undisturbed history, sees what HEAD holds.
LEMMA CalmRead ==
  ASSUME BInv, Undisturbed, NEW o \in Operators, pc[o] = "idle",
         BeginRead(o), o \in calm'
  PROVE  tree = HeadDoc
  <1>1. Writing = {}
    BY DEF BInv, BeginRead, CalmInv, Writing, Actors, Saving
  <1> QED
    BY <1>1, SettledIsCommitted DEF BInv, Uncommitted, Writing, Saving

LEMMA CalmWrite ==
  ASSUME BInv, Undisturbed, NEW a \in Actors, NEW basis \in BOOLEAN,
         BeginWrite(a, basis), a \in calm'
  PROVE  tree = HeadDoc /\ basis
  <1>1. Writing = {} /\ basis
    BY DEF BeginWrite
  <1> QED
    BY <1>1, SettledIsCommitted DEF BInv, Uncommitted, Writing, Saving

LEMMA BasisSave ==
  ASSUME BInv, Undisturbed, NEW o \in Operators, Save(o), o \in calm'
  PROVE  BasisAt(o)'
  <1>1. PICK edit \in Edits, sent \in {NoMatch, page[o].head} :
          PatchHost(o, edit, sent) \/ Replace(o, edit, sent)
    BY DEF Save
  <1>2. /\ page[o].head \in Nat
        /\ page[o].doc \in Contents /\ page[o].calm \in BOOLEAN
    BY DEF BInv, TypeOK
  <1>3. PICK content : Submit(o, content, sent)
    BY <1>1 DEF PatchHost, Replace
  <1>4. /\ pc'[o] = "checking" /\ named'[o] = sent /\ log' = log
        /\ HeadDoc' = HeadDoc /\ DocAt(sent)' = DocAt(sent)
    BY <1>3 DEF Submit, Go, BInv, TypeOK, Actors, repositoryVars, HeadDoc, DocAt
  <1>5. tree = HeadDoc /\ (sent = NoMatch \/ page[o].calm)
    BY <1>2, <1>3, CalmWrite DEF Submit, Actors
  <1>6. SUFFICES ASSUME sent # NoMatch, sent # 0
                 PROVE  \/ cand'[o] = HeadDoc \union {edit}
                        \/ cand'[o] = DocAt(sent) \union {edit}
    BY <1>4, InventoryRequestsAssumption DEF BasisAt, AddsTo
  <1>7. CASE PatchHost(o, edit, sent)
    BY <1>5, <1>7 DEF PatchHost, Submit, BInv, TypeOK, Actors
  <1>8. CASE Replace(o, edit, sent)
    <2>1. sent = page[o].head /\ page[o].doc # Blank /\ page[o].doc # Mixed
      BY <1>6 DEF BInv, BasisInv, PageAt
    <2>2. page[o].doc = DocAt(sent) /\ page[o].doc \in Documents
      BY <1>2, <1>5, <1>6, <2>1 DEF BInv, BasisInv, PageAt, Contents
    <2>3. cand'[o] = page[o].doc \union {edit}
      BY <1>8, <2>2 DEF Replace, Shown, Submit, BInv, TypeOK, Actors
    <2> QED
      BY <2>2, <2>3
  <1> QED
    BY <1>1, <1>7, <1>8

LEMMA BasisLaunch ==
  ASSUME BInv, Undisturbed, NEW o \in Operators, Launch(o), o \in calm'
  PROVE  BasisAt(o)'
  <1> USE DEF BInv, TypeOK, Actors, Go, Asking, Saving
  <1>1. HeadDoc' = HeadDoc /\ log' = log /\ tree' = tree
    BY DEF Launch, LaunchChecked, LaunchRecorded, LaunchFrozen, repositoryVars,
       HeadDoc, DocAt
  <1>2. CASE LaunchChecked(o)
    <2>1. tree = HeadDoc /\ tree \in Documents /\ pc'[o] = "launching"
      BY <1>2, CalmRead DEF LaunchChecked
    <2> QED
      BY <1>1, <2>1 DEF BasisAt
  <1>3. CASE LaunchRecorded(o)
    <2>1. tree = HeadDoc /\ tree \in Documents
      BY <1>3 DEF LaunchRecorded, BasisInv, BasisAt
    <2>2. named'[o] = Len(log) /\ pc'[o] = "freezing"
      BY <1>3, <2>1, ContentFacts DEF LaunchRecorded, HeadCommit
    <2>3. Len(log) # 0
      BY <2>1, ContentFacts DEF HeadDoc, DocAt
    <2>4. Len(log) \in 1..Len(log)
      BY <2>3, HeadFacts
    <2>5. DocAt(Len(log)) = tree /\ DocAt(Len(log))' = DocAt(Len(log))
      BY <1>1, <2>1 DEF HeadDoc, DocAt
    <2>6. named'[o] \in 1..Len(log') /\ tree' = DocAt(named[o])'
      BY <1>1, <2>2, <2>4, <2>5
    <2> QED
      BY <2>2, <2>6 DEF BasisAt
  <1>4. CASE LaunchFrozen(o)
    BY <1>4 DEF LaunchFrozen, End
  <1> QED
    BY <1>2, <1>3, <1>4 DEF Launch

LEMMA BasisCommit ==
  ASSUME BInv, Undisturbed, NEW a \in Actors, Commit(a), a \in calm'
  PROVE  BasisAt(a)'
  <1> USE DEF BInv, TypeOK, Go, Asking, Saving, AddsTo
  <1>1. a \in calm /\ BasisAt(a)
    BY DEF Commit, CommitStale, CommitChecked, CommitUnchanged,
       CommitTruncate, CommitWrite, CommitAdd, CommitLog, CommitRefused,
       CommitFails, Answer, End, BasisInv
  <1>2. CASE CommitChecked(a)
    <2>1. HeadDoc' = HeadDoc /\ pc'[a] = "comparing" /\ UNCHANGED <<cand, named>>
      BY <1>2 DEF CommitChecked, repositoryVars, HeadDoc, DocAt
    <2>2. named[a] # NoMatch => named[a] # 0 /\ DocAt(named[a]) = HeadDoc
      BY <1>2 DEF CommitChecked, HeadMatches, HeadCommit, HeadDoc
    <2> QED
      BY <1>1, <1>2, <2>1, <2>2 DEF BasisAt, CommitChecked
  <1>3. CASE CommitTruncate(a) \/ CommitWrite(a) \/ CommitAdd(a)
    <2>1. HeadDoc' = HeadDoc /\ UNCHANGED <<cand, named>>
      BY <1>3 DEF CommitTruncate, CommitWrite, CommitAdd, HeadDoc, DocAt
    <2>2. /\ pc[a] \in {"comparing", "truncated", "written"}
          /\ pc'[a] \in {"truncated", "written", "added"}
      BY <1>3 DEF CommitTruncate, CommitWrite, CommitAdd
    <2> QED
      BY <1>1, <2>1, <2>2 DEF BasisAt
  <1>4. CASE CommitLog(a)
    BY <1>4 DEF CommitLog, BasisAt
  <1>5. CASE CommitStale(a) \/ CommitUnchanged(a) \/ CommitRefused(a)
             \/ CommitFails(a) \/ Answer(a)
    BY <1>5 DEF CommitStale, CommitUnchanged, CommitRefused, CommitFails, Answer, End
  <1> QED
    BY <1>2, <1>3, <1>4, <1>5 DEF Commit

LEMMA BasisStep ==
  ASSUME BInv, Undisturbed, NEW a \in Actors, StepOf(a), a \in calm'
  PROVE  BasisAt(a)'
  <1> USE DEF BInv, TypeOK, Actors, Go, Asking, Saving
  <1>1. CASE a \in Operators /\ Browse(a)
    <2>1. CASE BrowseDocument(a)
      <3>1. cand'[a] = HeadDoc /\ HeadDoc' = HeadDoc /\ pc'[a] = "browsing"
        BY <1>1, <2>1, CalmRead DEF BrowseDocument, repositoryVars, HeadDoc, DocAt
      <3> QED
        BY <3>1 DEF BasisAt
    <2>2. CASE BrowseHead(a)
      BY <2>2 DEF BrowseHead, End
    <2> QED
      BY <1>1, <2>1, <2>2 DEF Browse
  <1>2. CASE a \in Operators /\ Rollback(a)
    <2>1. pc'[a] = "logged"
      BY <1>2 DEF Rollback, Revert, RevertConflicts
    <2> QED
      BY <2>1 DEF BasisAt
  <1>3. CASE a = Seeder /\ SeedStart
    <2>1. pc'[a] = "checking" /\ named'[a] = NoMatch /\ HeadDoc' = HeadDoc
      BY <1>3 DEF SeedStart, repositoryVars, HeadDoc, DocAt
    <2>2. HeadDoc = Blank
      BY <1>3, CalmWrite DEF SeedStart
    <2> QED
      BY <2>1, <2>2 DEF BasisAt
  <1> QED
    BY <1>1, <1>2, <1>3, BasisSave, BasisLaunch, BasisCommit DEF StepOf

LEMMA BasisNext == BInv /\ [Next]_vars => BasisInv'
  <1> SUFFICES ASSUME BInv, [Next]_vars PROVE BasisInv'
    OBVIOUS
  <1> USE DEF BInv
  <1>1. \A o \in Operators : PageAt(o)'
    BY PageNext
  <1>2. CASE ~Undisturbed'
    BY <1>1, <1>2 DEF BasisInv
  <1>3. ASSUME Undisturbed'
        PROVE  /\ \A a \in Actors : pc'[a] = "browsing" => cand'[a] # Mixed
               /\ \A a \in calm' : BasisAt(a)'
    <2>1. Undisturbed
      BY <1>3, MishapsGrow
    <2>2. CASE UNCHANGED vars \/ Serve
      BY <2>1, <2>2 DEF vars, requestVars, repositoryVars, Serve, BasisInv, BasisAt,
         Asking, AddsTo, HeadDoc, DocAt
    <2>3. CASE Crash
      BY <2>3 DEF Crash
    <2>4. ASSUME NEW a \in Actors, StepOf(a), NEW c \in calm'
          PROVE  BasisAt(c)'
      <3>1. CASE c = a
        BY <2>1, <2>4, <3>1, BasisStep
      <3>2. CASE c # a
        <4>1. c \in Actors
          BY TypeNext DEF TypeOK
        <4>2. /\ c \in calm /\ UNCHANGED repositoryVars
              /\ pc'[c] = pc[c] /\ cand'[c] = cand[c] /\ named'[c] = named[c]
          BY <2>4, <3>2, <4>1, Frame
        <4> QED
          BY <2>1, <4>2 DEF BasisInv, BasisAt, Asking, AddsTo, repositoryVars,
             HeadDoc, DocAt
      <3> QED
        BY <3>1, <3>2
    <2>5. ASSUME NEW a \in Actors, StepOf(a), NEW b \in Actors, pc'[b] = "browsing"
          PROVE  cand'[b] # Mixed
      <3>1. CASE b # a
        BY <2>1, <2>5, <3>1, Frame DEF BasisInv
      <3>2. CASE b = a
        <4>1. b \in Operators /\ BrowseDocument(b)
          BY <2>5, <3>2 DEF StepOf, Browse, BrowseHead, Save, PatchHost, Replace,
             Submit, Rollback, Revert, RevertConflicts, Launch, LaunchChecked,
             LaunchRecorded, LaunchFrozen, Commit, CommitStale, CommitChecked,
             CommitUnchanged, CommitTruncate, CommitWrite, CommitAdd, CommitLog,
             CommitRefused, CommitFails, Answer, SeedStart, End, Go, TypeOK, Actors
        <4> QED
          BY <2>1, <4>1 DEF BrowseDocument, SettledInv, TypeOK, Actors
      <3> QED
        BY <3>1, <3>2
    <2> QED
      BY <2>2, <2>3, <2>4, <2>5, NextCases
  <1> QED
    BY <1>1, <1>2, <1>3 DEF BasisInv

LEMMA BInvInit == Init => BInv
  <1>1. Init => CalmInv /\ CandInv
    BY DEF Init, CalmInv, CandInv, CandAt, Asking, Saving
  <1> QED
    BY <1>1, TypeInit, SettledInit, BasisInit DEF BInv

LEMMA BInvNext == BInv /\ [Next]_vars => BInv'
  BY TypeNext, SettledNext, CalmNext, CandNext, BasisNext DEF BInv

\* The inventory a launch freezes is the one at the commit its record names,
\* when no write overlapped the launch and nothing went wrong before it.
THEOREM FrozenMatchesRecord == Spec => []FrozenIsRecorded
  <1>1. BInv => FrozenIsRecorded
    <2> SUFFICES ASSUME BInv, Undisturbed, NEW o \in Operators, pc[o] = "freezing", o \in calm
                 PROVE  named[o] # 0 /\ tree = DocAt(named[o])
      BY DEF FrozenIsRecorded
    <2>1. named[o] \in 1..Len(log) /\ tree = DocAt(named[o])
      BY DEF BInv, BasisInv, BasisAt
    <2>2. named[o] # 0
      BY <2>1, HeadFacts DEF BInv
    <2> QED
      BY <2>1, <2>2
  <1> QED
    BY <1>1, BInvInit, BInvNext, PTL DEF Spec

\* If-Match does what it is for as long as writes do not overlap: the commit
\* of a save that names the commit it was built on carries every edit HEAD had.
THEOREM IfMatchProtects == Spec => NoUnseenOverwrite
  <1>1. BInv /\ [Next]_vars =>
          [\A o \in Operators :
             /\ pc[o] = "added" /\ pc'[o] = "logged"
             /\ named[o] # NoMatch
             /\ o \in calm
             /\ Undisturbed
             => HeadDoc \cap Edits \subseteq HeadDoc']_vars
    <2> SUFFICES ASSUME BInv, [Next]_vars, NEW o \in Operators,
                        pc[o] = "added", pc'[o] = "logged", named[o] # NoMatch,
                        o \in calm, Undisturbed
                 PROVE  HeadDoc \cap Edits \subseteq HeadDoc'
      OBVIOUS
    <2> USE DEF BInv
    <2>1. CommitLog(o)
      <3>1. CASE UNCHANGED vars \/ Serve \/ Crash
        BY <3>1 DEF vars, requestVars, Serve, Crash, TypeOK, Actors
      <3>2. ASSUME NEW a \in Actors, StepOf(a)
            PROVE  CommitLog(o)
        <4>1. a = o
          BY <3>2, Frame DEF Actors
        <4> QED
          BY <3>2, <4>1 DEF StepOf, Browse, BrowseDocument, BrowseHead, Save,
             PatchHost, Replace, Submit, Rollback, Revert, RevertConflicts, Launch,
             LaunchChecked, LaunchRecorded, LaunchFrozen, Commit, CommitStale,
             CommitChecked, CommitUnchanged, CommitTruncate, CommitWrite, CommitAdd,
             CommitRefused, CommitFails, Answer, SeedStart, End, Go, TypeOK, Actors
      <3> QED
        BY <3>1, <3>2, NextCases
    <2>2. index = cand[o] /\ HeadDoc \cap Edits \subseteq cand[o]
      BY DEF CalmInv, CalmAt, BasisInv, BasisAt, AddsTo
    <2>3. HeadDoc' = index
      BY <2>1, AppendFacts DEF CommitLog, Committable, GitCommit, TypeOK, Actors
    <2> QED
      BY <2>2, <2>3
  <1> QED
    BY <1>1, BInvInit, BInvNext, PTL DEF Spec, NoUnseenOverwrite
-----------------------------------------------------------------------------
(* The refinement of InventoryHistory.                                     *)

Showing == [o \in Operators |-> page[o].head]
Awaiting == [o \in Operators |-> IF Asking(o) THEN {named[o]} ELSE {}]

LEMMA VersionFacts ==
  /\ History!Newest = HeadDoc /\ History!Missing = Blank
  /\ \A n : History!Version(n) = DocAt(n)
  /\ History!Versions = Contents \ {Mixed}
  <1>1. Contents \ {Mixed} = Documents \union {Blank}
    BY ContentFacts DEF Contents
  <1> QED
    BY <1>1 DEF History!Newest, History!Version, History!Missing, History!Versions,
       HeadDoc, DocAt, Blank, Documents

\* What a step of one actor does to the save each operator waits for.
LEMMA AwaitingStep ==
  ASSUME TypeOK, CalmInv, NEW a \in Actors, StepOf(a)
  PROVE  /\ a \notin Operators => Awaiting' = Awaiting
         /\ a \in Operators =>
              Awaiting' = [Awaiting EXCEPT ![a] = IF Asking(a)' THEN {named'[a]} ELSE {}]
  <1>1. \A b \in Operators \ {a} : Awaiting'[b] = Awaiting[b]
    BY Frame DEF Awaiting, Asking, Actors
  <1>2. a \in Operators => Awaiting'[a] = IF Asking(a)' THEN {named'[a]} ELSE {}
    BY DEF Awaiting
  <1> QED
    BY <1>1, <1>2 DEF Awaiting

\* A step that adds no version, shows nothing, and changes nothing that its
\* operator waits for.
LEMMA StutterStep ==
  ASSUME TypeOK, CalmInv, NEW a \in Actors, StepOf(a), log' = log, page' = page,
         Asking(a)' <=> Asking(a), Asking(a) => named'[a] = named[a]
  PROVE  History!Next
  <1>1. Awaiting' = Awaiting
    BY AwaitingStep DEF Awaiting
  <1> QED
    BY <1>1 DEF History!Next, Awaiting

LEMMA GiveUpStep ==
  ASSUME TypeOK, CalmInv, NEW a \in Actors, StepOf(a), log' = log, page' = page,
         ~Asking(a)'
  PROVE  History!Next
  <1>1. CASE a \in Operators
    <2>1. Awaiting' = [Awaiting EXCEPT ![a] = {}]
      BY <1>1, AwaitingStep
    <2>2. History!GiveUp(a)
      BY <2>1 DEF History!GiveUp, Awaiting
    <2> QED
      BY <1>1, <2>2 DEF History!Next
  <1>2. CASE a \notin Operators
    BY <1>2, AwaitingStep DEF History!Next, Awaiting
  <1> QED
    BY <1>1, <1>2

LEMMA ReadSteps ==
  ASSUME BInv, NEW o \in Operators, Browse(o)
  PROVE  History!Next
  <1> USE DEF BInv, TypeOK, Go
  <1>. o \in Actors /\ StepOf(o)
    BY DEF StepOf, Actors
  <1>1. CASE BrowseDocument(o)
    <2>1. ~Asking(o) /\ ~Asking(o)'
      BY <1>1 DEF BrowseDocument, Asking, Saving
    <2> QED
      BY <1>1, <2>1, StutterStep DEF BrowseDocument, repositoryVars
  <1>2. CASE BrowseHead(o)
    <2> DEFINE n == IF cand[o] = Blank THEN 0 ELSE Len(log)
    <2>1. n \in {0, Len(log)} /\ log' = log /\ ~Asking(o) /\ ~Asking(o)'
      BY <1>2 DEF BrowseHead, End, Asking, Saving, repositoryVars
    <2>2. Showing' = [Showing EXCEPT ![o] = n]
      BY <1>2 DEF BrowseHead, Showing, HeadCommit
    <2>3. Awaiting' = Awaiting
      BY <2>1, AwaitingStep DEF Awaiting
    <2>4. o \in calm /\ Undisturbed => (n = 0 <=> HeadDoc = Blank)
      <3>1. HAVE o \in calm /\ Undisturbed
      <3>2. cand[o] = HeadDoc
        BY <1>2, <3>1 DEF BrowseHead, End, BasisInv, BasisAt
      <3>3. Len(log) = 0 => HeadDoc = Blank
        BY DEF HeadDoc, DocAt
      <3> QED
        BY <3>2, <3>3
    <2>. HIDE DEF n
    <2>5. History!Read(o)
      BY <2>1, <2>2, <2>3, <2>4, VersionFacts DEF History!Read, Showing, Awaiting
    <2> QED
      BY <2>5 DEF History!Next
  <1> QED
    BY <1>1, <1>2 DEF Browse

LEMMA LaunchSteps ==
  ASSUME BInv, NEW o \in Operators, Launch(o)
  PROVE  History!Next
  <1>1. o \in Actors /\ StepOf(o)
    BY DEF StepOf, Actors
  <1>2. log' = log /\ page' = page /\ ~Asking(o) /\ ~Asking(o)'
    BY <1>1 DEF Launch, LaunchChecked, LaunchRecorded, LaunchFrozen, End, Go,
       BInv, TypeOK, Asking, Saving, repositoryVars
  <1> QED
    BY <1>1, <1>2, StutterStep DEF BInv

LEMMA SaveSteps ==
  ASSUME BInv, NEW o \in Operators, Save(o)
  PROVE  History!Next
  <1>1. o \in Actors /\ StepOf(o)
    BY DEF StepOf, Actors
  <1>2. PICK sent \in {NoMatch, page[o].head} : \E content : Submit(o, content, sent)
    BY DEF Save, PatchHost, Replace
  <1>3. /\ log' = log /\ page' = page /\ named'[o] = sent
        /\ ~Asking(o) /\ Asking(o)'
    BY <1>1, <1>2 DEF Submit, Go, BInv, TypeOK, Asking, Saving, repositoryVars
  <1>4. Awaiting' = [Awaiting EXCEPT ![o] = {sent}] /\ Awaiting[o] = {}
    BY <1>1, <1>3, AwaitingStep DEF BInv, Awaiting
  <1>5. sent \in {NoMatch, Showing[o]}
    BY DEF Showing
  <1>6. History!Ask(o)
    BY <1>3, <1>4, <1>5 DEF History!Ask, Showing, Awaiting
  <1> QED
    BY <1>6 DEF History!Next

\* The merge of a revert, edit by edit.
LEMMA ReversedIs ==
  ASSUME TypeOK, NEW n \in 1..Len(log), NEW result \in Reversed(n), NEW e
  PROVE  e \in result <=> IF e \in History!Changed(n) THEN e \in DocAt(n - 1) ELSE e \in HeadDoc
  <1>1. \/ HeadDoc = DocAt(n) /\ result = DocAt(n - 1)
        \/ result = (HeadDoc \ (DocAt(n) \ DocAt(n - 1))) \union (DocAt(n - 1) \ DocAt(n))
    BY DEF Reversed
  <1> QED
    BY <1>1, VersionFacts DEF History!Changed

LEMMA RollbackSteps ==
  ASSUME BInv, NEW o \in Operators, Rollback(o)
  PROVE  History!Next
  <1>1. o \in Actors /\ StepOf(o)
    BY DEF StepOf, Actors
  <1>2. PICK n \in 1..Len(log) : Revert(o, n) \/ RevertConflicts(o, n)
    BY DEF Rollback
  <1>3. page' = page /\ ~Asking(o) /\ ~Asking(o)'
    BY <1>1, <1>2 DEF Revert, RevertConflicts, Go, BInv, TypeOK, Asking, Saving
  <1>4. CASE RevertConflicts(o, n)
    BY <1>1, <1>3, <1>4, StutterStep DEF RevertConflicts, GitConflict, BInv
  <1>5. CASE Revert(o, n)
    <2>1. PICK result \in Reversed(n) : result # HeadDoc /\ GitRevert(result, o)
      BY <1>5 DEF Revert
    <2>2. result \in History!Versions
      BY <2>1, ReversedFacts, VersionFacts DEF BInv
    <2>3. History!Add(result, o)
      BY <2>1, VersionFacts DEF History!Add, GitRevert
    <2>4. Awaiting' = Awaiting
      BY <1>1, <1>3, AwaitingStep DEF BInv, Awaiting
    <2>5. \A e \in Edits \union {Nothing} :
            e \in result <=> IF e \in History!Changed(n) THEN e \in History!Version(n - 1)
                             ELSE e \in History!Newest
      BY ReversedIs, VersionFacts DEF BInv
    <2>6. History!Revert(o, n)
      BY <1>3, <2>2, <2>3, <2>4, <2>5 DEF History!Revert, Awaiting
    <2> QED
      BY <2>6 DEF History!Next
  <1> QED
    BY <1>2, <1>4, <1>5

\* The commit of a save or of the seed is the instant it is made at.
LEMMA LogStep ==
  ASSUME BInv, NEW a \in Actors, CommitLog(a)
  PROVE  History!Next
  <1> USE DEF BInv, TypeOK
  <1>1. StepOf(a)
    BY DEF StepOf, Commit
  <1>2. /\ pc[a] = "added" /\ Asking(a) /\ ~Asking(a)' /\ page' = page
        /\ index \in Contents \ {Mixed} /\ index # HeadDoc
        /\ log' = Append(log, [doc |-> index, author |-> a])
    BY DEF CommitLog, GitCommit, Committable, Go, Asking, Saving
  <1>3. History!Add(index, a) /\ index \in History!Versions
    BY <1>2, VersionFacts DEF History!Add
  <1>4. ASSUME a \in calm
        PROVE  /\ index = cand[a] /\ index \in Documents /\ (index = {} <=> a = Seeder)
               /\ named[a] # NoMatch => named[a] = Len(log)
               /\ named[a] # NoMatch /\ Undisturbed => \E edit \in Edits : index = HeadDoc \union {edit}
               /\ a = Seeder /\ Undisturbed => HeadDoc = Blank
    <2>1. index = cand[a] /\ (named[a] # NoMatch => named[a] = Len(log))
      BY <1>2, <1>4 DEF CalmInv, CalmAt
    <2>2. cand[a] \in Documents /\ (cand[a] = {} <=> a = Seeder)
      BY <1>2 DEF CandInv, CandAt
    <2>3. ASSUME Undisturbed
          PROVE  /\ named[a] # NoMatch => AddsTo(HeadDoc, a)
                 /\ a = Seeder => HeadDoc = Blank
      BY <1>2, <1>4, <2>3 DEF BasisInv, BasisAt
    <2> QED
      BY <2>1, <2>2, <2>3 DEF AddsTo
  <1>5. CASE a \in Operators
    <2>1. Awaiting' = [Awaiting EXCEPT ![a] = {}] /\ Awaiting[a] = {named[a]}
      BY <1>1, <1>2, <1>5, AwaitingStep DEF Awaiting
    <2>2. ASSUME a \in calm
          PROVE  \E edit \in Edits :
                   /\ index # Blank /\ edit \in index
                   /\ {named[a]} # {NoMatch} =>
                        /\ {named[a]} = {Len(log)}
                        /\ Undisturbed => index = HeadDoc \union {edit}
      <3>1. index # Blank /\ index # {} /\ index \subseteq Edits
        BY <1>4, <1>5, <2>2, ContentFacts, InventoryRequestsAssumption DEF Documents
      <3>2. CASE named[a] # NoMatch /\ Undisturbed
        BY <1>4, <2>2, <3>1, <3>2
      <3>3. CASE ~(named[a] # NoMatch /\ Undisturbed)
        BY <1>4, <2>2, <3>1, <3>3
      <3> QED
        BY <3>2, <3>3
    <2>3. History!Save(a)
      BY <1>2, <1>3, <2>1, <2>2, VersionFacts DEF History!Save, Awaiting
    <2> QED
      BY <1>5, <2>3 DEF History!Next
  <1>6. CASE a = Seeder
    <2>1. Awaiting' = Awaiting
      BY <1>1, <1>6, AwaitingStep, InventoryRequestsAssumption
    <2>2. History!Add(index, Seeder)
      BY <1>3, <1>6
    <2>3. History!Seed
      BY <1>2, <1>3, <1>4, <1>6, <2>1, <2>2, VersionFacts DEF History!Seed, Awaiting
    <2> QED
      BY <2>3 DEF History!Next
  <1> QED
    BY <1>5, <1>6 DEF Actors

LEMMA CommitSteps ==
  ASSUME BInv, NEW a \in Actors, Commit(a)
  PROVE  History!Next
  <1> USE DEF BInv, TypeOK, Go, Asking, Saving
  <1>1. StepOf(a)
    BY DEF StepOf
  <1>2. CASE CommitLog(a)
    BY <1>2, LogStep
  <1>3. CASE CommitChecked(a) \/ CommitTruncate(a) \/ CommitWrite(a) \/ CommitAdd(a)
    <2>1. log' = log /\ page' = page /\ named' = named /\ Asking(a) /\ Asking(a)'
      BY <1>3 DEF CommitChecked, CommitTruncate, CommitWrite, CommitAdd, repositoryVars
    <2> QED
      BY <1>1, <2>1, StutterStep
  <1>4. CASE CommitStale(a) \/ CommitUnchanged(a) \/ CommitRefused(a)
             \/ CommitFails(a) \/ Answer(a)
    <2>1. log' = log /\ page' = page /\ ~Asking(a)'
      BY <1>4 DEF CommitStale, CommitUnchanged, CommitRefused, CommitFails, Answer,
         End, repositoryVars
    <2> QED
      BY <1>1, <2>1, GiveUpStep
  <1> QED
    BY <1>2, <1>3, <1>4 DEF Commit

LEMMA HistorySteps == BInv /\ [Next]_vars => [History!Next]_(History!vars)
  <1> SUFFICES ASSUME BInv, [Next]_vars PROVE [History!Next]_(History!vars)
    OBVIOUS
  <1>1. CASE UNCHANGED vars
    BY <1>1 DEF vars, repositoryVars, requestVars, History!vars, Asking, Undisturbed
  <1>2. CASE Serve
    BY <1>2 DEF Serve, repositoryVars, requestVars, History!Next, Asking
  <1>3. CASE Crash
    <2>1. History!Die
      BY <1>3 DEF Crash, repositoryVars, History!Die, Asking, Saving, Actors
    <2> QED
      BY <2>1 DEF History!Next
  <1>4. CASE SeedStart
    <2>1. Seeder \in Actors /\ StepOf(Seeder)
      BY <1>4 DEF StepOf, Actors
    <2>2. Awaiting' = Awaiting
      BY <2>1, AwaitingStep, InventoryRequestsAssumption DEF BInv
    <2> QED
      BY <1>4, <2>2 DEF SeedStart, repositoryVars, History!Next, Awaiting
  <1> QED
    BY <1>1, <1>2, <1>3, <1>4, ReadSteps, LaunchSteps, SaveSteps, RollbackSteps,
       CommitSteps DEF Next

\* Requests that read, write, stage and commit in steps of their own, with
\* those of others, failures and crashes between them, implement a history that
\* each request extends at one instant, for any operators, edits and bounds.
THEOREM HistoryImplemented == Spec => ImplementsHistory
  <1>1. Init => History!Init
    BY DEF Init, RepositoryInit, NoPage, History!Init, Asking, Saving, Actors
  <1> QED
    BY <1>1, BInvInit, BInvNext, HistorySteps, PTL DEF Spec, ImplementsHistory, History!Spec
=============================================================================
