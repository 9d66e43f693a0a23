--------------------------- MODULE InventoryProofs ---------------------------
(***************************************************************************)
(* The inventory repository, proved for any operators, edits and bounds.   *)
(*                                                                         *)
(* SettledInv names the actor that owes a commit whenever the tree, the    *)
(* index and HEAD differ.  CalmInv says that a calm request is alone in    *)
(* writing, so what it wrote is what it stages, commits and answers.       *)
(* BasisInv carries what a calm read saw to the commit that builds on it;  *)
(* it needs the other two.                                                 *)
(***************************************************************************)
EXTENDS InventoryProperties, SequenceTheorems, TLAPS

LEMMA ContentFacts ==
  /\ Blank \in Contents /\ Mixed \in Contents /\ Documents \subseteq Contents
  /\ Blank # Mixed /\ Blank \notin Documents /\ Mixed \notin Documents
  BY InventoryRepositoryAssumption DEF Contents, Documents, Blank, Mixed

LEMMA HeadFacts ==
  ASSUME TypeOK
  PROVE  /\ Len(log) \in Nat
         /\ HeadDoc \in Contents \ {Mixed}
         /\ \A n \in 0..Len(log) : DocAt(n) \in Contents \ {Mixed}
  <1>1. Len(log) \in Nat /\ \A n \in 1..Len(log) : log[n].doc \in Contents \ {Mixed}
    <2>1. log \in Seq([doc : Contents \ {Mixed}, author : Actors])
      BY DEF TypeOK
    <2>2. \A n \in 1..Len(log) : log[n] \in [doc : Contents \ {Mixed}, author : Actors]
      BY <2>1, ElementOfSeq
    <2> QED
      BY <2>1, <2>2
  <1>2. \A n \in 0..Len(log) : DocAt(n) \in Contents \ {Mixed}
    BY <1>1, ContentFacts DEF DocAt
  <1> QED
    BY <1>1, <1>2 DEF HeadDoc

\* What an appended commit does to the history.
LEMMA AppendFacts ==
  ASSUME TypeOK, NEW doc \in Contents \ {Mixed}, NEW author \in Actors,
         log' = Append(log, [doc |-> doc, author |-> author])
  PROVE  /\ log' \in Seq([doc : Contents \ {Mixed}, author : Actors])
         /\ Len(log') = Len(log) + 1
         /\ HeadDoc' = doc
         /\ log'[Len(log')] = [doc |-> doc, author |-> author]
         /\ \A n \in 0..Len(log) : DocAt(n)' = DocAt(n)
  <1>1. /\ log' \in Seq([doc : Contents \ {Mixed}, author : Actors])
        /\ Len(log') = Len(log) + 1
        /\ log'[Len(log) + 1] = [doc |-> doc, author |-> author]
        /\ \A n \in 1..Len(log) : log'[n] = log[n]
        /\ Len(log) \in Nat
    BY DEF TypeOK
  <1> QED
    BY <1>1 DEF HeadDoc, DocAt

LEMMA ReversedFacts ==
  ASSUME TypeOK, NEW n \in 1..Len(log), NEW result \in Reversed(n)
  PROVE  result \in Contents \ {Mixed}
  <1>1. n - 1 \in 0..Len(log) /\ n \in 0..Len(log)
    BY HeadFacts
  <1>2. CASE HeadDoc = DocAt(n)
    BY <1>1, <1>2, HeadFacts DEF Reversed
  <1>3. CASE HeadDoc # DocAt(n)
    <2>1. {HeadDoc, DocAt(n), DocAt(n - 1)} \subseteq Documents
      BY <1>3 DEF Reversed
    <2>2. result \in Documents
      BY <1>3, <2>1 DEF Reversed, Documents
    <2> QED
      BY <2>2, ContentFacts
  <1> QED
    BY <1>2, <1>3

LEMMA ConflictedFacts ==
  ASSUME TypeOK, NEW n \in 1..Len(log)
  PROVE  Conflicted(n) \in Contents
  <1>1. n - 1 \in 0..Len(log)
    BY HeadFacts
  <1> QED
    BY <1>1, HeadFacts, ContentFacts DEF Conflicted

-----------------------------------------------------------------------------
LEMMA TypeInit == Init => TypeOK
  <1> SUFFICES ASSUME Init PROVE TypeOK
    OBVIOUS
  <1>1. cand \in [Actors -> Contents]
    BY ContentFacts DEF Init, Documents
  <1> QED
    BY <1>1, ContentFacts, InventoryRequestsAssumption
    DEF Init, RepositoryInit, TypeOK, NoPage, Places

LEMMA TypeBegin ==
  ASSUME TypeOK, NEW a \in Actors,
         BeginRead(a) \/ (\E basis \in BOOLEAN : BeginWrite(a, basis))
  PROVE  calm' \subseteq Actors
  BY DEF TypeOK, BeginRead, BeginWrite

LEMMA TypeRead ==
  ASSUME TypeOK, NEW o \in Operators, Browse(o) \/ Launch(o)
  PROVE  TypeOK'
  <1> USE DEF TypeOK, Places, Reading, Saving, Actors
  <1>1. CASE BrowseDocument(o)
    BY <1>1, TypeBegin DEF BrowseDocument, Go, repositoryVars
  <1>2. CASE BrowseHead(o)
    <2>1. [doc |-> cand[o], head |-> IF cand[o] = Blank THEN 0 ELSE HeadCommit,
           calm |-> o \in calm]
             \in [doc : Contents, head : 0..Len(log), calm : BOOLEAN]
      BY HeadFacts DEF HeadCommit
    <2>2. cand' \in [Actors -> Contents]
      BY <1>2, ContentFacts DEF BrowseHead, End, Documents
    <2> QED
      BY <1>2, <2>1, <2>2 DEF BrowseHead, End, Go, repositoryVars
  <1>3. CASE LaunchChecked(o)
    BY <1>3, TypeBegin DEF LaunchChecked, Go, repositoryVars
  <1>4. CASE LaunchRecorded(o)
    <2>1. PICK n \in 0..Len(log) : named' = [named EXCEPT ![o] = n]
      BY <1>4, HeadFacts DEF LaunchRecorded, HeadCommit
    <2>2. named' \in [Actors -> (0..Len(log)) \union {NoMatch}]
      BY <2>1
    <2>3. pc' \in [Actors -> Places]
      BY <1>4 DEF LaunchRecorded, Go
    <2> QED
      BY <1>4, <2>2, <2>3 DEF LaunchRecorded, repositoryVars
  <1>5. CASE LaunchFrozen(o)
    BY <1>5, ContentFacts DEF LaunchFrozen, End, Go, repositoryVars, Documents
  <1> QED
    BY <1>1, <1>2, <1>3, <1>4, <1>5 DEF Browse, Launch

LEMMA TypeWrite ==
  ASSUME TypeOK, NEW o \in Operators, Save(o) \/ Rollback(o)
  PROVE  TypeOK'
  <1> USE DEF TypeOK, Places, Saving, Actors
  <1>1. ASSUME NEW content \in Documents, NEW sent \in {NoMatch, page[o].head},
               Submit(o, content, sent)
        PROVE  TypeOK'
    <2>1. sent \in (0..Len(log)) \union {NoMatch}
      OBVIOUS
    <2>2. calm' \subseteq Actors
      BY <1>1 DEF Submit, BeginWrite
    <2> QED
      BY <1>1, <2>1, <2>2, ContentFacts DEF Submit, Go, repositoryVars
  <1>2. CASE Save(o)
    <2>1. PICK edit \in Edits, sent \in {NoMatch, page[o].head} :
            PatchHost(o, edit, sent) \/ Replace(o, edit, sent)
      BY <1>2 DEF Save
    <2>2. CASE PatchHost(o, edit, sent)
      <3>1. tree \union {edit} \in Documents
        BY <2>2 DEF PatchHost, Documents
      <3> QED
        BY <1>1, <2>2, <3>1 DEF PatchHost
    <2>3. CASE Replace(o, edit, sent)
      <3>1. Shown(o) \union {edit} \in Documents
        BY DEF Shown, Documents
      <3> QED
        BY <1>1, <2>3, <3>1 DEF Replace
    <2> QED
      BY <2>1, <2>2, <2>3
  <1>3. ASSUME NEW n \in 1..Len(log), Revert(o, n)
        PROVE  TypeOK'
    <2>1. PICK result \in Reversed(n) :
            /\ GitRevert(result, o)
            /\ cand' = [cand EXCEPT ![o] = result]
      BY <1>3 DEF Revert
    <2>2. result \in Contents \ {Mixed}
      BY <2>1, ReversedFacts
    <2>3. log' \in Seq([doc : Contents \ {Mixed}, author : Actors])
          /\ Len(log') = Len(log) + 1
      BY <2>1, <2>2, AppendFacts DEF GitRevert
    <2>4. calm' \subseteq Actors
      BY <1>3 DEF Revert, BeginWrite
    <2>5. 0..Len(log) \subseteq 0..Len(log')
      BY <2>3, HeadFacts
    <2> QED
      BY <1>3, <2>1, <2>2, <2>3, <2>4, <2>5 DEF Revert, GitRevert, Go
  <1>4. ASSUME NEW n \in 1..Len(log), RevertConflicts(o, n)
        PROVE  TypeOK'
    BY <1>4, ConflictedFacts, ContentFacts, InventoryRequestsAssumption
    DEF RevertConflicts, GitConflict, Mishap
  <1> QED
    BY <1>2, <1>3, <1>4 DEF Rollback

LEMMA TypeCommit ==
  ASSUME TypeOK, NEW a \in Actors, Commit(a)
  PROVE  TypeOK'
  <1> USE DEF TypeOK, Places, Saving
  <1>1. ASSUME NEW from \in Places, End(a, from)
        PROVE  /\ pc' \in [Actors -> Places] /\ cand' \in [Actors -> Contents]
               /\ named' \in [Actors -> (0..Len(log)) \union {NoMatch}]
               /\ calm' \subseteq Actors
    BY <1>1, ContentFacts DEF End, Go, Documents
  <1>2. CASE CommitStale(a)
    BY <1>1, <1>2 DEF CommitStale, repositoryVars
  <1>3. CASE CommitChecked(a)
    BY <1>3 DEF CommitChecked, Go, repositoryVars
  <1>4. CASE CommitUnchanged(a)
    BY <1>1, <1>4 DEF CommitUnchanged, repositoryVars
  <1>5. CASE CommitTruncate(a)
    BY <1>5, ContentFacts DEF CommitTruncate, Truncate, Go
  <1>6. CASE CommitWrite(a)
    BY <1>6 DEF CommitWrite, WriteText, Go
  <1>7. CASE CommitAdd(a)
    BY <1>7 DEF CommitAdd, GitAdd, Go
  <1>8. CASE CommitLog(a)
    <2>1. index \in Contents \ {Mixed}
      BY <1>8 DEF CommitLog, Committable
    <2>2. log' \in Seq([doc : Contents \ {Mixed}, author : Actors])
          /\ Len(log') = Len(log) + 1
      BY <1>8, <2>1, AppendFacts DEF CommitLog, GitCommit
    <2>3. 0..Len(log) \subseteq 0..Len(log')
      BY <2>2, HeadFacts
    <2> QED
      BY <1>8, <2>2, <2>3 DEF CommitLog, Go
  <1>9. CASE CommitRefused(a)
    BY <1>1, <1>9 DEF CommitRefused, repositoryVars
  <1>10. CASE CommitFails(a)
    BY <1>1, <1>10, InventoryRequestsAssumption DEF CommitFails, Mishap, repositoryVars
  <1>11. CASE Answer(a)
    BY <1>1, <1>11 DEF Answer, repositoryVars
  <1> QED
    BY <1>2, <1>3, <1>4, <1>5, <1>6, <1>7, <1>8, <1>9, <1>10, <1>11 DEF Commit

LEMMA TypeStart ==
  ASSUME TypeOK, SeedStart \/ Serve \/ Crash
  PROVE  TypeOK'
  <1> USE DEF TypeOK, Places, Saving, Actors
  <1>1. {} \in Contents
    BY ContentFacts DEF Documents
  <1>2. CASE SeedStart
    BY <1>1, <1>2, TypeBegin DEF SeedStart, Go, repositoryVars
  <1>3. CASE Serve
    BY <1>3 DEF Serve, repositoryVars, requestVars
  <1>4. CASE Crash
    BY <1>1, <1>4, InventoryRequestsAssumption DEF Crash, Mishap, repositoryVars
  <1> QED
    BY <1>2, <1>3, <1>4

LEMMA TypeNext == TypeOK /\ [Next]_vars => TypeOK'
  <1> SUFFICES ASSUME TypeOK, [Next]_vars PROVE TypeOK'
    OBVIOUS
  <1>1. CASE UNCHANGED vars
    BY <1>1 DEF TypeOK, vars, repositoryVars, requestVars
  <1>2. CASE Next
    BY <1>2, TypeRead, TypeWrite, TypeCommit, TypeStart DEF Next
  <1> QED
    BY <1>1, <1>2

\* The repository, the requests and the pages keep their shape, and no page or
\* request names a commit that is not in the history.
THEOREM InventoryTypeCorrect == Spec => []TypeOK
  BY TypeInit, TypeNext, PTL DEF Spec

-----------------------------------------------------------------------------
SettledInv ==
  /\ \A a \in Actors : pc[a] \in Saving => cand[a] # Mixed
  /\ Undisturbed =>
       /\ tree # Mixed /\ index # Mixed
       /\ index # tree => \E a \in Actors : pc[a] \in {"truncated", "written"}
       /\ index # HeadDoc => \E a \in Actors : pc[a] = "added"

LEMMA SettledInit == Init => SettledInv
  BY ContentFacts DEF Init, RepositoryInit, SettledInv, Saving, HeadDoc, DocAt

\* Mishaps are only ever counted up.
LEMMA MishapsGrow ==
  ASSUME TypeOK, [Next]_vars, Undisturbed'
  PROVE  Undisturbed /\ mishaps' = mishaps
  <1> USE DEF Undisturbed
  <1>1. mishaps \in Nat
    BY InventoryRequestsAssumption DEF TypeOK
  <1>2. CASE UNCHANGED vars
    BY <1>2 DEF vars
  <1>3. ASSUME NEW o \in Operators, Browse(o) \/ Launch(o)
        PROVE  mishaps' = mishaps
    BY <1>3 DEF Browse, BrowseDocument, BrowseHead, Launch, LaunchChecked,
       LaunchRecorded, LaunchFrozen
  <1>4. ASSUME NEW o \in Operators, Save(o)
        PROVE  mishaps' = mishaps
    BY <1>4 DEF Save, PatchHost, Replace, Submit
  <1>5. ASSUME NEW o \in Operators, Rollback(o)
        PROVE  mishaps' \in {mishaps, mishaps + 1}
    BY <1>5 DEF Rollback, Revert, RevertConflicts, Mishap
  <1>6. ASSUME NEW a \in Actors, Commit(a)
        PROVE  mishaps' \in {mishaps, mishaps + 1}
    BY <1>6 DEF Commit, CommitStale, CommitChecked, CommitUnchanged, CommitTruncate,
       CommitWrite, CommitAdd, CommitLog, CommitRefused, CommitFails, Answer, Mishap
  <1>7. SeedStart \/ Serve \/ Crash => mishaps' \in {mishaps, mishaps + 1}
    BY DEF SeedStart, Serve, Crash, Mishap
  <1>8. CASE Next
    <2>1. mishaps' \in {mishaps, mishaps + 1}
      BY <1>3, <1>4, <1>5, <1>6, <1>7, <1>8 DEF Next
    <2> QED
      BY <1>1, <2>1
  <1> QED
    BY <1>2, <1>8

\* A step that leaves the repository alone, and whose actor owes nothing before
\* or after.
LEMMA SettledIdle ==
  ASSUME TypeOK, SettledInv, NEW a \in Actors, NEW from \in Places, NEW to \in Places,
         Go(a, from, to), mishaps' = mishaps, UNCHANGED repositoryVars,
         from \notin {"truncated", "written", "added"},
         \A b \in Actors \ {a} : cand'[b] = cand[b],
         to \in Saving => cand'[a] # Mixed
  PROVE  SettledInv'
  <1>1. \A b \in Actors \ {a} : pc'[b] = pc[b]
    BY DEF TypeOK, Go
  <1>2. pc[a] = from /\ pc'[a] = to
    BY DEF TypeOK, Go
  <1>3. HeadDoc' = HeadDoc
    BY DEF repositoryVars, HeadDoc, DocAt
  <1>4. \A b \in Actors : pc'[b] \in Saving => cand'[b] # Mixed
    BY <1>1, <1>2 DEF SettledInv
  <1>5. CASE Undisturbed'
    <2>1. Undisturbed
      BY <1>5 DEF Undisturbed
    <2>2. index' # tree' => \E b \in Actors : pc'[b] \in {"truncated", "written"}
      BY <1>1, <1>2, <2>1 DEF SettledInv, repositoryVars
    <2>3. index' # HeadDoc' => \E b \in Actors : pc'[b] = "added"
      BY <1>1, <1>2, <1>3, <2>1 DEF SettledInv, repositoryVars
    <2> QED
      BY <1>4, <2>1, <2>2, <2>3 DEF SettledInv, repositoryVars
  <1>6. CASE ~Undisturbed'
    BY <1>4, <1>6 DEF SettledInv
  <1> QED
    BY <1>5, <1>6

LEMMA SettledRead ==
  ASSUME TypeOK, SettledInv, NEW o \in Operators, Browse(o) \/ Launch(o)
  PROVE  SettledInv'
  <1> USE DEF Places, Saving, Reading, Actors
  <1>1. CASE BrowseDocument(o)
    BY <1>1, SettledIdle DEF BrowseDocument, TypeOK
  <1>2. CASE BrowseHead(o)
    BY <1>2, SettledIdle DEF BrowseHead, End, TypeOK
  <1>3. CASE LaunchChecked(o)
    BY <1>3, SettledIdle DEF LaunchChecked
  <1>4. CASE LaunchRecorded(o)
    BY <1>4, SettledIdle DEF LaunchRecorded
  <1>5. CASE LaunchFrozen(o)
    BY <1>5, SettledIdle DEF LaunchFrozen, End, TypeOK
  <1> QED
    BY <1>1, <1>2, <1>3, <1>4, <1>5 DEF Browse, Launch

LEMMA SettledSave ==
  ASSUME TypeOK, SettledInv, NEW o \in Operators, Save(o)
  PROVE  SettledInv'
  <1>1. PICK edit \in Edits, sent \in {NoMatch, page[o].head} :
          PatchHost(o, edit, sent) \/ Replace(o, edit, sent)
    BY DEF Save
  <1>2. PICK content \in Documents : Submit(o, content, sent)
    <2>1. CASE PatchHost(o, edit, sent)
      BY <2>1 DEF PatchHost, Documents
    <2>2. CASE Replace(o, edit, sent)
      BY <2>2 DEF Replace, Shown, Documents
    <2> QED
      BY <1>1, <2>1, <2>2
  <1>3. cand'[o] # Mixed
    BY <1>2, ContentFacts DEF Submit, TypeOK, Actors
  <1> QED
    BY <1>2, <1>3, SettledIdle DEF Submit, TypeOK, Places, Saving, Actors

LEMMA SettledRevert ==
  ASSUME TypeOK, SettledInv, NEW o \in Operators, Rollback(o)
  PROVE  SettledInv'
  <1>1. PICK n \in 1..Len(log) : Revert(o, n) \/ RevertConflicts(o, n)
    BY DEF Rollback
  <1>2. CASE Revert(o, n)
    <2>1. PICK result \in Reversed(n) :
            GitRevert(result, o) /\ cand' = [cand EXCEPT ![o] = result]
      BY <1>2 DEF Revert
    <2>2. result \in Contents \ {Mixed}
      BY <2>1, ReversedFacts
    <2>3. HeadDoc' = result
      BY <2>1, <2>2, AppendFacts DEF GitRevert, Actors
    <2>4. \A b \in Actors : pc'[b] \in Saving => cand'[b] # Mixed
      BY <1>2, <2>1, <2>2 DEF Revert, Go, TypeOK, SettledInv, Actors
    <2> QED
      BY <2>1, <2>2, <2>3, <2>4 DEF GitRevert, SettledInv
  <1>3. CASE RevertConflicts(o, n)
    <2>1. ~Undisturbed'
      BY <1>3, InventoryRequestsAssumption DEF RevertConflicts, Mishap, Undisturbed, TypeOK
    <2> QED
      BY <1>3, <2>1 DEF RevertConflicts, SettledInv
  <1> QED
    BY <1>1, <1>2, <1>3

LEMMA SettledCommit ==
  ASSUME TypeOK, SettledInv, NEW a \in Actors, Commit(a)
  PROVE  SettledInv'
  <1> USE DEF Places, Saving
  <1>1. CASE CommitStale(a)
    BY <1>1, SettledIdle DEF CommitStale, End, TypeOK
  <1>2. CASE CommitChecked(a)
    BY <1>2, SettledIdle DEF CommitChecked, Go, SettledInv
  <1>3. CASE CommitUnchanged(a)
    BY <1>3, SettledIdle DEF CommitUnchanged, End, TypeOK
  <1>4. CASE Answer(a)
    BY <1>4, SettledIdle DEF Answer, End, TypeOK
  <1>5. CASE CommitFails(a)
    <2>1. ~Undisturbed'
      BY <1>5, InventoryRequestsAssumption DEF CommitFails, Mishap, Undisturbed, TypeOK
    <2> QED
      BY <1>5, <2>1 DEF CommitFails, End, Go, TypeOK, SettledInv
  <1>6. CASE CommitTruncate(a) \/ CommitWrite(a)
    <2>1. pc' = [pc EXCEPT ![a] = pc'[a]] /\ pc'[a] \in {"truncated", "written"}
      BY <1>6 DEF CommitTruncate, CommitWrite, Go, TypeOK
    <2>2. \A b \in Actors : pc'[b] \in Saving => cand'[b] # Mixed
      BY <1>6 DEF CommitTruncate, CommitWrite, Go, TypeOK, SettledInv
    <2>3. tree' # Mixed
      BY <1>6, ContentFacts
      DEF CommitTruncate, CommitWrite, Truncate, WriteText, Go, SettledInv
    <2>4. index' = index /\ HeadDoc' = HeadDoc /\ Undisturbed' = Undisturbed
      BY <1>6 DEF CommitTruncate, CommitWrite, HeadDoc, DocAt, Undisturbed
    <2>5. \A b \in Actors : pc[b] = "added" => pc'[b] = "added"
      BY <1>6, <2>1 DEF CommitTruncate, CommitWrite, Go, TypeOK
    <2> QED
      BY <2>1, <2>2, <2>3, <2>4, <2>5 DEF SettledInv
  <1>7. CASE CommitAdd(a)
    <2>1. pc'[a] = "added" /\ index' = tree' /\ tree' = tree
      BY <1>7 DEF CommitAdd, GitAdd, Go, TypeOK
    <2>2. \A b \in Actors : pc'[b] \in Saving => cand'[b] # Mixed
      BY <1>7 DEF CommitAdd, Go, TypeOK, SettledInv
    <2>3. Undisturbed' = Undisturbed
      BY <1>7 DEF CommitAdd, Undisturbed
    <2> QED
      BY <2>1, <2>2, <2>3 DEF SettledInv
  <1>8. CASE CommitLog(a)
    <2>1. HeadDoc' = index
      BY <1>8, AppendFacts DEF CommitLog, Committable, GitCommit, TypeOK
    <2>2. \A b \in Actors : pc'[b] \in Saving => cand'[b] # Mixed
      BY <1>8 DEF CommitLog, Go, TypeOK, SettledInv
    <2>3. \A b \in Actors : pc[b] \in {"truncated", "written"} => pc'[b] = pc[b]
      BY <1>8 DEF CommitLog, Go, TypeOK
    <2> QED
      BY <1>8, <2>1, <2>2, <2>3 DEF CommitLog, SettledInv, Undisturbed
  <1>9. CASE CommitRefused(a)
    <2>1. \A b \in Actors \ {a} : pc'[b] = pc[b] /\ cand'[b] = cand[b]
      BY <1>9 DEF CommitRefused, End, Go, TypeOK
    <2>2. pc[a] = "added" /\ pc'[a] = "idle"
      BY <1>9 DEF CommitRefused, End, Go, TypeOK
    <2>3. \A b \in Actors : pc'[b] \in Saving => cand'[b] # Mixed
      BY <2>1, <2>2 DEF SettledInv
    <2>4. HeadDoc' = HeadDoc /\ Undisturbed' = Undisturbed
      BY <1>9 DEF CommitRefused, repositoryVars, HeadDoc, DocAt, Undisturbed
    <2>5. Undisturbed => index = HeadDoc
      BY <1>9 DEF CommitRefused, Committable, SettledInv
    <2> QED
      BY <1>9, <2>1, <2>2, <2>3, <2>4, <2>5 DEF CommitRefused, repositoryVars, SettledInv
  <1> QED
    BY <1>1, <1>2, <1>3, <1>4, <1>5, <1>6, <1>7, <1>8, <1>9 DEF Commit

LEMMA SettledStart ==
  ASSUME TypeOK, SettledInv, SeedStart \/ Serve \/ Crash
  PROVE  SettledInv'
  <1>1. CASE SeedStart
    <2>1. cand'[Seeder] # Mixed
      BY <1>1, ContentFacts DEF SeedStart, TypeOK, Actors, Documents
    <2> QED
      BY <1>1, <2>1, SettledIdle DEF SeedStart, TypeOK, Places, Saving, Actors
  <1>2. CASE Serve
    BY <1>2 DEF Serve, requestVars, repositoryVars, SettledInv, Undisturbed,
       HeadDoc, DocAt
  <1>3. CASE Crash
    BY <1>3, InventoryRequestsAssumption
    DEF Crash, Mishap, Undisturbed, TypeOK, SettledInv, Saving
  <1> QED
    BY <1>1, <1>2, <1>3

LEMMA SettledNext == TypeOK /\ SettledInv /\ [Next]_vars => SettledInv'
  <1> SUFFICES ASSUME TypeOK, SettledInv, [Next]_vars PROVE SettledInv'
    OBVIOUS
  <1>1. CASE UNCHANGED vars
    BY <1>1 DEF vars, repositoryVars, requestVars, SettledInv, Undisturbed,
       HeadDoc, DocAt
  <1>2. CASE Next
    BY <1>2, SettledRead, SettledSave, SettledRevert, SettledCommit, SettledStart
    DEF Next
  <1> QED
    BY <1>1, <1>2

LEMMA SettledIsCommitted ==
  ASSUME SettledInv, Undisturbed, Uncommitted = {}
  PROVE  tree = HeadDoc /\ index = HeadDoc
  BY DEF SettledInv, Uncommitted

\* Whatever the interleaving, once no save is between its write and its commit
\* the file that runs read is the one HEAD holds.
THEOREM TreeIsCommitted == Spec => []SettledMeansCommitted
  <1>1. SettledInv => SettledMeansCommitted
    BY SettledIsCommitted DEF SettledMeansCommitted
  <1> QED
    BY <1>1, TypeInit, TypeNext, SettledInit, SettledNext, PTL DEF Spec
=============================================================================
