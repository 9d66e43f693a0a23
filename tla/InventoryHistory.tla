-------------------------- MODULE InventoryHistory --------------------------
(***************************************************************************)
(* What the service promises of the inventory it keeps in git: a history   *)
(* of versions that only grows, at most one version per request, each made *)
(* at one instant between the request and its answer, of the newest        *)
(* version there is at that instant.                                       *)
(*                                                                         *)
(* Two conditions bound the promises: a request is promised less when      *)
(* another write overlaps it, and less when crashes or failures may have   *)
(* left a file that is not the newest version.                             *)
(***************************************************************************)
EXTENDS Naturals, Sequences

CONSTANTS
  Edits,      \* what operators change
  Nothing,    \* there is no file, or nothing in it
  Operators,
  Seeder,     \* the service itself, when it starts
  NoMatch     \* the request has no If-Match

VARIABLES
  history,  \* the versions, oldest first: [doc, author]
  shown,    \* the version each operator was shown, 0 for none
  asking,   \* {the If-Match of the save an operator waits for}, or {}
  alone,    \* whose request no other write has overlapped
  settled   \* nothing has failed

vars == <<history, shown, asking, alone, settled>>

\* An inventory is the set of edits it carries.
Missing == {Nothing}
Versions == (SUBSET Edits) \union {Missing}
Version(n) == IF n = 0 THEN Missing ELSE history[n].doc
Newest == Version(Len(history))

Init ==
  /\ history = <<>>
  /\ shown = [o \in Operators |-> 0]
  /\ asking = [o \in Operators |-> {}]

\* Every version is signed, and differs from the one before it.
Add(doc, author) ==
  /\ doc # Newest
  /\ history' = Append(history, [doc |-> doc, author |-> author])

-----------------------------------------------------------------------------
\* An inventory is shown with the name of its version, and none with no name.
Read(o) ==
  /\ \E n \in {0, Len(history)} :
       /\ shown' = [shown EXCEPT ![o] = n]
       /\ o \in alone /\ settled => (n = 0 <=> Newest = Missing)
  /\ UNCHANGED <<history, asking>>

\* A save may name the version its operator was shown.
Ask(o) ==
  /\ asking[o] = {}
  /\ \E sent \in {NoMatch, shown[o]} : asking' = [asking EXCEPT ![o] = {sent}]
  /\ UNCHANGED <<history, shown>>

\* A save makes one version, with an edit of its operator's.  If it names a
\* version it is made only while that is the newest, and adds only the edit.
Save(o) ==
  /\ asking[o] # {} /\ asking' = [asking EXCEPT ![o] = {}]
  /\ \E doc \in Versions :
       /\ Add(doc, o)
       /\ o \in alone =>
            \E edit \in Edits :
              /\ doc # Missing /\ edit \in doc
              /\ asking[o] # {NoMatch} =>
                   /\ asking[o] = {Len(history)}
                   /\ settled => doc = Newest \union {edit}
  /\ UNCHANGED shown

\* A request that is refused, fails or has nothing to change makes no version.
GiveUp(o) ==
  /\ asking' = [asking EXCEPT ![o] = {}]
  /\ UNCHANGED <<history, shown>>

Die ==
  /\ asking' = [o \in Operators |-> {}]
  /\ UNCHANGED <<history, shown>>

\* A revert takes back what version n changed and keeps what others did before
\* and after it, whatever overlaps it or has failed.
Changed(n) == (Version(n) \ Version(n - 1)) \union (Version(n - 1) \ Version(n))
Revert(o, n) ==
  /\ \E doc \in Versions :
       /\ Add(doc, o)
       /\ \A e \in Edits \union {Nothing} :
            e \in doc <=> IF e \in Changed(n) THEN e \in Version(n - 1) ELSE e \in Newest
  /\ UNCHANGED <<shown, asking>>

\* The service describes a machine that has no inventory.
Seed ==
  /\ \E doc \in Versions :
       /\ Add(doc, Seeder)
       /\ Seeder \in alone => doc = {} /\ (settled => Newest = Missing)
  /\ UNCHANGED <<shown, asking>>

-----------------------------------------------------------------------------
Next ==
  \/ \E o \in Operators :
       \/ Read(o) \/ Ask(o) \/ Save(o) \/ GiveUp(o)
       \/ \E n \in 1..Len(history) : Revert(o, n)
  \/ Seed \/ Die
  \/ UNCHANGED <<history, shown, asking>>

Spec == Init /\ [][Next]_vars
=============================================================================
