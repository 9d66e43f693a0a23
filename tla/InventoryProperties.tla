------------------------ MODULE InventoryProperties ------------------------
(***************************************************************************)
(* What the inventory repository promises, and what its documentation says *)
(* of it.                                                                  *)
(***************************************************************************)
EXTENDS InventoryRequests

\* No process died, no write or git command failed, no revert conflicted.
Undisturbed == mishaps = 0

Uncommitted == {a \in Actors : pc[a] \in {"truncated", "written", "added"}}

\* However saves, reverts and the seed interleave, once none of them is
\* between its write and its commit the file the runs read is the one HEAD
\* holds: a save that overwrote another is at least on record.
SettledMeansCommitted ==
  Undisturbed /\ Uncommitted = {} => tree = HeadDoc /\ index = HeadDoc

\* A save that names the commit it was built on takes back nothing that was
\* committed, when no other write overlaps it or the read it was built on.
NoUnseenOverwrite ==
  [][\A o \in Operators :
       /\ pc[o] = "added" /\ pc'[o] = "logged"
       /\ named[o] # NoMatch
       /\ o \in calm
       /\ Undisturbed
       => HeadDoc \cap Edits \subseteq HeadDoc']_vars

\* The commit an operator is told about has that operator's name on it and
\* holds exactly what was sent, after a crash or a failed save too.
AnswerIsOwnCommit ==
  \A a \in Actors :
    pc[a] = "logged" /\ a \in calm
      => log[HeadCommit].author = a /\ log[HeadCommit].doc = cand[a]

\* The inventory a run freezes is the one at the commit its record names, the
\* pair that makes the run reproducible, when no write overlaps the launch.
FrozenIsRecorded ==
  \A o \in Operators :
    pc[o] = "freezing" /\ o \in calm /\ Undisturbed
      => named[o] # 0 /\ tree = DocAt(named[o])

\* Requests of several file operations and git commands, through the steps of
\* other requests, their failures and crashes, implement a history of versions
\* that each request extends at one instant: by at most one version, signed by
\* whoever asked, which keeps what the one before it held if it names it.
Asking(o) == pc[o] \in Saving \ {"logged"}
History == INSTANCE InventoryHistory
             WITH history <- log,
                  shown <- [o \in Operators |-> page[o].head],
                  asking <- [o \in Operators |-> IF Asking(o) THEN {named[o]} ELSE {}],
                  alone <- calm, settled <- Undisturbed
ImplementsHistory == History!Spec

-----------------------------------------------------------------------------
\* app/inventory/repository.py says that a caller which read the inventory at
\* one commit and writes back at another is told, rather than allowed to
\* overwrite a change it never saw.
UnseenNeverOverwritten ==
  [][\A o \in Operators :
       /\ pc[o] = "added" /\ pc'[o] = "logged"
       /\ named[o] # NoMatch /\ index = cand[o]
       => HeadDoc \cap Edits \subseteq HeadDoc']_vars

\* app/inventory/service.py says of the seed that it is only ever written when
\* the repository has none.
SeedOnlyWhenNone ==
  \A n \in 2..Len(log) : log[n].author = Seeder => log[n - 1].doc = Blank
=============================================================================
