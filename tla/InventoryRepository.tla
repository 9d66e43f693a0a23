------------------------ MODULE InventoryRepository ------------------------
(***************************************************************************)
(* The git repository of app/inventory/repository.py: one file, its place  *)
(* in the index, and a linear history.  Each operator is one file          *)
(* operation or one git command.                                           *)
(*                                                                         *)
(* A document that parses is the set of operator edits it carries: the     *)
(* seed carries none, a save adds one, a revert takes some back.  A commit *)
(* is named by its place in the history; 0 is a HEAD with no commit.       *)
(***************************************************************************)
EXTENDS Naturals, Sequences

CONSTANTS
  Edits,     \* what operators change
  Nothing,   \* there is no file, or nothing in it
  Markers    \* there are git's conflict markers in the file

ASSUME InventoryRepositoryAssumption ==
  Nothing \notin Edits /\ Markers \notin Edits /\ Nothing # Markers

\* read answers "" for a missing and for an empty file; a file with markers in
\* it does not parse.
Blank == {Nothing}
Mixed == {Markers}
Documents == SUBSET Edits
Contents  == Documents \union {Blank, Mixed}

VARIABLES
  tree,    \* inventory.yaml in the working tree
  index,   \* inventory.yaml as git add left it
  log      \* the commits, oldest first: [doc, author]

repositoryVars == <<tree, index, log>>

\* rev-parse HEAD, and what HEAD holds.
\* Mutant: the commit that is about to be made is named.
HeadAhead == Len(log) + 1
HeadCommit == Len(log)
DocAt(n) == IF n = 0 THEN Blank ELSE log[n].doc
HeadDoc == DocAt(Len(log))

RepositoryInit == tree = Blank /\ index = Blank /\ log = <<>>

-----------------------------------------------------------------------------
\* commit compares the HEAD it reads with the one the caller sent, when the
\* caller sent one.  An empty If-Match, which the page sends for a HEAD with
\* no commit, equals no hash and is not None either.
\* Mutant: expected_head is ignored.
HeadIgnored(sent) == TRUE
HeadMatches(sent) == sent # 0 /\ sent = HeadCommit

\* write_text opens the file, which empties it, and then writes: a reader and
\* a crash may see the file between the two.
Truncate == tree' = Blank
WriteText(content) == tree' = content

\* Mutant: the file is not staged.
AddNothing == UNCHANGED index
GitAdd == index' = tree

\* git commit takes the index, whoever filled it; it fails when that is what
\* HEAD holds already, or when a conflict is not resolved.
\* Mutant: the service signs the commit.
Committable == index # HeadDoc /\ index # Mixed
CommitAs(author, service) ==
  log' = Append(log, [doc |-> index, author |-> service])
GitCommit(author, service) ==
  log' = Append(log, [doc |-> index, author |-> author])

-----------------------------------------------------------------------------
\* git revert merges the reverse of commit n into HEAD.  It refuses to start
\* on a working tree or an index that differ from HEAD.
Clean == tree = HeadDoc /\ index = HeadDoc

\* The merge is clean when HEAD still is that commit's version, and may be
\* when all three versions are documents.
\* Mutant: the file as it was before the commit is restored.
RestoredBefore(n) == {DocAt(n - 1)}
Reversed(n) ==
  IF HeadDoc = DocAt(n)
  THEN {DocAt(n - 1)}
  ELSE IF {HeadDoc, DocAt(n), DocAt(n - 1)} \subseteq Documents
       THEN {(HeadDoc \ (DocAt(n) \ DocAt(n - 1))) \union (DocAt(n - 1) \ DocAt(n))}
       ELSE {}

\* Mutant: the revert is left for a later commit.
RevertUncommitted(result, author) ==
  tree' = result /\ index' = result /\ UNCHANGED log
GitRevert(result, author) ==
  /\ tree' = result
  /\ index' = result
  /\ log' = Append(log, [doc |-> result, author |-> author])

\* Changes on neighbouring lines may conflict.  git stops, with the markers in
\* the file, or with the version of the side that did not delete the file.
MayConflict(n) == HeadDoc \notin {DocAt(n), DocAt(n - 1)}
Conflicted(n) ==
  CASE DocAt(n - 1) = Blank -> HeadDoc
    [] HeadDoc = Blank -> DocAt(n - 1)
    [] OTHER -> Mixed
GitConflict(n) == tree' = Conflicted(n) /\ index' = Mixed /\ UNCHANGED log
=============================================================================
