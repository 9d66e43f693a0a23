------------------------- MODULE InventoryRequests -------------------------
(***************************************************************************)
(* The requests of app/api/v1/inventory.py and the InventoryService behind *)
(* them, the two reads RunService.launch makes, and the seed a start       *)
(* writes.  Nothing serialises them: an actor is a request of one          *)
(* operator's browser on a thread of the pool, or the startup task, and    *)
(* actors interleave at every file operation and git command.              *)
(*                                                                         *)
(* A candidate that does not validate is refused before it touches         *)
(* anything, so the candidates here are the ones that do.  The commit      *)
(* message is not kept.                                                    *)
(***************************************************************************)
EXTENDS InventoryRepository, FiniteSets

CONSTANTS
  Operators,    \* each with a browser and one request at a time
  Seeder,       \* ensure_seed, which signs as seapath-webui
  NoMatch,      \* the request has no If-Match
  MaxCommits,   \* bound: commits in the history, and one fewer per mishap
  MaxMishaps    \* bound: crashes, failed commands and conflicts together

ASSUME InventoryRequestsAssumption ==
  /\ Seeder \notin Operators
  /\ NoMatch \notin Nat
  /\ MaxCommits \in Nat /\ MaxMishaps \in Nat
  /\ IsFiniteSet(Operators)

Actors == Operators \union {Seeder}

VARIABLES
  service,   \* down, seeding at startup, or up
  pc,        \* where each actor is
  cand,      \* the content a request read or will write
  named,     \* the commit a request names: its If-Match, or a run's commit
  page,      \* what each operator's browser shows
  mishaps,   \* crashes, failed commands and conflicts so far
  calm       \* history: requests no write overlapped, see BeginWrite

requestVars == <<pc, cand, named, page, calm>>
vars == <<repositoryVars, service, requestVars, mishaps>>

Saving  == {"checking", "comparing", "truncated", "written", "added", "logged"}
Reading == {"browsing", "launching", "freezing"}
Places  == {"idle"} \union Saving \union Reading

NoPage == [doc |-> Blank, head |-> 0, calm |-> FALSE]

Init ==
  /\ RepositoryInit
  /\ service = "down"
  /\ pc = [a \in Actors |-> "idle"]
  /\ cand = [a \in Actors |-> {}]
  /\ named = [a \in Actors |-> NoMatch]
  /\ page = [o \in Operators |-> NoPage]
  /\ mishaps = 0
  /\ calm = {}

TypeOK ==
  /\ tree \in Contents /\ index \in Contents
  /\ log \in Seq([doc : Contents \ {Mixed}, author : Actors])
  /\ service \in {"down", "seeding", "up"}
  /\ pc \in [Actors -> Places]
  /\ cand \in [Actors -> Contents]
  /\ named \in [Actors -> (0..Len(log)) \union {NoMatch}]
  /\ page \in [Operators ->
       [doc : Contents, head : 0..Len(log), calm : BOOLEAN]]
  /\ mishaps \in 0..MaxMishaps
  /\ calm \subseteq Actors

-----------------------------------------------------------------------------
Go(a, from, to) == pc[a] = from /\ pc' = [pc EXCEPT ![a] = to]

Writing == {a \in Actors : pc[a] \in Saving}

\* A request is calm while no other request writes during it: the schedules a
\* lock around the writes would allow.  A page stays calm if its read was, and
\* a request that names the page's commit is calm only if the page is.
BeginRead(a) == calm' = IF Writing = {} THEN calm \union {a} ELSE calm
BeginWrite(a, basis) == calm' = IF Writing = {} /\ basis THEN {a} ELSE {}

\* A request that ends forgets its candidate and the commit it named.
End(a, from) ==
  /\ Go(a, from, "idle")
  /\ cand' = [cand EXCEPT ![a] = {}]
  /\ named' = [named EXCEPT ![a] = NoMatch]
  /\ calm' = calm \ {a}

Room == Len(log) + Cardinality(Writing) + mishaps < MaxCommits
Mishap == mishaps < MaxMishaps /\ mishaps' = mishaps + 1

-----------------------------------------------------------------------------
(* GET /inventory: state reads the document, then HEAD.                    *)

BrowseDocument(o) ==
  /\ service = "up"
  /\ Go(o, "idle", "browsing")
  /\ cand' = [cand EXCEPT ![o] = tree]
  /\ BeginRead(o)
  /\ UNCHANGED <<repositoryVars, service, named, page, mishaps>>

\* An empty document is answered with no commit.
BrowseHead(o) ==
  /\ End(o, "browsing")
  /\ page' = [page EXCEPT ![o] =
                [doc  |-> cand[o],
                 head |-> IF cand[o] = Blank THEN 0 ELSE HeadCommit,
                 calm |-> o \in calm]]
  /\ UNCHANGED <<repositoryVars, service, mishaps>>

-----------------------------------------------------------------------------
(* PATCH /inventory/hosts/{name} edits the inventory the server reads, PUT *)
(* /inventory sends the one the browser holds.  If-Match is optional.      *)

Submit(o, content, sent) ==
  /\ service = "up"
  /\ Room
  /\ Go(o, "idle", "checking")
  /\ cand' = [cand EXCEPT ![o] = content]
  /\ named' = [named EXCEPT ![o] = sent]
  /\ BeginWrite(o, sent = NoMatch \/ page[o].calm)
  /\ UNCHANGED <<repositoryVars, service, page, mishaps>>

\* An inventory that is missing or does not parse is answered with 409.
PatchHost(o, edit, sent) ==
  /\ tree \in Documents
  /\ Submit(o, tree \union {edit}, sent)

\* A browser that was shown no inventory describes one from scratch.
Shown(o) == IF page[o].doc \in Documents THEN page[o].doc ELSE {}
Replace(o, edit, sent) == Submit(o, Shown(o) \union {edit}, sent)

-----------------------------------------------------------------------------
(* InventoryRepository.commit, for a save and for the seed.                *)

\* StaleWrite, answered with 409 stale_write.
CommitStale(a) ==
  /\ End(a, "checking")
  /\ named[a] # NoMatch /\ ~HeadMatches(named[a])
  /\ UNCHANGED <<repositoryVars, service, page, mishaps>>

CommitChecked(a) ==
  /\ Go(a, "checking", "comparing")
  /\ named[a] = NoMatch \/ HeadMatches(named[a])
  /\ UNCHANGED <<repositoryVars, service, cand, named, page, calm, mishaps>>

\* The working tree has that content: answered with no commit.
CommitUnchanged(a) ==
  /\ End(a, "comparing")
  /\ tree = cand[a]
  /\ UNCHANGED <<repositoryVars, service, page, mishaps>>

CommitTruncate(a) ==
  /\ Go(a, "comparing", "truncated")
  /\ tree # cand[a]
  /\ Truncate
  /\ UNCHANGED <<index, log, service, cand, named, page, calm, mishaps>>

CommitWrite(a) ==
  /\ Go(a, "truncated", "written")
  /\ WriteText(cand[a])
  /\ UNCHANGED <<index, log, service, cand, named, page, calm, mishaps>>

CommitAdd(a) ==
  /\ Go(a, "written", "added")
  /\ GitAdd
  /\ UNCHANGED <<tree, log, service, cand, named, page, calm, mishaps>>

CommitLog(a) ==
  /\ Go(a, "added", "logged")
  /\ Committable
  /\ GitCommit(a, Seeder)
  /\ UNCHANGED <<tree, index, service, cand, named, page, calm, mishaps>>

\* RepositoryError, which _save does not catch: 500.
CommitRefused(a) ==
  /\ End(a, "added")
  /\ ~Committable
  /\ UNCHANGED <<repositoryVars, service, page, mishaps>>

\* The write raises, or git does, with the file emptied or written.
CommitFails(a) ==
  /\ \E from \in {"truncated", "written", "added"} : End(a, from)
  /\ Mishap
  /\ UNCHANGED <<repositoryVars, service, page>>

\* The answer is the newest commit, read after the fact.
Answer(a) ==
  /\ End(a, "logged")
  /\ UNCHANGED <<repositoryVars, service, page, mishaps>>

-----------------------------------------------------------------------------
(* POST /inventory/revert/{commit}: one git command, no If-Match and no    *)
(* validation.                                                             *)

Revert(o, n) ==
  /\ service = "up"
  /\ Room
  /\ Clean
  /\ Go(o, "idle", "logged")
  /\ \E result \in Reversed(n) :
       /\ result # HeadDoc
       /\ GitRevert(result, o)
       /\ cand' = [cand EXCEPT ![o] = result]
  /\ named' = [named EXCEPT ![o] = NoMatch]
  /\ BeginWrite(o, TRUE)
  /\ UNCHANGED <<service, page, mishaps>>

\* RepositoryError, answered with 409 revert_failed; the tree keeps what git
\* left there.
RevertConflicts(o, n) ==
  /\ service = "up"
  /\ pc[o] = "idle"
  /\ Clean
  /\ MayConflict(n)
  /\ GitConflict(n)
  /\ Mishap
  /\ calm' = {}
  /\ UNCHANGED <<service, pc, cand, named, page>>

-----------------------------------------------------------------------------
(* RunService.launch reads the inventory three times: for its              *)
(* preconditions, for the commit of its record, and as raw text to freeze. *)

LaunchChecked(o) ==
  /\ service = "up"
  /\ tree \in Documents
  /\ Go(o, "idle", "launching")
  /\ BeginRead(o)
  /\ UNCHANGED <<repositoryVars, service, cand, named, page, mishaps>>

\* The second state answers with no commit if it finds the file empty.
LaunchRecorded(o) ==
  /\ Go(o, "launching", "freezing")
  /\ \/ named' = [named EXCEPT ![o] = HeadCommit]
     \/ tree = Blank /\ named' = [named EXCEPT ![o] = 0]
  /\ UNCHANGED <<repositoryVars, service, cand, page, calm, mishaps>>

\* What the run executes is the tree of this moment; RunStore keeps it.
LaunchFrozen(o) ==
  /\ End(o, "freezing")
  /\ UNCHANGED <<repositoryVars, service, page, mishaps>>

-----------------------------------------------------------------------------
Crash ==
  /\ service # "down"
  /\ Mishap
  /\ service' = "down"
  /\ pc' = [a \in Actors |-> "idle"]
  /\ cand' = [a \in Actors |-> {}]
  /\ named' = [a \in Actors |-> NoMatch]
  /\ calm' = {}
  /\ UNCHANGED <<repositoryVars, page>>

\* ensure_seed writes when the file reads as empty and the machine could
\* describe itself.
SeedStart ==
  /\ service = "down"
  /\ tree = Blank
  /\ Room
  /\ Go(Seeder, "idle", "checking")
  /\ cand' = [cand EXCEPT ![Seeder] = {}]
  /\ named' = [named EXCEPT ![Seeder] = NoMatch]
  /\ service' = "seeding"
  /\ BeginWrite(Seeder, TRUE)
  /\ UNCHANGED <<repositoryVars, page, mishaps>>

\* Whatever ensure_seed raises is logged and dropped.
Serve ==
  /\ service \in {"down", "seeding"}
  /\ pc[Seeder] = "idle"
  /\ service' = "up"
  /\ UNCHANGED <<repositoryVars, requestVars, mishaps>>

-----------------------------------------------------------------------------
Commit(a) ==
  \/ CommitStale(a) \/ CommitChecked(a) \/ CommitUnchanged(a)
  \/ CommitTruncate(a) \/ CommitWrite(a) \/ CommitAdd(a) \/ CommitLog(a)
  \/ CommitRefused(a) \/ CommitFails(a) \/ Answer(a)

Browse(o) == BrowseDocument(o) \/ BrowseHead(o)

Save(o) ==
  \E edit \in Edits, sent \in {NoMatch, page[o].head} :
    PatchHost(o, edit, sent) \/ Replace(o, edit, sent)

Rollback(o) ==
  \E n \in 1..Len(log) : Revert(o, n) \/ RevertConflicts(o, n)

Launch(o) == LaunchChecked(o) \/ LaunchRecorded(o) \/ LaunchFrozen(o)

Next ==
  \/ \E o \in Operators : Browse(o) \/ Save(o) \/ Rollback(o) \/ Launch(o)
  \/ \E a \in Actors : Commit(a)
  \/ SeedStart \/ Serve \/ Crash

Spec == Init /\ [][Next]_vars
=============================================================================
