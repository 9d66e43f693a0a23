------------------------------ MODULE RunStore ------------------------------
(***************************************************************************)
(* What app/runs/store.py keeps on disk, and the file operations it        *)
(* offers.  Each operator is one file operation that is atomic for the     *)
(* other threads and for a crash; RunService strings them together.        *)
(*                                                                         *)
(* A run identifier is a member of Runs.  Identifiers are timestamps to    *)
(* the microsecond, so two launches never share one here.                  *)
(***************************************************************************)
EXTENDS FiniteSets

CONSTANTS
  Runs,       \* run identifiers, one per launch request
  NoLock,     \* there is no lock file
  EmptyLock   \* the lock file was created and nothing is written in it yet

ASSUME RunStoreAssumption ==
  /\ NoLock \notin Runs
  /\ EmptyLock \notin Runs
  /\ NoLock # EmptyLock

VARIABLES
  lock,     \* .lock: absent, empty, or the identifier written in it
  disk,     \* run.json of each run, or NoRecord
  filled,   \* runs whose directory holds inventory.yaml, events and log
  trace     \* runs whose events.jsonl holds Ansible's recap

storeVars == <<lock, disk, filled, trace>>

-----------------------------------------------------------------------------
\* The RunState enumeration, and the two classes the code tells apart.
Ongoing  == {"pending", "running"}
Verdicts == {"success", "failed", "cancelled", "interrupted"}

\* RunRecord: its state, and progress.final_status_seen.  A directory with no
\* readable run.json is NoRecord: load answers None for it and list skips it.
NoRecord   == [state |-> "none", seen |-> FALSE]
NewRecord  == [state |-> "pending", seen |-> FALSE]
RunRecord  == [state : Ongoing \union Verdicts, seen : BOOLEAN]
DiskRecord == RunRecord \union {NoRecord}

Unfinished(record) == record.state \in Ongoing
Finished(record)   == record.state \in Verdicts

StoreTypeOK ==
  /\ lock \in Runs \union {NoLock, EmptyLock}
  /\ disk \in [Runs -> DiskRecord]
  /\ filled \subseteq Runs
  /\ trace \subseteq Runs

StoreInit ==
  /\ lock = NoLock
  /\ disk = [r \in Runs |-> NoRecord]
  /\ filled = {}
  /\ trace = {}

-----------------------------------------------------------------------------
\* create, before its save: the directory, the frozen inventory, the streams.
Fill(r) == filled' = filled \union {r}

\* save: a temporary file and os.replace, so readers see the old record or the
\* new one, and a failure leaves the old one.
Save(r, record) == disk' = [disk EXCEPT ![r] = record]

\* append_event with the summary of the recap, flushed and fsynced.
AppendRecap(r) == trace' = trace \union {r}

\* acquire is two operations: the exclusive creation of an empty file, then
\* the write of the identifier.  Between the two the holder reads as None.
\* Mutant: the file is opened without O_EXCL.
AcquireWithoutExcl == lock' = EmptyLock
AcquireCreate == lock = NoLock /\ lock' = EmptyLock
AcquireWrite(r) == lock' = r

\* release reads the holder and then unlinks: its own lock, or one that names
\* nobody.
LockHolder == IF lock \in Runs THEN {lock} ELSE {}
\* Mutant: the comparison with the holder is inverted.
MayUnlinkOthers(r) == r \notin LockHolder
MayUnlink(r) == LockHolder \subseteq {r}
Unlink == lock' = NoLock

\* reconcile rewrites what list still shows as pending or running.
\* Mutants: the state is not looked at; pending is forgotten.
EveryRecord == {r \in Runs : disk[r] # NoRecord}
OnlyRunning == {r \in Runs : disk[r].state = "running"}
ToRecover == {r \in Runs : Unfinished(disk[r])}
InterruptedRecord(r) == [disk[r] EXCEPT !.state = "interrupted"]
=============================================================================
