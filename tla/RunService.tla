----------------------------- MODULE RunService -----------------------------
(***************************************************************************)
(* RunService of app/runs/service.py over the RunStore, with the startup   *)
(* recovery of app/core/bootstrap.py.                                      *)
(*                                                                         *)
(* A run identifier stands for the launch request that drew it and, once   *)
(* the launch started it, for the run's own daemon thread: pc[r] is the    *)
(* place of that one line of control.  Requests are served by a thread     *)
(* pool, so launches, cancellations and the run thread interleave at every *)
(* file operation.  A crash may come between any two steps: the process    *)
(* loses its memory and its threads, and keeps its disk.                   *)
(***************************************************************************)
EXTENDS Naturals, RunStore

CONSTANTS
  MaxCrashes,   \* bound: how often the process dies
  MaxFaults     \* bound: how many file or thread operations fail

ASSUME RunServiceAssumption == MaxCrashes \in Nat /\ MaxFaults \in Nat

VARIABLES
  svc,         \* the process: down, in the tasks of startup that come before
               \* the recovery, reconciling, or serving
  pc,          \* where each run's line of control is
  mem,         \* the RunRecord the run's thread holds
  cancelled,   \* RunService._cancelled
  cancelling,  \* runs whose cancel request is past its checks
  todo,        \* reconcile: records listed as unfinished, not yet rewritten
  recovered,   \* reconcile: whether it rewrote any
  asked,       \* history: runs an operator's cancel was accepted for
  crashes,     \* crashes so far
  faults       \* failed operations so far

memoryVars  == <<svc, pc, mem, cancelled, cancelling, todo, recovered>>
historyVars == <<asked, crashes, faults>>
vars == <<storeVars, memoryVars, historyVars>>

\* Owning: between the lock's creation and its removal.  The other places hold
\* no lock, or hold one nobody is left to release.
Owning == {"locking", "locked", "filled", "created", "saved", "executing",
           "appended", "ended", "verdict", "failing", "unlinking"}
Places == Owning \union
          {"idle", "refused", "errored", "released", "stranded", "done", "killed"}

Init ==
  /\ StoreInit
  /\ svc = "down"
  /\ pc = [r \in Runs |-> "idle"]
  /\ mem = [r \in Runs |-> NewRecord]
  /\ cancelled = {} /\ cancelling = {} /\ asked = {}
  /\ todo = {} /\ recovered = FALSE
  /\ crashes = 0 /\ faults = 0

TypeOK ==
  /\ StoreTypeOK
  /\ svc \in {"down", "starting", "reconciling", "up"}
  /\ pc \in [Runs -> Places]
  /\ mem \in [Runs -> RunRecord]
  /\ cancelled \subseteq Runs
  /\ cancelling \subseteq Runs
  /\ asked \subseteq Runs
  /\ todo \subseteq Runs
  /\ recovered \in BOOLEAN
  /\ crashes \in 0..MaxCrashes
  /\ faults \in 0..MaxFaults

Go(r, from, to) == pc[r] = from /\ pc' = [pc EXCEPT ![r] = to]

\* An OSError, or no thread to be had.
Fault == faults < MaxFaults /\ faults' = faults + 1

requestVars  == <<cancelled, cancelling, asked>>
recoveryVars == <<svc, todo, recovered, crashes>>
\* What no step of a run's own line of control touches, bar its last.
elsewhere    == <<requestVars, recoveryVars>>

-----------------------------------------------------------------------------
(* launch: the checks changed nothing, and the request draws its lock.     *)

LaunchAcquire(r) ==
  /\ svc = "up"
  /\ Go(r, "idle", "locking")
  /\ AcquireCreate
  /\ UNCHANGED <<disk, filled, trace, mem, faults, elsewhere>>

\* RunLocked, answered with 409 run_in_progress.
LaunchRefused(r) ==
  /\ svc = "up"
  /\ lock # NoLock
  /\ Go(r, "idle", "refused")
  /\ UNCHANGED <<storeVars, mem, faults, elsewhere>>

LaunchLockWritten(r) ==
  /\ Go(r, "locking", "locked")
  /\ AcquireWrite(r)
  /\ UNCHANGED <<disk, filled, trace, mem, faults, elsewhere>>

\* Only RunLocked is caught around acquire: the empty file stays.
LaunchLockUnwritten(r) ==
  /\ Go(r, "locking", "errored")
  /\ Fault
  /\ UNCHANGED <<storeVars, mem, elsewhere>>

\* Mutant: the record is made to appear first and the inventory later.
CreateFillLate(r) ==
  /\ Go(r, "locked", "filled")
  /\ UNCHANGED <<storeVars, mem, faults, elsewhere>>

CreateFill(r) ==
  /\ Go(r, "locked", "filled")
  /\ Fill(r)
  /\ UNCHANGED <<lock, disk, trace, mem, faults, elsewhere>>

CreateSave(r) ==
  /\ Go(r, "filled", "created")
  /\ Save(r, mem[r])
  /\ UNCHANGED <<lock, filled, trace, mem, faults, elsewhere>>

\* The one failure of launch that gives the lock back.
CreateFails(r) ==
  /\ Go(r, "locked", "failing") \/ Go(r, "filled", "failing")
  /\ Fault
  /\ UNCHANGED <<storeVars, mem, elsewhere>>

LaunchSaveRunning(r) ==
  /\ Go(r, "created", "saved")
  /\ mem' = [mem EXCEPT ![r].state = "running"]
  /\ Save(r, mem'[r])
  /\ UNCHANGED <<lock, filled, trace, faults, elsewhere>>

LaunchStartThread(r) ==
  /\ Go(r, "saved", "executing")
  /\ UNCHANGED <<storeVars, mem, faults, elsewhere>>

\* The save of the running record or the start of the thread raises, outside
\* the block that releases.
LaunchFails(r) ==
  /\ Go(r, "created", "errored") \/ Go(r, "saved", "errored")
  /\ Fault
  /\ UNCHANGED <<storeVars, mem, elsewhere>>

-----------------------------------------------------------------------------
(* _execute.  on_event is modelled for the recap, the one event whose      *)
(* effect is kept here: every other event leaves the state and the flag of *)
(* the record it saves as they were.                                       *)

OnRecap(r) ==
  /\ Go(r, "executing", "appended")
  /\ ~mem[r].seen
  /\ mem' = [mem EXCEPT ![r].seen = TRUE]
  /\ AppendRecap(r)
  /\ UNCHANGED <<lock, disk, filled, faults, elsewhere>>

OnRecapSaved(r) ==
  /\ Go(r, "appended", "executing")
  /\ Save(r, mem[r])
  /\ UNCHANGED <<lock, filled, trace, mem, faults, elsewhere>>

\* What ansible-runner reports: it was cancelled, it could not start, it
\* returned zero, or it returned something else.
Outcomes == {"cancelled", "error", "zero", "nonzero"}

\* Mutants: the runner's own status is kept as it is; the recap is not looked
\* at.
FinalStateUnmapped(outcome, seen) == outcome
FinalStateByReturnCode(outcome, seen) ==
  CASE outcome = "cancelled" -> "cancelled"
    [] outcome = "zero" -> "success"
    [] OTHER -> "failed"

FinalState(outcome, seen) ==
  CASE outcome = "cancelled" -> "cancelled"
    [] outcome = "error" -> "failed"
    [] outcome \in {"zero", "nonzero"} /\ ~seen -> "interrupted"
    [] outcome = "zero" /\ seen -> "success"
    [] outcome = "nonzero" /\ seen -> "failed"

\* ansible-runner says cancelled only when should_cancel told it to stop.
\* Mutants: should_cancel answers the opposite; it is not passed on.
OutcomeInverted(r, outcome) == outcome = "cancelled" => r \notin cancelled
OutcomeNeverCancelled(r, outcome) == outcome # "cancelled"
OutcomePossible(r, outcome) == outcome = "cancelled" => r \in cancelled

AdapterReturns(r, outcome) ==
  /\ Go(r, "executing", "ended")
  /\ OutcomePossible(r, outcome)
  /\ mem' = [mem EXCEPT ![r].state = FinalState(outcome, mem[r].seen)]
  /\ UNCHANGED <<storeVars, faults, elsewhere>>

\* The adapter raises, or on_event does: before its append, after its fold of
\* the recap, or on its save.
ExecuteRaises(r) ==
  /\ Go(r, "executing", "ended") \/ Go(r, "appended", "ended")
  /\ \E seen \in {mem[r].seen, TRUE} :
       mem' = [mem EXCEPT ![r] = [state |-> "failed", seen |-> seen]]
  /\ UNCHANGED <<storeVars, faults, elsewhere>>

\* Mutant: finally releases without saving the verdict.
FinishUnsaved(r) ==
  /\ Go(r, "ended", "verdict")
  /\ UNCHANGED <<storeVars, mem, faults, elsewhere>>

FinishSave(r) ==
  /\ Go(r, "ended", "verdict")
  /\ Save(r, mem[r])
  /\ UNCHANGED <<lock, filled, trace, mem, faults, elsewhere>>

\* The save raises inside finally: neither release nor discard runs.
FinishSaveFails(r) ==
  /\ Go(r, "ended", "stranded")
  /\ Fault
  /\ UNCHANGED <<storeVars, mem, elsewhere>>

\* release is called from the finally of _execute and from the except of
\* launch; a record with no verdict tells the second.
AfterRelease(r) == IF Finished(mem[r]) THEN "released" ELSE "errored"

ReleaseCheck(r) ==
  /\ pc[r] \in {"verdict", "failing"}
  /\ pc' = [pc EXCEPT ![r] = IF MayUnlink(r) THEN "unlinking" ELSE AfterRelease(r)]
  /\ UNCHANGED <<storeVars, mem, faults, elsewhere>>

ReleaseUnlink(r) ==
  /\ Go(r, "unlinking", AfterRelease(r))
  /\ Unlink
  /\ UNCHANGED <<disk, filled, trace, mem, faults, elsewhere>>

FinishDiscard(r) ==
  /\ Go(r, "released", "done")
  /\ cancelled' = cancelled \ {r}
  /\ UNCHANGED <<storeVars, mem, faults, cancelling, asked, recoveryVars>>

-----------------------------------------------------------------------------
(* cancel: the record is loaded and checked, then the set is written; the  *)
(* run may end in between.                                                 *)

CancelLoad(r) ==
  /\ svc = "up"
  /\ r \notin cancelling
  /\ Unfinished(disk[r])
  /\ cancelling' = cancelling \union {r}
  /\ UNCHANGED <<storeVars, pc, mem, faults, cancelled, asked, recoveryVars>>

CancelAdd(r) ==
  /\ r \in cancelling
  /\ cancelling' = cancelling \ {r}
  /\ cancelled' = cancelled \union {r}
  /\ asked' = asked \union {r}
  /\ UNCHANGED <<storeVars, pc, mem, faults, recoveryVars>>

-----------------------------------------------------------------------------
(* The process dies, its unit starts another, and startup calls reconcile  *)
(* after its other tasks and before anything is served.                    *)

LoseMemory ==
  /\ pc' = [r \in Runs |-> IF pc[r] = "idle" THEN "idle" ELSE "killed"]
  /\ mem' = [r \in Runs |-> NewRecord]
  /\ cancelled' = {}
  /\ cancelling' = {}
  /\ todo' = {}
  /\ recovered' = FALSE

Crash ==
  /\ svc # "down"
  /\ crashes < MaxCrashes
  /\ crashes' = crashes + 1
  /\ svc' = "down"
  /\ LoseMemory
  /\ UNCHANGED <<storeVars, asked, faults>>

\* Mutant: the container is not restarted after it died.
RestartOnce ==
  /\ svc = "down"
  /\ crashes = 0
  /\ svc' = "starting"
  /\ UNCHANGED <<storeVars, pc, mem, requestVars, todo, recovered, crashes, faults>>

Restart ==
  /\ svc = "down"
  /\ svc' = "starting"
  /\ UNCHANGED <<storeVars, pc, mem, requestVars, todo, recovered, crashes, faults>>

\* The tasks before the recovery passed, or what they raised was caught.
Start ==
  /\ svc = "starting"
  /\ svc' = "reconciling"
  /\ todo' = ToRecover
  /\ UNCHANGED <<storeVars, pc, mem, requestVars, recovered, crashes, faults>>

\* The reading of the addresses raises, or the trust or the host keys do with
\* something else than a missing account or an OSError: nothing catches it and
\* the process ends before it recovered anything.  What makes it raise may
\* last, so no bound is put on how often it does.
StartRaises ==
  /\ svc = "starting"
  /\ svc' = "down"
  /\ UNCHANGED <<storeVars, pc, mem, requestVars, todo, recovered, crashes, faults>>

ReconcileRecord(r) ==
  /\ svc = "reconciling"
  /\ r \in todo
  /\ Save(r, InterruptedRecord(r))
  /\ todo' = todo \ {r}
  /\ recovered' = TRUE
  /\ UNCHANGED <<lock, filled, trace, svc, pc, mem, requestVars, crashes, faults>>

\* Nothing catches what reconcile raises either.
ReconcileFails ==
  /\ svc = "reconciling"
  /\ todo # {}
  /\ Fault
  /\ svc' = "down"
  /\ LoseMemory
  /\ UNCHANGED <<storeVars, asked, crashes>>

ReconcileDone ==
  /\ svc = "reconciling"
  /\ todo = {}
  /\ IF recovered THEN Unlink ELSE UNCHANGED lock
  /\ svc' = "up"
  /\ recovered' = FALSE
  /\ UNCHANGED <<disk, filled, trace, pc, mem, requestVars, todo, crashes, faults>>

-----------------------------------------------------------------------------
Launch(r) ==
  \/ LaunchAcquire(r) \/ LaunchRefused(r) \/ LaunchLockWritten(r)
  \/ LaunchLockUnwritten(r) \/ CreateFill(r) \/ CreateSave(r) \/ CreateFails(r)
  \/ LaunchSaveRunning(r) \/ LaunchStartThread(r) \/ LaunchFails(r)

Execute(r) ==
  \/ OnRecap(r) \/ OnRecapSaved(r)
  \/ \E outcome \in Outcomes : AdapterReturns(r, outcome)
  \/ ExecuteRaises(r)
  \/ FinishSave(r) \/ FinishSaveFails(r) \/ FinishDiscard(r)

Release(r) == ReleaseCheck(r) \/ ReleaseUnlink(r)
Cancel(r)  == CancelLoad(r) \/ CancelAdd(r)

Recover ==
  \/ Restart \/ Start \/ StartRaises \/ ReconcileFails \/ ReconcileDone
  \/ \E r \in Runs : ReconcileRecord(r)

Next ==
  \/ \E r \in Runs : Launch(r) \/ Execute(r) \/ Release(r) \/ Cancel(r)
  \/ Recover
  \/ Crash

Spec == Init /\ [][Next]_vars

\* Threads are scheduled, a cancel request that passed its checks completes,
\* ansible-runner polls should_cancel, the container is always restarted, and
\* its startup ends one way or the other.  Nothing says that a playbook ends by
\* itself, that an operator launches or cancels, that an operation fails, or
\* that a start succeeds.
ThreadStep(r) ==
  \/ LaunchLockWritten(r) \/ CreateFill(r) \/ CreateSave(r)
  \/ LaunchSaveRunning(r) \/ LaunchStartThread(r) \/ OnRecapSaved(r)
  \/ FinishSave(r) \/ Release(r) \/ FinishDiscard(r)

RecoverStep ==
  \/ Restart \/ Start \/ StartRaises \/ ReconcileDone
  \/ \E r \in Runs : ReconcileRecord(r)

Fairness ==
  /\ \A r \in Runs : WF_vars(ThreadStep(r))
  /\ \A r \in Runs : WF_vars(CancelAdd(r))
  /\ \A r \in Runs : WF_vars(AdapterReturns(r, "cancelled"))
  /\ WF_vars(RecoverStep)

FairSpec == Spec /\ Fairness
=============================================================================
