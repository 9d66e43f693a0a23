-------------------------- MODULE RunServiceProofs --------------------------
(***************************************************************************)
(* RunService, proved for any set of runs and any bounds.                  *)
(*                                                                         *)
(* The argument rests on who may hold the lock.  OwnerInv ties the lock to *)
(* the place of the one run that owns it, RecordInv ties each record to    *)
(* the place of its run, and RecoveryInv says what startup has still to    *)
(* close.  None of the three is inductive alone: a release is harmless     *)
(* because the record was closed first, and a record is closed by its own  *)
(* run because nobody else owns the lock.                                  *)
(***************************************************************************)
EXTENDS RunServiceProperties, TLAPS

OwnerInv ==
  /\ \A r \in Runs : pc[r] \in Owning \ {"locking"} => lock = r
  /\ \A r \in Runs : pc[r] = "locking" => lock = EmptyLock
  /\ \A r, s \in Runs : pc[r] \in Owning /\ pc[s] \in Owning => r = s

Unborn == {"idle", "refused", "locking", "locked", "filled", "failing"}
Underway == {"saved", "executing", "appended", "ended"}

RecordAt(r) ==
  /\ Unfinished(disk[r]) => lock = r
  /\ pc[r] \in Unborn => disk[r] = NoRecord /\ mem[r].state = "pending"
  /\ pc[r] = "created" => disk[r].state = "pending"
  /\ pc[r] \in Underway => disk[r].state = "running"
  /\ pc[r] = "verdict" => Finished(disk[r])
  /\ pc[r] = "unlinking" => ~Unfinished(disk[r])
  /\ pc[r] \in {"saved", "executing", "appended"} => mem[r].state = "running"
  /\ pc[r] = "ended" => Finished(mem[r])

RecordInv == \A r \in Runs : RecordAt(r)

RecoveryInv ==
  /\ svc # "up" => \A r \in Runs : pc[r] \in {"idle", "killed"}
  /\ svc # "reconciling" => todo = {}
  /\ \A r \in todo : Unfinished(disk[r])
  /\ svc = "reconciling" => \A r \in Runs : Unfinished(disk[r]) => r \in todo
  /\ svc = "up" => \A r \in Runs : Unfinished(disk[r]) => pc[r] # "killed"

IInv == TypeOK /\ OwnerInv /\ RecordInv /\ RecoveryInv

-----------------------------------------------------------------------------
LEMMA Records ==
  /\ NewRecord \in RunRecord
  /\ RunRecord \subseteq DiskRecord
  /\ NoRecord \in DiskRecord
  /\ ~Unfinished(NoRecord) /\ ~Finished(NoRecord)
  /\ Unfinished(NewRecord)
  BY DEF NewRecord, RunRecord, DiskRecord, NoRecord, Unfinished, Finished,
         Ongoing, Verdicts

LEMMA FinalStateIsVerdict ==
  ASSUME NEW outcome \in Outcomes, NEW seen \in BOOLEAN
  PROVE  FinalState(outcome, seen) \in Verdicts
  BY DEF FinalState, Outcomes, Verdicts

LEMMA TypeInit == Init => TypeOK
  <1> SUFFICES ASSUME Init PROVE TypeOK
    OBVIOUS
  <1>1. StoreTypeOK
    BY Records DEF Init, StoreInit, StoreTypeOK
  <1>2. pc \in [Runs -> Places] /\ mem \in [Runs -> RunRecord]
    BY Records DEF Init, Places
  <1>3. crashes \in 0..MaxCrashes /\ faults \in 0..MaxFaults
    BY RunServiceAssumption DEF Init
  <1> QED
    BY <1>1, <1>2, <1>3 DEF Init, TypeOK

LEMMA TypeLaunch ==
  ASSUME TypeOK, NEW r \in Runs, Launch(r)
  PROVE  TypeOK'
  <1> USE DEF TypeOK, StoreTypeOK, Go, elsewhere, requestVars, recoveryVars
  <1>1. CASE LaunchAcquire(r)
    BY <1>1 DEF LaunchAcquire, AcquireCreate, Places, Owning
  <1>2. CASE LaunchRefused(r)
    BY <1>2 DEF LaunchRefused, storeVars, Places
  <1>3. CASE LaunchLockWritten(r)
    BY <1>3 DEF LaunchLockWritten, AcquireWrite, Places, Owning
  <1>4. CASE LaunchLockUnwritten(r)
    BY <1>4, RunServiceAssumption DEF LaunchLockUnwritten, storeVars, Fault, Places
  <1>5. CASE CreateFill(r)
    BY <1>5 DEF CreateFill, Fill, Places, Owning
  <1>6. CASE CreateSave(r)
    BY <1>6, Records DEF CreateSave, Save, Places, Owning
  <1>7. CASE CreateFails(r)
    BY <1>7, RunServiceAssumption DEF CreateFails, storeVars, Fault, Places, Owning
  <1>8. CASE LaunchSaveRunning(r)
    <2>1. [mem[r] EXCEPT !.state = "running"] \in RunRecord
      BY DEF RunRecord, Ongoing
    <2>2. QED
      BY <1>8, <2>1, Records DEF LaunchSaveRunning, Save, Places, Owning
  <1>9. CASE LaunchStartThread(r)
    BY <1>9 DEF LaunchStartThread, storeVars, Places, Owning
  <1>10. CASE LaunchFails(r)
    BY <1>10, RunServiceAssumption DEF LaunchFails, storeVars, Fault, Places
  <1> QED
    BY <1>1, <1>2, <1>3, <1>4, <1>5, <1>6, <1>7, <1>8, <1>9, <1>10 DEF Launch

LEMMA TypeExecute ==
  ASSUME TypeOK, NEW r \in Runs, Execute(r)
  PROVE  TypeOK'
  <1> USE DEF TypeOK, StoreTypeOK, Go, elsewhere, requestVars, recoveryVars
  <1>1. CASE OnRecap(r)
    <2>1. [mem[r] EXCEPT !.seen = TRUE] \in RunRecord
      BY DEF RunRecord
    <2>2. QED
      BY <1>1, <2>1 DEF OnRecap, AppendRecap, Places, Owning
  <1>2. CASE OnRecapSaved(r)
    BY <1>2, Records DEF OnRecapSaved, Save, Places, Owning
  <1>3. ASSUME NEW outcome \in Outcomes, AdapterReturns(r, outcome)
        PROVE  TypeOK'
    <2>1. mem[r] \in RunRecord /\ mem[r].seen \in BOOLEAN
      BY DEF RunRecord
    <2>2. [mem[r] EXCEPT !.state = FinalState(outcome, mem[r].seen)] \in RunRecord
      BY <2>1, FinalStateIsVerdict DEF RunRecord
    <2>3. QED
      BY <1>3, <2>2 DEF AdapterReturns, storeVars, Places, Owning
  <1>4. CASE ExecuteRaises(r)
    <2>1. PICK seen \in {mem[r].seen, TRUE} :
            mem' = [mem EXCEPT ![r] = [state |-> "failed", seen |-> seen]]
      BY <1>4 DEF ExecuteRaises
    <2>2. [state |-> "failed", seen |-> seen] \in RunRecord
      BY DEF RunRecord, Verdicts
    <2>3. QED
      BY <1>4, <2>1, <2>2 DEF ExecuteRaises, storeVars, Places, Owning
  <1>5. CASE FinishSave(r)
    BY <1>5, Records DEF FinishSave, Save, Places, Owning
  <1>6. CASE FinishSaveFails(r)
    BY <1>6, RunServiceAssumption DEF FinishSaveFails, storeVars, Fault, Places
  <1>7. CASE FinishDiscard(r)
    BY <1>7 DEF FinishDiscard, storeVars, Places
  <1> QED
    BY <1>1, <1>2, <1>3, <1>4, <1>5, <1>6, <1>7 DEF Execute

LEMMA TypeRelease ==
  ASSUME TypeOK, NEW r \in Runs, Release(r)
  PROVE  TypeOK'
  <1> USE DEF TypeOK, StoreTypeOK, Go, elsewhere, requestVars, recoveryVars
  <1>1. AfterRelease(r) \in Places /\ "unlinking" \in Places
    BY DEF AfterRelease, Places, Owning
  <1>2. CASE ReleaseCheck(r)
    BY <1>1, <1>2 DEF ReleaseCheck, storeVars
  <1>3. CASE ReleaseUnlink(r)
    BY <1>1, <1>3 DEF ReleaseUnlink, Unlink
  <1> QED
    BY <1>2, <1>3 DEF Release

LEMMA TypeCancel ==
  ASSUME TypeOK, NEW r \in Runs, Cancel(r)
  PROVE  TypeOK'
  BY DEF TypeOK, StoreTypeOK, Cancel, CancelLoad, CancelAdd, storeVars, recoveryVars

LEMMA TypeLoseMemory ==
  ASSUME TypeOK, LoseMemory
  PROVE  /\ pc' \in [Runs -> Places]
         /\ mem' \in [Runs -> RunRecord]
         /\ cancelled' \subseteq Runs /\ cancelling' \subseteq Runs
         /\ todo' \subseteq Runs /\ recovered' \in BOOLEAN
  BY Records DEF LoseMemory, TypeOK, Places

LEMMA TypeRecover ==
  ASSUME TypeOK, Recover
  PROVE  TypeOK'
  <1> USE DEF TypeOK, StoreTypeOK
  <1>1. CASE Restart \/ Start \/ StartRaises
    BY <1>1 DEF Restart, Start, StartRaises, ToRecover, storeVars, requestVars
  <1>2. CASE ReconcileFails
    BY <1>2, TypeLoseMemory, RunServiceAssumption DEF ReconcileFails, storeVars, Fault
  <1>3. CASE ReconcileDone
    BY <1>3 DEF ReconcileDone, Unlink, requestVars
  <1>4. ASSUME NEW r \in Runs, ReconcileRecord(r)
        PROVE  TypeOK'
    <2>1. ASSUME NEW old \in DiskRecord
          PROVE  [old EXCEPT !.state = "interrupted"] \in RunRecord
      <3>1. CASE old \in RunRecord
        BY <3>1 DEF RunRecord, Verdicts
      <3>2. CASE old = NoRecord
        BY <3>2 DEF NoRecord, RunRecord, Verdicts
      <3> QED
        BY <3>1, <3>2 DEF DiskRecord
    <2>2. InterruptedRecord(r) \in DiskRecord
      BY <2>1, Records DEF InterruptedRecord
    <2>3. QED
      BY <1>4, <2>2 DEF ReconcileRecord, Save, requestVars
  <1> QED
    BY <1>1, <1>2, <1>3, <1>4 DEF Recover

LEMMA TypeNext ==
  ASSUME TypeOK, [Next]_vars
  PROVE  TypeOK'
  <1>1. CASE Crash
    BY <1>1, TypeLoseMemory, RunServiceAssumption
       DEF Crash, TypeOK, StoreTypeOK, storeVars
  <1>2. CASE UNCHANGED vars
    BY <1>2 DEF TypeOK, StoreTypeOK, vars, storeVars, memoryVars, historyVars
  <1> QED
    BY <1>1, <1>2, TypeLaunch, TypeExecute, TypeRelease, TypeCancel, TypeRecover
       DEF Next

\* Every variable keeps the values the code can give it.
THEOREM TypeCorrect == Spec => []TypeOK
  BY TypeInit, TypeNext, PTL DEF Spec

-----------------------------------------------------------------------------
\* A run that is somewhere in Launch, Execute or Release is so because the
\* process is up: no thread survives it.
LEMMA OwnersNeedService ==
  ASSUME IInv, NEW r \in Runs, pc[r] \notin {"idle", "killed"}
  PROVE  svc = "up"
  BY DEF IInv, RecoveryInv, TypeOK

LEMMA InvInit == Init => IInv
  <1> SUFFICES ASSUME Init PROVE IInv
    OBVIOUS
  <1>1. TypeOK
    BY TypeInit
  <1>2. OwnerInv
    BY DEF Init, OwnerInv, Owning
  <1>3. RecordInv
    BY Records DEF Init, StoreInit, RecordInv, RecordAt, Underway, NewRecord
  <1>4. RecoveryInv
    BY Records DEF Init, StoreInit, RecoveryInv
  <1> QED
    BY <1>1, <1>2, <1>3, <1>4 DEF IInv

\* A step of one run's line of control from one owning place to another that
\* leaves the lock alone.
LEMMA OwnerMoves ==
  ASSUME IInv, NEW r \in Runs, NEW to \in Places,
         pc[r] \in Owning \ {"locking"}, to # "locking",
         pc' = [pc EXCEPT ![r] = to], lock' = lock
  PROVE  OwnerInv'
  BY DEF IInv, TypeOK, OwnerInv

LEMMA OwnerUnlocks ==
  ASSUME IInv, NEW r \in Runs, NEW to \in Places \ Owning,
         pc[r] \in Owning,
         pc' = [pc EXCEPT ![r] = to]
  PROVE  OwnerInv'
  <1>1. \A s \in Runs \ {r} : pc[s] \notin Owning
    BY DEF IInv, OwnerInv
  <1>2. \A s \in Runs : pc'[s] \notin Owning
    BY <1>1 DEF IInv, TypeOK
  <1> QED
    BY <1>2 DEF OwnerInv, Owning

LEMMA OwnerLaunch ==
  ASSUME IInv, NEW r \in Runs, Launch(r)
  PROVE  OwnerInv'
  <1> USE RunStoreAssumption DEF Go
  <1>1. CASE LaunchAcquire(r)
    <2>1. \A s \in Runs : pc[s] \notin Owning
      BY <1>1 DEF LaunchAcquire, AcquireCreate, IInv, OwnerInv
    <2>2. QED
      BY <1>1, <2>1 DEF LaunchAcquire, AcquireCreate, IInv, TypeOK, OwnerInv
  <1>2. CASE LaunchRefused(r)
    BY <1>2 DEF LaunchRefused, storeVars, IInv, TypeOK, OwnerInv, Owning
  <1>3. CASE LaunchLockWritten(r)
    <2>1. \A s \in Runs : pc[s] \in Owning => s = r
      BY <1>3 DEF LaunchLockWritten, IInv, OwnerInv, Owning
    <2>2. QED
      BY <1>3, <2>1 DEF LaunchLockWritten, AcquireWrite, IInv, TypeOK, OwnerInv, Owning
  <1>4. CASE LaunchLockUnwritten(r)
    BY <1>4, OwnerUnlocks DEF LaunchLockUnwritten, Owning, Places
  <1>5. CASE CreateFill(r)
    BY <1>5, OwnerMoves DEF CreateFill, Owning, Places
  <1>6. CASE CreateSave(r)
    BY <1>6, OwnerMoves DEF CreateSave, Owning, Places
  <1>7. CASE CreateFails(r)
    BY <1>7, OwnerMoves DEF CreateFails, storeVars, Owning, Places
  <1>8. CASE LaunchSaveRunning(r)
    BY <1>8, OwnerMoves DEF LaunchSaveRunning, Owning, Places
  <1>9. CASE LaunchStartThread(r)
    BY <1>9, OwnerMoves DEF LaunchStartThread, storeVars, Owning, Places
  <1>10. CASE LaunchFails(r)
    BY <1>10, OwnerMoves DEF LaunchFails, storeVars, Owning, Places
  <1> QED
    BY <1>1, <1>2, <1>3, <1>4, <1>5, <1>6, <1>7, <1>8, <1>9, <1>10 DEF Launch

LEMMA OwnerExecute ==
  ASSUME IInv, NEW r \in Runs, Execute(r)
  PROVE  OwnerInv'
  <1> USE DEF Go, Owning, Places
  <1>1. CASE OnRecap(r)
    BY <1>1, OwnerMoves DEF OnRecap
  <1>2. CASE OnRecapSaved(r)
    BY <1>2, OwnerMoves DEF OnRecapSaved
  <1>3. ASSUME NEW outcome \in Outcomes, AdapterReturns(r, outcome)
        PROVE  OwnerInv'
    BY <1>3, OwnerMoves DEF AdapterReturns, storeVars
  <1>4. CASE ExecuteRaises(r)
    BY <1>4, OwnerMoves DEF ExecuteRaises, storeVars
  <1>5. CASE FinishSave(r)
    BY <1>5, OwnerMoves DEF FinishSave
  <1>6. CASE FinishSaveFails(r)
    BY <1>6, OwnerMoves DEF FinishSaveFails, storeVars
  <1>7. CASE FinishDiscard(r)
    BY <1>7 DEF FinishDiscard, storeVars, IInv, TypeOK, OwnerInv
  <1> QED
    BY <1>1, <1>2, <1>3, <1>4, <1>5, <1>6, <1>7 DEF Execute

LEMMA OwnerRelease ==
  ASSUME IInv, NEW r \in Runs, Release(r)
  PROVE  OwnerInv'
  <1>1. AfterRelease(r) \in Places \ Owning
    BY DEF AfterRelease, Places, Owning
  <1>2. CASE ReleaseCheck(r)
    BY <1>1, <1>2, OwnerMoves DEF ReleaseCheck, storeVars, Owning, Places
  <1>3. CASE ReleaseUnlink(r)
    BY <1>1, <1>3, OwnerUnlocks DEF ReleaseUnlink, Go, Owning
  <1> QED
    BY <1>2, <1>3 DEF Release

\* Neither a cancel request nor the recovery moves a lock that has an owner:
\* while the process is down or reconciling nothing owns anything.
LEMMA OwnerElsewhere ==
  ASSUME IInv, Recover \/ Crash \/ UNCHANGED vars \/ \E r \in Runs : Cancel(r)
  PROVE  OwnerInv'
  <1>1. CASE UNCHANGED vars \/ \E r \in Runs : Cancel(r)
    BY <1>1 DEF vars, memoryVars, Cancel, CancelLoad, CancelAdd, storeVars, IInv, OwnerInv
  <1>2. CASE Crash \/ ReconcileFails
    BY <1>2 DEF Crash, ReconcileFails, LoseMemory, IInv, TypeOK, OwnerInv, Owning
  <1>3. CASE Restart \/ Start \/ StartRaises \/ ReconcileDone \/ \E r \in Runs : ReconcileRecord(r)
    <2>1. svc # "up" /\ pc' = pc
      BY <1>3 DEF Restart, Start, StartRaises, ReconcileDone, ReconcileRecord
    <2>2. QED
      BY <2>1 DEF IInv, RecoveryInv, OwnerInv, Owning
  <1> QED
    BY <1>1, <1>2, <1>3 DEF Recover

-----------------------------------------------------------------------------
\* The record of a run whose own line of control did not move keeps its part
\* of the invariant as long as the lock did not leave it.
LEMMA RecordStays ==
  ASSUME IInv, NEW s \in Runs,
         pc'[s] = pc[s], disk'[s] = disk[s], mem'[s] = mem[s],
         lock = s => lock' = s
  PROVE  RecordAt(s)'
  BY DEF IInv, RecordInv, RecordAt, Unfinished, Finished

LEMMA RecordLaunch ==
  ASSUME IInv, NEW r \in Runs, Launch(r)
  PROVE  RecordInv'
  <1> SUFFICES ASSUME NEW s \in Runs PROVE RecordAt(s)'
    BY DEF RecordInv
  <1>0. RecordAt(r) /\ pc \in [Runs -> Places] /\ mem \in [Runs -> RunRecord]
        /\ disk \in [Runs -> DiskRecord]
    BY DEF IInv, RecordInv, TypeOK, StoreTypeOK
  <1>a. CASE s # r
    <2>1. pc'[s] = pc[s] /\ disk'[s] = disk[s] /\ mem'[s] = mem[s]
      BY <1>0, <1>a DEF Launch, LaunchAcquire, LaunchRefused, LaunchLockWritten,
         LaunchLockUnwritten, CreateFill, CreateSave, CreateFails,
         LaunchSaveRunning, LaunchStartThread, LaunchFails, Go, Save, storeVars
    <2>2. lock = s => lock' = s
      BY RunStoreAssumption DEF Launch, LaunchAcquire, AcquireCreate, LaunchRefused,
         LaunchLockWritten, LaunchLockUnwritten, CreateFill, CreateSave, CreateFails,
         LaunchSaveRunning, LaunchStartThread, LaunchFails, Go, storeVars,
         IInv, OwnerInv
    <2>3. QED
      BY <2>1, <2>2, RecordStays
  <1>b. CASE s = r
    <2> USE <1>0, <1>b, Records DEF Go, RecordAt, Unborn, Underway
    <2>1. CASE LaunchAcquire(r) \/ LaunchRefused(r) \/ CreateFill(r) \/ CreateFails(r)
      <3>1. disk' = disk /\ mem' = mem /\ pc[r] \in Unborn
        BY <2>1 DEF LaunchAcquire, LaunchRefused, CreateFill, CreateFails, storeVars
      <3>2. pc'[r] \in {"locking", "refused", "filled", "failing"}
        BY <2>1 DEF LaunchAcquire, LaunchRefused, CreateFill, CreateFails
      <3>3. QED
        BY <3>1, <3>2
    <2>2. CASE LaunchLockWritten(r)
      BY <2>2 DEF LaunchLockWritten
    <2>3. CASE LaunchLockUnwritten(r)
      BY <2>3 DEF LaunchLockUnwritten, storeVars
    <2>4. CASE CreateSave(r)
      BY <2>4 DEF CreateSave, Save, IInv, OwnerInv, Owning
    <2>5. CASE LaunchSaveRunning(r)
      BY <2>5 DEF LaunchSaveRunning, Save, IInv, OwnerInv, Owning, RunRecord
    <2>6. CASE LaunchStartThread(r)
      BY <2>6 DEF LaunchStartThread, storeVars
    <2>7. CASE LaunchFails(r)
      BY <2>7 DEF LaunchFails, storeVars
    <2> QED
      BY <2>1, <2>2, <2>3, <2>4, <2>5, <2>6, <2>7 DEF Launch
  <1> QED
    BY <1>a, <1>b

LEMMA RecordExecute ==
  ASSUME IInv, NEW r \in Runs, Execute(r)
  PROVE  RecordInv'
  <1> SUFFICES ASSUME NEW s \in Runs PROVE RecordAt(s)'
    BY DEF RecordInv
  <1>0. RecordAt(r) /\ pc \in [Runs -> Places] /\ mem \in [Runs -> RunRecord]
        /\ disk \in [Runs -> DiskRecord]
    BY DEF IInv, RecordInv, TypeOK, StoreTypeOK
  <1>a. CASE s # r
    <2>1. pc'[s] = pc[s] /\ disk'[s] = disk[s] /\ mem'[s] = mem[s] /\ lock' = lock
      BY <1>0, <1>a DEF Execute, OnRecap, OnRecapSaved, AdapterReturns,
         ExecuteRaises, FinishSave, FinishSaveFails, FinishDiscard, Go, Save, storeVars
    <2>2. QED
      BY <2>1, RecordStays
  <1>b. CASE s = r
    <2> USE <1>0, <1>b, Records DEF Go, RecordAt, Unborn, Underway
    <2>1. CASE OnRecap(r)
      BY <2>1 DEF OnRecap, RunRecord, Unfinished, Finished
    <2>2. CASE OnRecapSaved(r)
      BY <2>2 DEF OnRecapSaved, Save, IInv, OwnerInv, Owning
    <2>3. ASSUME NEW outcome \in Outcomes, AdapterReturns(r, outcome)
          PROVE  RecordAt(s)'
      <3>1. mem[r] \in RunRecord /\ mem[r].seen \in BOOLEAN
        BY DEF RunRecord
      <3>2. mem'[r].state \in Verdicts
        BY <2>3, <3>1, FinalStateIsVerdict DEF AdapterReturns, RunRecord
      <3>3. pc'[r] = "ended" /\ disk' = disk /\ lock' = lock /\ pc[r] \in Underway
        BY <2>3 DEF AdapterReturns, storeVars
      <3>4. QED
        BY <3>2, <3>3 DEF Finished, Unfinished
    <2>4. CASE ExecuteRaises(r)
      <3>1. mem'[r].state = "failed"
        BY <2>4 DEF ExecuteRaises
      <3>2. pc'[r] = "ended" /\ disk' = disk /\ lock' = lock /\ pc[r] \in Underway
        BY <2>4 DEF ExecuteRaises, storeVars
      <3>3. QED
        BY <3>1, <3>2 DEF Finished, Unfinished, Verdicts
    <2>5. CASE FinishSave(r)
      BY <2>5 DEF FinishSave, Save, Finished, Unfinished, Verdicts, Ongoing
    <2>6. CASE FinishSaveFails(r)
      BY <2>6 DEF FinishSaveFails, storeVars
    <2>7. CASE FinishDiscard(r)
      BY <2>7 DEF FinishDiscard, storeVars
    <2> QED
      BY <2>1, <2>2, <2>3, <2>4, <2>5, <2>6, <2>7 DEF Execute
  <1> QED
    BY <1>a, <1>b

\* A release leaves no unfinished record without its lock: the record of the
\* run that releases is closed or was never written, and no other run owned
\* the lock.
LEMMA RecordRelease ==
  ASSUME IInv, NEW r \in Runs, Release(r)
  PROVE  RecordInv'
  <1> SUFFICES ASSUME NEW s \in Runs PROVE RecordAt(s)'
    BY DEF RecordInv
  <1>0. RecordAt(r) /\ pc \in [Runs -> Places] /\ pc[r] \in Owning \ {"locking"}
        /\ disk' = disk /\ mem' = mem
    BY DEF IInv, RecordInv, TypeOK, Release, ReleaseCheck, ReleaseUnlink, Go,
           storeVars, Owning
  <1>1. lock = r
    BY <1>0 DEF IInv, OwnerInv
  <1>2. ~Unfinished(disk[r])
    BY <1>0, Records DEF Release, ReleaseCheck, ReleaseUnlink, Go, RecordAt, Unborn,
       Finished, Unfinished, Ongoing, Verdicts
  <1>3. pc'[r] \in {"unlinking", "released", "errored"}
    BY <1>0 DEF Release, ReleaseCheck, ReleaseUnlink, Go, AfterRelease
  <1>a. CASE s # r
    <2>1. pc'[s] = pc[s]
      BY <1>0, <1>a DEF Release, ReleaseCheck, ReleaseUnlink, Go
    <2>2. lock # s
      BY <1>1, <1>a
    <2>3. QED
      BY <1>0, <2>1, <2>2, RecordStays
  <1>b. CASE s = r
    BY <1>0, <1>2, <1>3, <1>b DEF RecordAt, Unborn, Underway, Finished, Unfinished
  <1> QED
    BY <1>a, <1>b

LEMMA RecordElsewhere ==
  ASSUME IInv, Recover \/ Crash \/ UNCHANGED vars \/ \E r \in Runs : Cancel(r)
  PROVE  RecordInv'
  <1> SUFFICES ASSUME NEW s \in Runs PROVE RecordAt(s)'
    BY DEF RecordInv
  <1>0. RecordAt(s) /\ pc \in [Runs -> Places] /\ disk \in [Runs -> DiskRecord]
    BY DEF IInv, RecordInv, TypeOK, StoreTypeOK
  <1>1. CASE UNCHANGED vars \/ Restart \/ Start \/ StartRaises \/ \E r \in Runs : Cancel(r)
    BY <1>1, RecordStays DEF vars, memoryVars, storeVars, Restart, Start, StartRaises, Cancel, CancelLoad,
       CancelAdd
  <1>2. CASE Crash \/ ReconcileFails
    <2>1. /\ disk' = disk /\ lock' = lock
          /\ pc'[s] = (IF pc[s] = "idle" THEN "idle" ELSE "killed")
          /\ mem'[s] = NewRecord
      BY <1>2 DEF Crash, ReconcileFails, LoseMemory, storeVars
    <2>2. QED
      BY <1>0, <2>1 DEF RecordAt, Unborn, Underway, NewRecord, Unfinished, Finished
  <1>3. CASE ReconcileDone
    <2>1. ~Unfinished(disk[s]) /\ pc[s] \in {"idle", "killed"}
      BY <1>3 DEF ReconcileDone, IInv, RecoveryInv
    <2>2. pc' = pc /\ disk' = disk /\ mem' = mem
      BY <1>3 DEF ReconcileDone
    <2>3. QED
      BY <1>0, <2>1, <2>2 DEF RecordAt, Unborn, Underway, Unfinished, Finished
  <1>4. ASSUME NEW r \in Runs, ReconcileRecord(r)
        PROVE  RecordAt(s)'
    <2>1. /\ pc' = pc /\ mem' = mem /\ lock' = lock
          /\ disk' = [disk EXCEPT ![r] = InterruptedRecord(r)]
          /\ Unfinished(disk[r]) /\ pc[r] \in {"idle", "killed"}
      BY <1>4 DEF ReconcileRecord, Save, IInv, RecoveryInv
    <2>2. pc[r] = "killed"
      BY <2>1, Records DEF IInv, RecordInv, RecordAt, Unborn
    <2>3. CASE s = r
      <3>1. disk[r] \in RunRecord
        BY <1>0, <2>1, Records DEF DiskRecord
      <3>2. disk'[r].state = "interrupted"
        BY <1>0, <2>1, <3>1 DEF InterruptedRecord, RunRecord
      <3>3. QED
        BY <2>1, <2>2, <2>3, <3>2
           DEF RecordAt, Unborn, Underway, Unfinished, Finished, Ongoing
    <2>4. CASE s # r
      BY <1>0, <2>1, <2>4, RecordStays
    <2>5. QED
      BY <2>3, <2>4
  <1> QED
    BY <1>1, <1>2, <1>3, <1>4 DEF Recover

-----------------------------------------------------------------------------
LEMMA RecoveryRun ==
  ASSUME IInv, NEW r \in Runs, Launch(r) \/ Execute(r) \/ Release(r) \/ Cancel(r)
  PROVE  RecoveryInv'
  <1>1. svc' = svc /\ todo' = todo
    BY DEF Launch, LaunchAcquire, LaunchRefused, LaunchLockWritten,
       LaunchLockUnwritten, CreateFill, CreateSave, CreateFails, LaunchSaveRunning,
       LaunchStartThread, LaunchFails, Execute, OnRecap, OnRecapSaved,
       AdapterReturns, ExecuteRaises, FinishSave, FinishSaveFails, FinishDiscard,
       Release, ReleaseCheck, ReleaseUnlink, Cancel, CancelLoad, CancelAdd,
       elsewhere, requestVars, recoveryVars
  <1>2. CASE svc = "up" /\ ~Cancel(r)
    <2>1. todo = {} /\ \A s \in Runs : Unfinished(disk[s]) => pc[s] # "killed"
      BY <1>2 DEF IInv, RecoveryInv
    <2>2. pc'[r] # "killed"
      BY <1>2 DEF IInv, TypeOK, Launch, LaunchAcquire, LaunchRefused,
       LaunchLockWritten, LaunchLockUnwritten, CreateFill, CreateSave, CreateFails,
       LaunchSaveRunning, LaunchStartThread, LaunchFails, Execute, OnRecap,
       OnRecapSaved, AdapterReturns, ExecuteRaises, FinishSave, FinishSaveFails,
       FinishDiscard, Release, ReleaseCheck, ReleaseUnlink, AfterRelease, Go
    <2>3. \A s \in Runs \ {r} : pc'[s] = pc[s] /\ disk'[s] = disk[s]
      BY <1>2 DEF IInv, TypeOK, StoreTypeOK, Launch, LaunchAcquire, LaunchRefused,
       LaunchLockWritten, LaunchLockUnwritten, CreateFill, CreateSave, CreateFails,
       LaunchSaveRunning, LaunchStartThread, LaunchFails, Execute, OnRecap,
       OnRecapSaved, AdapterReturns, ExecuteRaises, FinishSave, FinishSaveFails,
       FinishDiscard, Release, ReleaseCheck, ReleaseUnlink, Go, Save, storeVars
    <2>4. QED
      BY <1>1, <1>2, <2>1, <2>2, <2>3 DEF RecoveryInv, Unfinished
  <1>3. CASE Cancel(r)
    BY <1>1, <1>3 DEF Cancel, CancelLoad, CancelAdd, storeVars, IInv, RecoveryInv,
       Unfinished
  <1>4. CASE svc # "up" /\ ~Cancel(r)
    <2>1. pc[r] \in {"idle", "killed"}
      BY <1>4 DEF IInv, RecoveryInv
    <2>2. QED
      BY <1>4, <2>1 DEF Launch, LaunchAcquire, LaunchRefused, LaunchLockWritten,
       LaunchLockUnwritten, CreateFill, CreateSave, CreateFails, LaunchSaveRunning,
       LaunchStartThread, LaunchFails, Execute, OnRecap, OnRecapSaved,
       AdapterReturns, ExecuteRaises, FinishSave, FinishSaveFails, FinishDiscard,
       Release, ReleaseCheck, ReleaseUnlink, Go
  <1> QED
    BY <1>2, <1>3, <1>4

LEMMA RecoveryElsewhere ==
  ASSUME IInv, Recover \/ Crash \/ UNCHANGED vars
  PROVE  RecoveryInv'
  <1>0. /\ pc \in [Runs -> Places] /\ disk \in [Runs -> DiskRecord]
        /\ todo \subseteq Runs
    BY DEF IInv, TypeOK, StoreTypeOK
  <1>1. CASE UNCHANGED vars
    BY <1>1 DEF vars, memoryVars, storeVars, IInv, RecoveryInv, Unfinished
  <1>2. CASE Crash \/ ReconcileFails
    BY <1>0, <1>2 DEF Crash, ReconcileFails, LoseMemory, RecoveryInv
  <1>3. CASE Restart \/ Start \/ StartRaises
    BY <1>3 DEF Restart, Start, StartRaises, ToRecover, storeVars, IInv, RecoveryInv, Unfinished
  <1>4. CASE ReconcileDone
    BY <1>4 DEF ReconcileDone, IInv, RecoveryInv, Unfinished
  <1>5. ASSUME NEW r \in Runs, ReconcileRecord(r)
        PROVE  RecoveryInv'
    <2>1. \A s \in Runs \ {r} : disk'[s] = disk[s]
      BY <1>0, <1>5 DEF ReconcileRecord, Save
    <2>2. disk'[r] = InterruptedRecord(r) /\ disk[r] \in RunRecord
      BY <1>0, <1>5, Records DEF ReconcileRecord, Save, IInv, RecoveryInv, DiskRecord
    <2>3. ~Unfinished(disk'[r])
      BY <2>2 DEF InterruptedRecord, RunRecord, Unfinished, Ongoing
    <2>4. QED
      BY <1>0, <1>5, <2>1, <2>3 DEF ReconcileRecord, IInv, RecoveryInv, Unfinished
  <1> QED
    BY <1>1, <1>2, <1>3, <1>4, <1>5 DEF Recover

-----------------------------------------------------------------------------
LEMMA InvNext == IInv /\ [Next]_vars => IInv'
  <1> SUFFICES ASSUME IInv, [Next]_vars PROVE IInv'
    OBVIOUS
  <1>1. TypeOK'
    BY TypeNext DEF IInv
  <1>2. OwnerInv'
    BY OwnerLaunch, OwnerExecute, OwnerRelease, OwnerElsewhere DEF Next
  <1>3. RecordInv'
    BY RecordLaunch, RecordExecute, RecordRelease, RecordElsewhere DEF Next
  <1>4. RecoveryInv'
    BY RecoveryRun, RecoveryElsewhere DEF Next
  <1> QED
    BY <1>1, <1>2, <1>3, <1>4 DEF IInv

THEOREM Invariance == Spec => []IInv
  BY InvInit, InvNext, PTL DEF Spec

\* One playbook at a time, for any number of launches, crashes and failures.
THEOREM MutualExclusion == Spec => []OneRunExecutes
  <1>1. IInv => OneRunExecutes
    BY DEF IInv, OwnerInv, OneRunExecutes, Owning
  <1> QED
    BY <1>1, Invariance, PTL

\* An unfinished record always names the holder of the lock.
THEOREM LockCoversRecord == Spec => []UnfinishedHoldsLock
  <1>1. IInv => UnfinishedHoldsLock
    BY DEF IInv, RecordInv, RecordAt, UnfinishedHoldsLock
  <1> QED
    BY <1>1, Invariance, PTL

\* No record of a dead process is still unfinished once the service answers.
THEOREM RecoveryIsComplete == Spec => []OrphansAreClosed
  <1>1. IInv => OrphansAreClosed
    BY DEF IInv, RecoveryInv, OrphansAreClosed
  <1> QED
    BY <1>1, Invariance, PTL

-----------------------------------------------------------------------------
(* What the steps do to the records, which behave as RunLifecycle says.    *)

\* Every step that writes a record, and what it writes.
RecordWritten(r) ==
  \/ /\ disk[r] = NoRecord /\ lock = r
     /\ disk'[r].state = "pending"
  \/ /\ disk[r].state = "pending"
     /\ disk'[r].state = "running"
  \/ /\ disk[r].state = "running"
     /\ disk'[r].state = "running"
  \/ /\ disk[r].state = "running"
     /\ disk'[r].state \in Verdicts
  \/ /\ Unfinished(disk[r])
     /\ disk'[r].state = "interrupted"

LEMMA WritesAreKnown ==
  ASSUME IInv, [Next]_vars
  PROVE  \/ disk' = disk
         \/ \E r \in Runs :
              /\ RecordWritten(r)
              /\ disk' = [disk EXCEPT ![r] = disk'[r]]
  <1>0. /\ disk \in [Runs -> DiskRecord]
        /\ mem \in [Runs -> RunRecord]
        /\ \A r \in Runs : RecordAt(r)
    BY DEF IInv, TypeOK, StoreTypeOK, RecordInv
  <1>1. ASSUME NEW r \in Runs, CreateSave(r)
        PROVE  RecordWritten(r) /\ disk' = [disk EXCEPT ![r] = disk'[r]]
    BY <1>0, <1>1 DEF CreateSave, Go, Save, RecordAt, Unborn, RecordWritten, IInv,
       OwnerInv, Owning
  <1>2. ASSUME NEW r \in Runs, LaunchSaveRunning(r)
        PROVE  RecordWritten(r) /\ disk' = [disk EXCEPT ![r] = disk'[r]]
    BY <1>0, <1>2 DEF LaunchSaveRunning, Go, Save, RecordAt, RecordWritten, RunRecord
  <1>3. ASSUME NEW r \in Runs, OnRecapSaved(r)
        PROVE  RecordWritten(r) /\ disk' = [disk EXCEPT ![r] = disk'[r]]
    BY <1>0, <1>3 DEF OnRecapSaved, Go, Save, RecordAt, Underway, RecordWritten
  <1>4. ASSUME NEW r \in Runs, FinishSave(r)
        PROVE  RecordWritten(r) /\ disk' = [disk EXCEPT ![r] = disk'[r]]
    BY <1>0, <1>4 DEF FinishSave, Go, Save, RecordAt, Underway, RecordWritten, Finished
  <1>5. ASSUME NEW r \in Runs, ReconcileRecord(r)
        PROVE  RecordWritten(r) /\ disk' = [disk EXCEPT ![r] = disk'[r]]
    <2>1. Unfinished(disk[r]) /\ disk[r] \in RunRecord
      BY <1>0, <1>5, Records DEF ReconcileRecord, IInv, RecoveryInv, DiskRecord
    <2>2. disk' = [disk EXCEPT ![r] = InterruptedRecord(r)]
      BY <1>5 DEF ReconcileRecord, Save
    <2>3. InterruptedRecord(r).state = "interrupted"
      BY <2>1 DEF InterruptedRecord, RunRecord
    <2>4. QED
      BY <1>0, <2>1, <2>2, <2>3 DEF RecordWritten
  <1>6. \/ disk' = disk
        \/ \E r \in Runs : \/ CreateSave(r) \/ LaunchSaveRunning(r)
                           \/ OnRecapSaved(r) \/ FinishSave(r) \/ ReconcileRecord(r)
    <2>1. CASE UNCHANGED vars
      BY <2>1 DEF vars, storeVars
    <2>2. CASE Crash \/ Restart \/ Start \/ StartRaises \/ ReconcileFails \/ ReconcileDone
      BY <2>2 DEF Crash, Restart, Start, StartRaises, ReconcileFails, ReconcileDone, storeVars
    <2>3. ASSUME NEW r \in Runs, Release(r) \/ Cancel(r)
          PROVE  disk' = disk
      BY <2>3 DEF Release, ReleaseCheck, ReleaseUnlink, Cancel, CancelLoad, CancelAdd,
         storeVars
    <2>4. ASSUME NEW r \in Runs, Launch(r)
          PROVE  disk' = disk \/ CreateSave(r) \/ LaunchSaveRunning(r)
      BY <2>4 DEF Launch, LaunchAcquire, LaunchRefused, LaunchLockWritten,
         LaunchLockUnwritten, CreateFill, CreateFails, LaunchStartThread, LaunchFails,
         storeVars
    <2>5. ASSUME NEW r \in Runs, Execute(r)
          PROVE  disk' = disk \/ OnRecapSaved(r) \/ FinishSave(r)
      BY <2>5 DEF Execute, OnRecap, AdapterReturns, ExecuteRaises, FinishSaveFails,
         FinishDiscard, storeVars
    <2>6. QED
      BY <2>1, <2>2, <2>3, <2>4, <2>5 DEF Next, Recover
  <1> QED
    BY <1>1, <1>2, <1>3, <1>4, <1>5, <1>6

-----------------------------------------------------------------------------
\* A verdict on disk is final.
THEOREM VerdictsAreFinal == Spec => VerdictIsFinal
  <1>1. ASSUME IInv, [Next]_vars
        PROVE  [\A r \in Runs : Finished(disk[r]) => disk'[r] = disk[r]]_disk
    <2>1. CASE disk' = disk
      BY <2>1
    <2>2. ASSUME NEW s \in Runs, RecordWritten(s),
                 disk' = [disk EXCEPT ![s] = disk'[s]]
          PROVE  \A r \in Runs : Finished(disk[r]) => disk'[r] = disk[r]
      <3>1. ~Finished(disk[s])
        BY <2>2, Records DEF RecordWritten, Finished, Unfinished, Ongoing, Verdicts
      <3>2. disk \in [Runs -> DiskRecord]
        BY <1>1 DEF IInv, TypeOK, StoreTypeOK
      <3>3. QED
        BY <2>2, <3>1, <3>2
    <2>3. QED
      BY <1>1, <2>1, <2>2, WritesAreKnown
  <1>2. QED
    BY <1>1, Invariance, PTL DEF Spec, VerdictIsFinal

-----------------------------------------------------------------------------
\* The records a client reads go through RunLifecycle's steps only.
THEOREM RecordsFollowLifecycle == Spec => ImplementsLifecycle
  <1>1. Init => Lifecycle!Init
    BY DEF Init, StoreInit, NoRecord, Lifecycle!Init
  <1>2. ASSUME IInv, [Next]_vars
        PROVE  [Lifecycle!Next]_([r \in Runs |-> disk[r].state])
    <2> DEFINE status == [r \in Runs |-> disk[r].state]
    <2>0. disk \in [Runs -> DiskRecord]
      BY <1>2 DEF IInv, TypeOK, StoreTypeOK
    <2>1. CASE disk' = disk
      BY <2>1
    <2>2. ASSUME NEW r \in Runs, RecordWritten(r),
                 disk' = [disk EXCEPT ![r] = disk'[r]]
          PROVE  [Lifecycle!Next]_status
      <3>1. status' = [status EXCEPT ![r] = disk'[r].state]
        BY <2>0, <2>2
      <3>2. CASE disk[r] = NoRecord /\ lock = r /\ disk'[r].state = "pending"
        <4>1. \A s \in Runs : ~Unfinished(disk[s])
          BY <1>2, <3>2, Records DEF IInv, RecordInv, RecordAt
        <4>2. Lifecycle!Idle
          BY <4>1 DEF Lifecycle!Idle, Lifecycle!Ongoing, Unfinished, Ongoing
        <4>3. Lifecycle!Accept(r)
          BY <3>1, <3>2, <4>2 DEF Lifecycle!Accept, NoRecord
        <4>4. QED
          BY <4>3 DEF Lifecycle!Next
      <3>3. CASE disk[r].state = "pending" /\ disk'[r].state = "running"
        BY <3>1, <3>3 DEF Lifecycle!Next, Lifecycle!Begin
      <3>4. CASE disk[r].state = "running" /\ disk'[r].state = "running"
        BY <3>1, <3>4
      <3>5. CASE disk[r].state = "running" /\ disk'[r].state \in Verdicts
        BY <3>1, <3>5 DEF Lifecycle!Next, Lifecycle!Conclude, Lifecycle!Verdicts,
           Verdicts
      <3>6. CASE Unfinished(disk[r]) /\ disk'[r].state = "interrupted"
        BY <3>1, <3>6 DEF Lifecycle!Next, Lifecycle!Lose, Lifecycle!Ongoing,
           Unfinished, Ongoing
      <3>7. QED
        BY <2>2, <3>2, <3>3, <3>4, <3>5, <3>6 DEF RecordWritten
    <2>3. QED
      BY <1>2, <2>1, <2>2, WritesAreKnown
  <1>3. QED
    BY <1>1, <1>2, Invariance, PTL DEF Spec, ImplementsLifecycle, Lifecycle!Spec
=============================================================================
