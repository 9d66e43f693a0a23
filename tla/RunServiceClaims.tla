-------------------------- MODULE RunServiceClaims --------------------------
(***************************************************************************)
(* What the words of a record may be taken to mean, and who gives the lock *)
(* back, proved for any set of runs and any bounds.                        *)
(***************************************************************************)
EXTENDS RunServiceProofs

\* What each place of a run's line of control has already earned.
ClaimAt(r) ==
  /\ disk[r] # NoRecord => r \in filled
  /\ pc[r] = "filled" => r \in filled
  /\ pc[r] \in {"executing", "appended"} /\ mem[r].seen => r \in trace
  /\ pc[r] = "ended" /\ mem[r].state = "success" => mem[r].seen /\ r \in trace
  /\ pc[r] = "ended" /\ mem[r].state = "cancelled" => r \in asked
  /\ pc[r] \in {"locking", "locked", "filled", "created", "saved"} => ~mem[r].seen
  /\ pc[r] = "idle" => ~mem[r].seen
  /\ disk[r].state = "success" => disk[r].seen /\ r \in trace
  /\ disk[r].state = "cancelled" => r \in asked

ClaimInv ==
  /\ cancelled \subseteq asked
  /\ \A r \in Runs : ClaimAt(r)

LEMMA ClaimInit == Init => ClaimInv
  BY DEF Init, StoreInit, NoRecord, NewRecord, ClaimInv, ClaimAt

\* Nothing is ever taken back from the streams, the directories or the
\* history of cancellations.
LEMMA Monotone ==
  ASSUME IInv, [Next]_vars
  PROVE  filled \subseteq filled' /\ trace \subseteq trace' /\ asked \subseteq asked'
  <1> USE DEF storeVars, elsewhere, requestVars
  <1>1. CASE UNCHANGED vars \/ Crash \/ Recover
    BY <1>1 DEF vars, historyVars, Crash, Recover, Restart, Start, StartRaises, ReconcileRecord,
       ReconcileFails, ReconcileDone
  <1>2. ASSUME NEW r \in Runs, Launch(r)
        PROVE  filled \subseteq filled' /\ trace' = trace /\ asked' = asked
    BY <1>2 DEF Launch, LaunchAcquire, LaunchRefused, LaunchLockWritten,
       LaunchLockUnwritten, CreateFill, Fill, CreateSave, CreateFails,
       LaunchSaveRunning, LaunchStartThread, LaunchFails
  <1>3. ASSUME NEW r \in Runs, Execute(r)
        PROVE  filled' = filled /\ trace \subseteq trace' /\ asked' = asked
    BY <1>3 DEF Execute, OnRecap, AppendRecap, OnRecapSaved, AdapterReturns,
       ExecuteRaises, FinishSave, FinishSaveFails, FinishDiscard
  <1>4. ASSUME NEW r \in Runs, Release(r) \/ Cancel(r)
        PROVE  filled' = filled /\ trace' = trace /\ asked \subseteq asked'
    BY <1>4 DEF Release, ReleaseCheck, ReleaseUnlink, Cancel, CancelLoad, CancelAdd
  <1> QED
    BY <1>1, <1>2, <1>3, <1>4 DEF Next

LEMMA CancelledStaysAsked ==
  ASSUME ClaimInv, [Next]_vars
  PROVE  cancelled' \subseteq asked'
  <1> USE DEF ClaimInv, elsewhere, requestVars
  <1>1. CASE UNCHANGED vars \/ Crash \/ Recover
    BY <1>1 DEF vars, memoryVars, historyVars, Crash, LoseMemory, Recover, Restart, Start, StartRaises,
       ReconcileRecord, ReconcileFails, ReconcileDone
  <1>2. ASSUME NEW r \in Runs, Launch(r) \/ Release(r)
        PROVE  cancelled' = cancelled /\ asked' = asked
    BY <1>2 DEF Launch, LaunchAcquire, LaunchRefused, LaunchLockWritten,
       LaunchLockUnwritten, CreateFill, CreateSave, CreateFails,
       LaunchSaveRunning, LaunchStartThread, LaunchFails, Release, ReleaseCheck,
       ReleaseUnlink
  <1>3. ASSUME NEW r \in Runs, Execute(r)
        PROVE  cancelled' \subseteq cancelled /\ asked' = asked
    BY <1>3 DEF Execute, OnRecap, OnRecapSaved, AdapterReturns,
       ExecuteRaises, FinishSave, FinishSaveFails, FinishDiscard
  <1>4. ASSUME NEW r \in Runs, Cancel(r)
        PROVE  cancelled' \subseteq asked'
    BY <1>4 DEF Cancel, CancelLoad, CancelAdd
  <1> QED
    BY <1>1, <1>2, <1>3, <1>4 DEF Next

\* A run nothing happened to keeps what it earned.
LEMMA ClaimStays ==
  ASSUME IInv, ClaimInv, [Next]_vars, NEW s \in Runs,
         pc'[s] = pc[s], disk'[s] = disk[s], mem'[s] = mem[s]
  PROVE  ClaimAt(s)'
  BY Monotone DEF ClaimInv, ClaimAt

LEMMA ClaimLaunch ==
  ASSUME IInv, ClaimInv, NEW r \in Runs, Launch(r)
  PROVE  \A s \in Runs : ClaimAt(s)'
  <1> SUFFICES ASSUME NEW s \in Runs PROVE ClaimAt(s)'
    OBVIOUS
  <1>0. /\ ClaimAt(r) /\ RecordAt(r)
        /\ pc \in [Runs -> Places] /\ mem \in [Runs -> RunRecord]
        /\ disk \in [Runs -> DiskRecord]
    BY DEF IInv, RecordInv, TypeOK, StoreTypeOK, ClaimInv
  <1>m. filled \subseteq filled' /\ trace \subseteq trace' /\ asked \subseteq asked'
    BY Monotone DEF Next
  <1>a. CASE s # r
    <2>1. pc'[s] = pc[s] /\ disk'[s] = disk[s] /\ mem'[s] = mem[s]
      BY <1>0, <1>a DEF Launch, LaunchAcquire, LaunchRefused, LaunchLockWritten,
         LaunchLockUnwritten, CreateFill, CreateSave, CreateFails,
         LaunchSaveRunning, LaunchStartThread, LaunchFails, Go, Save, storeVars
    <2>2. QED
      BY <2>1, ClaimStays DEF Next
  <1>b. CASE s = r
    <2> USE <1>0, <1>m, <1>b DEF Go, ClaimAt
    <2>1. CASE LaunchAcquire(r) \/ LaunchRefused(r) \/ LaunchLockWritten(r)
      BY <2>1 DEF LaunchAcquire, LaunchRefused, LaunchLockWritten, storeVars
    <2>2. CASE CreateFill(r)
      BY <2>2 DEF CreateFill, Fill
    <2>3. CASE CreateSave(r)
      <3>1. mem[r].state = "pending" /\ r \in filled
        BY <2>3 DEF CreateSave, RecordAt, Unborn
      <3>2. QED
        BY <2>3, <3>1 DEF CreateSave, Save
    <2>4. CASE LaunchSaveRunning(r)
      <3>1. mem'[r] = [mem[r] EXCEPT !.state = "running"] /\ mem[r] \in RunRecord
        BY <2>4 DEF LaunchSaveRunning
      <3>2. mem'[r].state = "running" /\ mem'[r].seen = mem[r].seen
        BY <3>1 DEF RunRecord
      <3>3. r \in filled
        BY <2>4 DEF LaunchSaveRunning, RecordAt, NoRecord
      <3>4. QED
        BY <2>4, <3>2, <3>3 DEF LaunchSaveRunning, Save
    <2>5. CASE LaunchStartThread(r)
      BY <2>5 DEF LaunchStartThread, storeVars
    <2>6. CASE LaunchLockUnwritten(r) \/ CreateFails(r) \/ LaunchFails(r)
      BY <2>6 DEF LaunchLockUnwritten, CreateFails, LaunchFails, storeVars
    <2> QED
      BY <2>1, <2>2, <2>3, <2>4, <2>5, <2>6 DEF Launch
  <1> QED
    BY <1>a, <1>b

LEMMA FinalStateEarns ==
  ASSUME NEW outcome \in Outcomes, NEW seen \in BOOLEAN
  PROVE  /\ FinalState(outcome, seen) = "success" => seen
         /\ FinalState(outcome, seen) = "cancelled" => outcome = "cancelled"
  BY DEF FinalState, Outcomes

LEMMA ClaimExecute ==
  ASSUME IInv, ClaimInv, NEW r \in Runs, Execute(r)
  PROVE  \A s \in Runs : ClaimAt(s)'
  <1> SUFFICES ASSUME NEW s \in Runs PROVE ClaimAt(s)'
    OBVIOUS
  <1>0. /\ ClaimAt(r) /\ RecordAt(r)
        /\ pc \in [Runs -> Places] /\ mem \in [Runs -> RunRecord]
        /\ disk \in [Runs -> DiskRecord]
    BY DEF IInv, RecordInv, TypeOK, StoreTypeOK, ClaimInv
  <1>m. filled \subseteq filled' /\ trace \subseteq trace' /\ asked \subseteq asked'
    BY Monotone DEF Next
  <1>a. CASE s # r
    <2>1. pc'[s] = pc[s] /\ disk'[s] = disk[s] /\ mem'[s] = mem[s]
      BY <1>0, <1>a DEF Execute, OnRecap, OnRecapSaved, AdapterReturns,
         ExecuteRaises, FinishSave, FinishSaveFails, FinishDiscard, Go, Save, storeVars
    <2>2. QED
      BY <2>1, ClaimStays DEF Next
  <1>b. CASE s = r
    <2> USE <1>0, <1>m, <1>b DEF Go, ClaimAt
    <2>1. CASE OnRecap(r)
      BY <2>1 DEF OnRecap, AppendRecap
    <2>2. CASE OnRecapSaved(r)
      BY <2>2 DEF OnRecapSaved, Save, RecordAt, Underway, NoRecord
    <2>3. ASSUME NEW outcome \in Outcomes, AdapterReturns(r, outcome)
          PROVE  ClaimAt(s)'
      <3>1. mem[r] \in RunRecord /\ mem[r].seen \in BOOLEAN
        BY DEF RunRecord
      <3>2. /\ mem'[r].state = FinalState(outcome, mem[r].seen)
            /\ mem'[r].seen = mem[r].seen
        BY <2>3, <3>1 DEF AdapterReturns, RunRecord
      <3>3. outcome = "cancelled" => r \in asked
        BY <2>3 DEF AdapterReturns, OutcomePossible, ClaimInv
      <3>4. pc[r] = "executing" /\ pc'[r] = "ended" /\ disk' = disk
        BY <2>3 DEF AdapterReturns, storeVars
      <3>5. QED
        BY <3>1, <3>2, <3>3, <3>4, FinalStateEarns
    <2>4. CASE ExecuteRaises(r)
      <3>1. mem'[r].state = "failed" /\ pc'[r] = "ended" /\ disk' = disk
        BY <2>4 DEF ExecuteRaises, storeVars
      <3>2. QED
        BY <3>1
    <2>5. CASE FinishSave(r)
      BY <2>5 DEF FinishSave, Save, RecordAt, Underway, NoRecord
    <2>6. CASE FinishSaveFails(r) \/ FinishDiscard(r)
      BY <2>6 DEF FinishSaveFails, FinishDiscard, storeVars
    <2> QED
      BY <2>1, <2>2, <2>3, <2>4, <2>5, <2>6 DEF Execute
  <1> QED
    BY <1>a, <1>b

LEMMA ClaimElsewhere ==
  ASSUME IInv, ClaimInv, [Next]_vars,
         \/ Recover \/ Crash \/ UNCHANGED vars
         \/ \E r \in Runs : Release(r) \/ Cancel(r)
  PROVE  \A s \in Runs : ClaimAt(s)'
  <1> SUFFICES ASSUME NEW s \in Runs PROVE ClaimAt(s)'
    OBVIOUS
  <1>0. /\ ClaimAt(s) /\ pc \in [Runs -> Places] /\ disk \in [Runs -> DiskRecord]
    BY DEF IInv, TypeOK, StoreTypeOK, ClaimInv
  <1>1. CASE UNCHANGED vars \/ Restart \/ Start \/ StartRaises \/ ReconcileDone \/ \E r \in Runs : Cancel(r)
    BY <1>1, ClaimStays DEF vars, memoryVars, storeVars, Restart, Start, StartRaises, ReconcileDone, Cancel,
       CancelLoad, CancelAdd
  <1>2. CASE Crash \/ ReconcileFails
    <2>1. /\ disk' = disk /\ filled' = filled /\ trace' = trace /\ asked' = asked
          /\ pc'[s] = (IF pc[s] = "idle" THEN "idle" ELSE "killed")
          /\ mem'[s] = NewRecord
      BY <1>2 DEF Crash, ReconcileFails, LoseMemory, storeVars
    <2>2. QED
      BY <1>0, <2>1 DEF ClaimAt, NewRecord
  <1>3. ASSUME NEW r \in Runs, ReconcileRecord(r)
        PROVE  ClaimAt(s)'
    <2>1. /\ pc' = pc /\ mem' = mem /\ filled' = filled /\ trace' = trace
          /\ asked' = asked /\ disk' = [disk EXCEPT ![r] = InterruptedRecord(r)]
          /\ Unfinished(disk[r]) /\ disk[r] \in RunRecord
      BY <1>0, <1>3, Records
         DEF ReconcileRecord, Save, requestVars, IInv, RecoveryInv, DiskRecord,
             TypeOK, StoreTypeOK
    <2>2. InterruptedRecord(r).state = "interrupted"
      BY <2>1 DEF InterruptedRecord, RunRecord
    <2>3. disk[r] # NoRecord
      BY <2>1, Records
    <2>4. QED
      BY <1>0, <2>1, <2>2, <2>3, ClaimStays DEF ClaimAt
  <1>4. ASSUME NEW r \in Runs, Release(r)
        PROVE  ClaimAt(s)'
    <2>1. /\ disk' = disk /\ mem' = mem /\ filled' = filled /\ trace' = trace
          /\ asked' = asked
      BY <1>4 DEF Release, ReleaseCheck, ReleaseUnlink, storeVars, elsewhere, requestVars
    <2>2. pc'[s] = pc[s] \/ pc'[s] \in {"unlinking", "released", "errored"}
      BY <1>0, <1>4 DEF Release, ReleaseCheck, ReleaseUnlink, Go, AfterRelease
    <2>3. QED
      BY <1>0, <2>1, <2>2 DEF ClaimAt
  <1> QED
    BY <1>1, <1>2, <1>3, <1>4 DEF Recover

LEMMA ClaimNext == IInv /\ ClaimInv /\ [Next]_vars => ClaimInv'
  <1> SUFFICES ASSUME IInv, ClaimInv, [Next]_vars PROVE ClaimInv'
    OBVIOUS
  <1>1. \A s \in Runs : ClaimAt(s)'
    BY ClaimLaunch, ClaimExecute, ClaimElsewhere DEF Next
  <1>2. QED
    BY <1>1, CancelledStaysAsked DEF ClaimInv

THEOREM Claims == Spec => []ClaimInv
  BY ClaimInit, ClaimNext, Invariance, PTL DEF Spec

\* success means the recap is in the record and in the stream.
THEOREM SuccessEarned == Spec => []SuccessIsEarned
  <1>1. ClaimInv => SuccessIsEarned
    BY DEF ClaimInv, ClaimAt, SuccessIsEarned
  <1> QED
    BY <1>1, Claims, PTL

\* cancelled means an operator asked for it.
THEOREM CancelledAsked == Spec => []CancelledWasAsked
  <1>1. ClaimInv => CancelledWasAsked
    BY DEF ClaimInv, ClaimAt, CancelledWasAsked
  <1> QED
    BY <1>1, Claims, PTL

\* A record never appears before the inventory it ran with.
THEOREM InventoryBesideRecord == Spec => []RecordHasItsInventory
  <1>1. ClaimInv => RecordHasItsInventory
    BY DEF ClaimInv, ClaimAt, RecordHasItsInventory
  <1> QED
    BY <1>1, Claims, PTL

-----------------------------------------------------------------------------
LEMMA OwnerKept ==
  ASSUME IInv, LockHasOwner, [Next]_vars
  PROVE  LockHasOwner'
  <1> SUFFICES ASSUME crashes' = 0, faults' = 0, lock' # NoLock
               PROVE  HasOwner'
    BY DEF LockHasOwner
  <1> USE DEF storeVars, elsewhere, recoveryVars, Go, HasOwner
  <1>0. /\ pc \in [Runs -> Places] /\ crashes \in Nat /\ faults \in Nat
        /\ OwnerInv
    BY RunServiceAssumption DEF IInv, TypeOK
  <1>1. CASE UNCHANGED vars \/ Restart \/ Start \/ StartRaises \/ \E r \in Runs : ReconcileRecord(r) \/ Cancel(r)
    BY <1>1 DEF vars, memoryVars, historyVars, Restart, Start, StartRaises, ReconcileRecord, Cancel,
       CancelLoad, CancelAdd, LockHasOwner
  <1>2. CASE Crash \/ ReconcileFails
    BY <1>0, <1>2 DEF Crash, ReconcileFails, Fault
  <1>3. CASE ReconcileDone
    BY <1>3 DEF ReconcileDone, Unlink, LockHasOwner
  <1>4. ASSUME NEW r \in Runs, Launch(r) \/ Execute(r) \/ Release(r)
        PROVE  HasOwner'
    <2>1. crashes = 0 /\ faults = 0
      BY <1>0, <1>4 DEF Launch, LaunchAcquire, LaunchRefused, LaunchLockWritten,
         LaunchLockUnwritten, CreateFill, CreateSave, CreateFails,
         LaunchSaveRunning, LaunchStartThread, LaunchFails, Execute, OnRecap,
         OnRecapSaved, AdapterReturns, ExecuteRaises, FinishSave,
         FinishSaveFails, FinishDiscard, Release, ReleaseCheck, ReleaseUnlink, Fault
    <2>2. CASE LaunchAcquire(r)
      BY <1>0, <2>2 DEF LaunchAcquire, AcquireCreate, Owning
    <2>3. CASE LaunchRefused(r) \/ FinishDiscard(r)
      <3>1. HasOwner /\ pc[r] \notin Owning /\ lock' = lock
        BY <2>1, <2>3 DEF LaunchRefused, FinishDiscard, LockHasOwner, Owning
      <3>2. \A s \in Runs \ {r} : pc'[s] = pc[s]
        BY <1>0, <2>3 DEF LaunchRefused, FinishDiscard
      <3>3. QED
        BY <3>1, <3>2
    <2>4. CASE LaunchLockWritten(r)
      BY <1>0, <2>4 DEF LaunchLockWritten, AcquireWrite, Owning
    <2>5. CASE LaunchLockUnwritten(r) \/ CreateFails(r) \/ LaunchFails(r)
               \/ FinishSaveFails(r)
      BY <1>0, <2>1, <2>5 DEF LaunchLockUnwritten, CreateFails, LaunchFails,
         FinishSaveFails, Fault
    <2>6. CASE CreateFill(r) \/ CreateSave(r) \/ LaunchSaveRunning(r)
               \/ LaunchStartThread(r) \/ OnRecap(r) \/ OnRecapSaved(r)
               \/ (\E outcome \in Outcomes : AdapterReturns(r, outcome))
               \/ ExecuteRaises(r) \/ FinishSave(r)
      <3>1. lock' = lock /\ pc[r] \in Owning \ {"locking"} /\ pc'[r] \in Owning
        BY <1>0, <2>6 DEF CreateFill, CreateSave, LaunchSaveRunning,
           LaunchStartThread, OnRecap, OnRecapSaved, AdapterReturns, ExecuteRaises,
           FinishSave, Owning
      <3>2. QED
        BY <1>0, <3>1 DEF OwnerInv
    <2>7. CASE Release(r)
      <3>1. lock = r
        BY <1>0, <2>7 DEF Release, ReleaseCheck, ReleaseUnlink, OwnerInv, Owning
      <3>2. CASE ReleaseCheck(r)
        <4>1. MayUnlink(r)
          BY <3>1 DEF MayUnlink, LockHolder
        <4>2. QED
          BY <1>0, <3>1, <3>2, <4>1 DEF ReleaseCheck, Owning
      <3>3. CASE ReleaseUnlink(r)
        BY <3>3 DEF ReleaseUnlink, Unlink
      <3>4. QED
        BY <2>7, <3>2, <3>3 DEF Release
    <2> QED
      BY <1>4, <2>2, <2>3, <2>4, <2>5, <2>6, <2>7 DEF Launch, Execute
  <1> QED
    BY <1>1, <1>2, <1>3, <1>4 DEF Next, Recover

\* While nothing fails and nothing dies, a lock has an owner to give it back.
THEOREM LockOwned == Spec => []LockHasOwner
  <1>1. Init => LockHasOwner
    BY DEF Init, StoreInit, LockHasOwner
  <1> QED
    BY <1>1, OwnerKept, Invariance, PTL DEF Spec
=============================================================================
