\* Two launch requests, two crashes, two failed operations.  No symmetry: it is
\* unsound for liveness.
SPECIFICATION FairSpec
CONSTANTS
  Runs = {r1, r2}
  NoLock = NoLock
  EmptyLock = EmptyLock
  MaxCrashes = 2
  MaxFaults = 2
INVARIANTS
  TypeOK
  OneRunExecutes
  UnfinishedHoldsLock
  OrphansAreClosed
  SuccessIsEarned
  CancelledWasAsked
  RecordHasItsInventory
  LockHasOwner
PROPERTIES
  VerdictIsFinal
  ImplementsLifecycle
  CancelStops
  RestartServes
  UnfinishedSettles
\* Every launch request may be spent and the process idle.
CHECK_DEADLOCK FALSE
