\* One crash and nothing else goes wrong.
SPECIFICATION Spec
CONSTANTS
  Runs = {r1, r2}
  NoLock = NoLock
  EmptyLock = EmptyLock
  MaxCrashes = 1
  MaxFaults = 0
INVARIANT NoStaleLock
CHECK_DEADLOCK FALSE
