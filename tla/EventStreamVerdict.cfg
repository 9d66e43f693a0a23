\* Nothing goes wrong: no crash and no broken connection.
SPECIFICATION Spec
CONSTANTS
  Viewers = {v1}
  MaxEvents = 3
  MaxCrashes = 0
  MaxCuts = 0
INVARIANT OnePerTaskEvent
CHECK_DEADLOCK FALSE
