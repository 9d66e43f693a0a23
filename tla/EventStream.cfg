\* Two viewers, three events, one crash and one broken connection; no
\* symmetry, which is unsound for liveness.
SPECIFICATION FairSpec
CONSTANTS
  Viewers = {v1, v2}
  MaxEvents = 3
  MaxCrashes = 1
  MaxCuts = 1
INVARIANTS
  TypeOK
  PaneIsPrefix
  LateViewerSeesAll
PROPERTIES
  EventsArrive
  StreamsEnd
\* The run may be over and no viewer there.
CHECK_DEADLOCK FALSE
