\* Two operators, two edits, a history of three commits, or of two with one
\* crash, failed command or conflict.
SPECIFICATION Spec
CONSTANTS
  Edits = {e1, e2}
  Operators = {o1, o2}
  Seeder = Seeder
  Nothing = Nothing
  Markers = Markers
  NoMatch = NoMatch
  MaxCommits = 3
  MaxMishaps = 1
SYMMETRY Symmetry
INVARIANTS
  TypeOK
  SettledMeansCommitted
  AnswerIsOwnCommit
  FrozenIsRecorded
PROPERTIES
  NoUnseenOverwrite
  ImplementsHistory
\* The history may be full and every operator idle.
CHECK_DEADLOCK FALSE
