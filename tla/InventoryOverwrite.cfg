\* Nothing goes wrong: no crash, no failed command, no conflict.
SPECIFICATION Spec
CONSTANTS
  Edits = {e1, e2}
  Operators = {o1, o2}
  Seeder = Seeder
  Nothing = Nothing
  Markers = Markers
  NoMatch = NoMatch
  MaxCommits = 3
  MaxMishaps = 0
PROPERTY UnseenNeverOverwritten
CHECK_DEADLOCK FALSE
