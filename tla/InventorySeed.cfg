\* One crash, failed command or conflict.
SPECIFICATION Spec
CONSTANTS
  Edits = {e1, e2}
  Operators = {o1, o2}
  Seeder = Seeder
  Nothing = Nothing
  Markers = Markers
  NoMatch = NoMatch
  MaxCommits = 3
  MaxMishaps = 1
INVARIANT SeedOnlyWhenNone
CHECK_DEADLOCK FALSE
