SPECIFICATION Spec
CONSTANTS
  Path <- Files
  Line = {1, 2, 3}
  Pin <- PinnedTree
  Deps <- AllDeps
  Series <- AllSeries
  Faults = {}
  FETCH_RETRIES = 4
  MaxRuns = 1
  ABSENT = ABSENT
  Broken = Broken
  None = None
INVARIANT ValidatedAsBuilt
CHECK_DEADLOCK FALSE
