SPECIFICATION Spec
CONSTANTS
  Path <- Files
  Line = {1, 2, 3}
  Pin <- PinnedTree
  Deps <- AllDeps
  Series <- AllSeries
  Faults = {"http", "interrupt"}
  FETCH_RETRIES = 4
  MaxRuns = 3
  ABSENT = ABSENT
  Broken = Broken
  None = None
INVARIANTS
  TypeOK
  CacheIsThePin
  PassApplies
PROPERTY AlarmIsReal
CHECK_DEADLOCK FALSE
