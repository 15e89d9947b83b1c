SPECIFICATION FairSpec
CONSTANTS
  a = a
  b = b
  added = added
  p1 = p1
  p2 = p2
  p3 = p3
  New = New
  Torn = Torn
  None = None
  Platform = "windows"
  Pin = {1}
  Patch = {p1, p2, p3}
  Series <- OneSeries
  Edits <- Changed
  Creates <- Added
  File = {a, b}
  MaxAttempts = 2
  MaxFaults = 0
CHECK_DEADLOCK FALSE
INVARIANT EveryPatchIn
