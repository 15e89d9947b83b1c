SPECIFICATION FairSpec
CONSTANTS
  a = a
  b = b
  added = added
  p1 = p1
  p2 = p2
  p3 = p3
  New = New
  Torn = Torn
  None = None
  Platform = "macos"
  Pin = {1, 2}
  Patch = {p1, p2, p3}
  Series <- AllSeries
  Edits <- Changed
  Creates <- Added
  File = {a, b}
  MaxAttempts = 3
  MaxFaults = 2
CHECK_DEADLOCK FALSE
INVARIANT PackageIsThePin
