SPECIFICATION FairSpec
CONSTANTS
  t1 = t1
  t2 = t2
  g1 = g1
  g2 = g2
  s1 = s1
  s2 = s2
  c1 = c1
  c2 = c2
  i1 = i1
  i2 = i2
  a = a
  b = b
  Null = Null
  Malformed = Malformed
  NoThread = NoThread
  None = None
  Thread = {t1, t2}
  Secret = {s1, s2}
  Collection = {c1, c2}
  Id = {i1}
  Version = {1, 2}
  Body = {a, b}
  MaxBatch = 3
  Group = {g1, g2}
  Request <- Requests
  Faults = {"sqlite", "crash", "disconnect"}
INVARIANTS
  TypeOK
  ToldIsKept
  ConflictsStand
  NoGapBehindCursor
  SeqNumbers
  Authorised
PROPERTIES
  ChangesVisible
  Implements
  LockReleased
