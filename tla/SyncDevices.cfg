SPECIFICATION FairSpec
CONSTANTS
  d1 = d1
  d2 = d2
  c1 = c1
  c2 = c2
  i1 = i1
  group_id = group_id
  auth_hash_of_keys = auth_hash_of_keys
  None = None
  Device = {d1, d2}
  Collection = {c1, c2}
  Id = {i1}
  Viewed = {c1}
  MaxEdits = 2
  MaxLosses = 1
INVARIANTS
  TypeOK
  NothingMissed
  NoSplit
  RowsOpen
PROPERTIES
  StoreSteps
  EditsStored
  Converges
