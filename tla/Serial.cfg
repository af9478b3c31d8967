SPECIFICATION Spec
CONSTANTS
  Names = {n1}
  Keys = {k1, k2}
  Users = {user1}
  Sizes = {s1, s2}
  Torn = torn
  Uploaders = {u1}
  Deleters = {d1}
  Creators = {c1}
  Droppers = {x1}
  MaxParts = 2
  MaxUuid = 6
  Serial = TRUE
  Faults = {}
SYMMETRY Symmetry
CHECK_DEADLOCK FALSE
INVARIANTS
  GetReturnsNewest
  AtMostOneLatest
  PlainFilesHaveRows
PROPERTIES
  Refines
