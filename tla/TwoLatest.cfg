SPECIFICATION Spec
CONSTANTS
  Names = {n1}
  Keys = {k1}
  Users = {user1}
  Sizes = {s1, s2}
  Torn = torn
  Uploaders = {u1, u2}
  Deleters = {}
  Creators = {c1}
  Droppers = {}
  MaxParts = 1
  MaxUuid = 8
  Serial = FALSE
  Faults = {}
SYMMETRY Symmetry
CHECK_DEADLOCK FALSE
INVARIANTS
  AtMostOneLatest
