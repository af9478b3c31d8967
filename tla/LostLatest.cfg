SPECIFICATION Spec
CONSTANTS
  Names = {n1}
  Keys = {k1}
  Users = {user1}
  Sizes = {s1}
  Torn = torn
  Uploaders = {u1}
  Deleters = {d1}
  Creators = {c1}
  Droppers = {}
  MaxParts = 1
  MaxUuid = 8
  Serial = TRUE
  Faults = {"abort"}
SYMMETRY Symmetry
CHECK_DEADLOCK FALSE
INVARIANTS
  SomeLatest
