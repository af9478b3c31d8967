SPECIFICATION Spec
CONSTANTS
  Names = {n1}
  Keys = {k1}
  Users = {user1}
  Sizes = {s1, s2}
  Torn = torn
  Uploaders = {u1}
  Deleters = {d1, d2}
  Creators = {c1, c2}
  Droppers = {}
  MaxParts = 2
  MaxUuid = 5
  Serial = FALSE
  Faults = {"abort"}
SYMMETRY Symmetry
CHECK_DEADLOCK FALSE
INVARIANTS
  NoForeignContent
PROPERTIES
  Refines
