SPECIFICATION Spec
CONSTANTS
  Names = {n1}
  Keys = {k1}
  Users = {user1}
  Sizes = {s1}
  Torn = torn
  Uploaders = {u1}
  Deleters = {}
  Creators = {c1}
  Droppers = {x1}
  MaxParts = 1
  MaxUuid = 8
  Serial = FALSE
  Faults = {}
SYMMETRY Symmetry
CHECK_DEADLOCK FALSE
PROPERTIES
  DropOnlyEmpty
