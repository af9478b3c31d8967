SPECIFICATION Spec
CONSTANTS
  Names = {n1}
  Keys = {k1}
  Users = {user1}
  Sizes = {s1, s2}
  Torn = torn
  Uploaders = {u1, u2}
  Deleters = {d1}
  Creators = {c1}
  Droppers = {x1}
  MaxParts = 1
  MaxUuid = 4
  Serial = FALSE
  Faults = {"abort", "ignored"}
SYMMETRY Symmetry
CHECK_DEADLOCK FALSE
INVARIANTS
  TypeOK
  VersionedInv
  VersionedBlobsIntact
