SPECIFICATION SystemSpec
CONSTANTS
  Names = {n1}
  Keys = {k1, k2}
  Users = {user1}
  Sizes = {s1, s2}
  Torn = torn
  Uploaders = {u1}
  Deleters = {d1}
  Creators = {c1}
  Droppers = {}
  MaxParts = 1
  MaxUuid = 5
  Serial = FALSE
  Faults = {}
  NoDest = nodest
  Targets = {nodest}
  Requesters = {q1}
  Executors = {w1}
  MaxRetry = 1
  MaxRequeues = 1
  MaxTasks = 1
  FaultModes <- Modes
SYMMETRY Symmetry
CHECK_DEADLOCK FALSE
INVARIANTS
  PlainBlobsUnlessCrossed
  SomeLatestOrEmptying
  VersionedBlobsIntact
  NoForeignContent
PROPERTIES
  Refines
