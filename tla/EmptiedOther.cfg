SPECIFICATION SystemSpec
CONSTANTS
  Names = {n1}
  Keys = {k1}
  Users = {user1, user2}
  Sizes = {s1, s2}
  Torn = torn
  Uploaders = {u1}
  Deleters = {}
  Creators = {c1}
  Droppers = {x1}
  MaxParts = 1
  MaxUuid = 4
  Serial = FALSE
  Faults = {}
  NoDest = nodest
  Targets = {nodest}
  Requesters = {q1}
  Executors = {w1}
  MaxRetry = 1
  MaxRequeues = 1
  MaxTasks = 1
  FaultModes <- NoFaults
CHECK_DEADLOCK FALSE
PROPERTIES
  EmptiesOwnBucket
