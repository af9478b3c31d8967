SPECIFICATION Spec
CONSTANTS
  a = a
  b = b
  k1 = k1
  k2 = k2
  s1 = s1
  s2 = s2
  user1 = user1
  user2 = user2
  Names = {a, b}
  Keys = {k1, k2}
  Users = {user1, user2}
  Sizes = {s1, s2}
  Torn = torn
  NoDest = nodest
  Targets = {nodest, b}
  Requesters = {q1}
  Executors = {w1}
  MaxRetry = 2
  MaxRequeues = 1
  MaxTasks = 2
  Stock <- OneStore
  FaultModes <- NoFaults
CHECK_DEADLOCK FALSE
PROPERTIES
  OwnProgress
