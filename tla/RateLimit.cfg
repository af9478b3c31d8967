SPECIFICATION Spec
CONSTANTS
  Requests = {r1, r2, r3}
  Limit = 2
  Window = 3
  MaxCount = 4
INVARIANTS
  TypeOK
  ExpireIsOwn
  TwiceTheLimit
PROPERTIES
  AdmittedUnlessLost
