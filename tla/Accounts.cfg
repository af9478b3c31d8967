SPECIFICATION Spec
CONSTANTS
  Emails = {e1, e2}
  Names = {n1}
  Requests = {r1, r2, r3}
  MaxFresh = 5
SYMMETRY Symmetry
CHECK_DEADLOCK FALSE
INVARIANTS
  TypeOK
  RevokedOpensNothing
  ActsForMaker
