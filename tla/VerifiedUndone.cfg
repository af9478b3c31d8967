SPECIFICATION Spec
CONSTANTS
  Emails = {e1}
  Names = {n1}
  Requests = {r1, r2}
  MaxFresh = 3
SYMMETRY Symmetry
CHECK_DEADLOCK FALSE
PROPERTIES
  VerifiedStays
