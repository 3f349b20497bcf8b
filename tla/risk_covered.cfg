SPECIFICATION Spec
CONSTANTS
  Threads = {t1, t2}
  Prices = {1, 2, 4}
  Coefs = {1}
  Limit = 2
  MaxDay = 2
  MaxRows = 1
  NoRisk = norisk
  NoRange = norange
SYMMETRY Workers
CHECK_DEADLOCK TRUE
INVARIANT ApprovedIsCovered
