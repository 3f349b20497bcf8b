SPECIFICATION Spec
CONSTANTS
  Threads = {t1}
  Prices = {1, 2, 4}
  Coefs = {2}
  Limit = 2
  MaxDay = 2
  MaxRows = 1
  NoRisk = norisk
  NoRange = norange
SYMMETRY Workers
CHECK_DEADLOCK TRUE
PROPERTY ReopenedForOutliers
