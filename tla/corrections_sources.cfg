SPECIFICATION Spec
CONSTANTS
  Pool = {w1}
  Loop = loop
  NoThread = nobody
  Sources = {main, zip}
  Idents = {i1}
  Values = {v1, v2}
  i1 = i1
  i2 = i2
  v1 = v1
  v2 = v2
  Keep = keep
  NoRow = gone
  Edits <- ValueEdits
  SeedList <- NoSeeds
  MaxItems = 2
  MaxRequests = 1
  MaxBatch = 1
CHECK_DEADLOCK TRUE
INVARIANT OverlaySameSource
