SPECIFICATION FairSpec
CONSTANTS
  Pool = {w1, w2}
  Loop = loop
  NoThread = nobody
  Sources = {main}
  Idents = {i1}
  Values = {v1}
  i1 = i1
  i2 = i2
  v1 = v1
  v2 = v2
  Keep = keep
  NoRow = gone
  Edits <- ValueEdits
  SeedList <- OneSeed
  MaxItems = 1
  MaxRequests = 1
  MaxBatch = 1
CHECK_DEADLOCK TRUE
INVARIANTS TypeOK StatusIsLastDecision SeedOnce
PROPERTY HandlersEnd
