SPECIFICATION Spec
CONSTANTS
  Pool = {w1}
  Loop = loop
  NoThread = nobody
  Regions = {root, north}
  Root = root
  root = root
  north = north
  Files = {f, F, book}
  f = f
  F = F
  book = book
  Keys = {k, kb}
  k = k
  kb = kb
  KeyOf <- Spellings
  Uploads <- Archives
  Bundled <- FileLog
  Books <- Catalogs
  NoRecord = none
  MaxRecords = 3
CHECK_DEADLOCK TRUE
INVARIANTS TypeOK
PROPERTIES LoadedOnlyIfNew FinalKept ShelfKept
