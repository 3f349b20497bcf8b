SPECIFICATION Spec
CONSTANTS
  Parts = {"writer"}

  here = here
  there = there
  other = other
  kl = kl
  kl2 = kl2
  Paths = {here, there, other}
  FileNames = {kl, kl2}
  NameOf <- Naming
  Contents = {0, 1, 2}
  Lines <- Found
  Oversized = {0}
  Importers = {i1, i2}
  Calculations = {c1}
  NoDate = nodate
  NoTx = notx
  Runs = {1, 2}
  Scan <- Scans
  MaxUploads = 2

  pattern = pattern
  t1 = t1
  t2 = t2
  FOT = FOT
  New = New
  fresh = fresh
  odd = odd
  Patterns = {pattern, fresh, odd}
  Refused = {odd}
  Tasks = {t1, t2}
  Reasons = {FOT, New}
  Seeded = {FOT}
  FreeText = freetext
  Plain = plain
  Workbook <- Book
  Admins = {a1, a2}
  Painters = {w1}
  MaxEdits = 2
  MaxImports = 1

  west = west
  Tokens = {k1}
  Workers = {r1, r2}
  Coefficients = {one}
  Regions = {west}
  Blank = blank
  SheetRegion = stated
  NoUpload = noupload
  Unset = unset
  MaxConfirms = 2

  m2 = m2
  hm2 = hm2
  g06 = g06
  g46 = g46
  TaskIds = {t1, t2}
  Codes = {g06, g46}
  Units = {m2, hm2}
  Base <- Bases
  Missing = missing
  CatalogRows <- PricedRows
  EstimateRows <- RowsOfEstimate
  RegionalCoefficients = {2}
  TkpPrices = {missing, 200}
  Section <- SectionByCode
  PriorityPrefixes = {g46}
  MaxRead = 3

  NoValue = novalue
  MetaFields = {"region"}
  MetaValues = {west}
  Folder = folder
  TaskNumbers = {t1}
  Reads <- KeyReads
  Headings <- HeadingRows
  Cells <- CellKinds
  Count = {"one"}
  Void = {"dot"}
  Amount <- Amounts
  TableRows <- BodyRows
  RowLimit = 2
  MaxSheets = 2
  MaxRows = 4

  Width = 17
  Height = 3
  Template <- EstimateTemplate
  MaxBlankRun = 3
  Workbooks <- Estimates
  AnalogTasks = {t1, t2}
  RegionRank <- Ranks
  AnalogRows <- RowAnalogs
  MaxRounds = 2
CHECK_DEADLOCK FALSE
INVARIANT
  AverageRightOfPrice
