SPECIFICATION FairSpec
CONSTANTS
  a = a
  b = b
  x = x
  y = y
  z = z
  u = u
  v = v
  n = n
  Workers = {w1, w2}
  Editions <- OneEdit
  LaterEditions <- SomeLater
  Numbers = {1, 2}
  Categories = {x, y, z}
  Slugs = {x, y}
  SlugOf <- Slug
  SortedAt <- Alphabet
  Files = {a, b}
  Urls = {u, v, n}
  Untitled = {n}
  Blank = Blank
  Unreadable = Unreadable
  NoTable = NoTable
  Absent = Absent
  ExpectedPapers = 2
  ExpectedCategories = 2
  MaxEdits = 1
  MaxCrashes = 1
INVARIANTS
  TypeOK
  CleanImportIsConsistent
  NoOrphanRows
  RowsAgreeUnlessMoved
  FinishedImportIsUpToDate
PROPERTIES
  ReimportKeepsUpToDate
  StoreConverges
CHECK_DEADLOCK FALSE
