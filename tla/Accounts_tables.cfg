SPECIFICATION TablesSpec
CONSTANTS
  ann = ann
  annie = annie
  i1 = i1
  i2 = i2
  i3 = i3
  t1 = t1
  t2 = t2
  t3 = t3
  one = one
  two = two
  None = None
  People = {ann, annie}
  Unlucky = {annie}
  Chosen = {"ann"}
  BaseName <- SameBase
  ShortName <- SameShort
  FullName <- OwnFull
  Ids = {i1, i2, i3}
  Tokens = {t1, t2, t3}
  Requests = {one, two}
  MaxSecond = 2
SYMMETRY DrawnSymmetry
INVARIANTS TypeOK CookiesAreSessions
PROPERTIES SpentStaysSpent GoogleFindsAName
CHECK_DEADLOCK FALSE
