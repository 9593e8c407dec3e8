CONSTANTS
  Parts = {"wire", "witness", "body", "undo", "snapshot"}
  Err = Err
  Zero = Zero
  faulty = faulty
  good = good
  h1 = h1
  h2 = h2
  n1 = n1
  n2 = n2
  panics = panics
  spoiled = spoiled
  wide = wide
SPECIFICATION PartsSpec
SYMMETRY BlockSymmetry
PROPERTIES WireAndBodyAreExact RecordsAreTrue
CHECK_DEADLOCK FALSE
