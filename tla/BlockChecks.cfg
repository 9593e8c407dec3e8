CONSTANTS
  Parts = {"paths", "signatures", "workers", "data sets", "batches", "forks",
           "headers", "rotation", "agreement", "bindings"}
  Err = Err
  Zero = Zero
  faulty = faulty
  good = good
  h1 = h1
  h2 = h2
  n1 = n1
  n2 = n2
  panics = panics
  spoiled = spoiled
  wide = wide
SPECIFICATION PartsSpec
INVARIANTS ValidationPathsAgree SchedulesAreSound
CHECK_DEADLOCK FALSE
