CONSTANTS
  Parts = {"ledger", "vaults", "locks", "admission", "data fees", "rivals", "miner"}
  Err = Err
  Zero = Zero
  faulty = faulty
  good = good
  h1 = h1
  h2 = h2
  n1 = n1
  n2 = n2
  panics = panics
  spoiled = spoiled
  wide = wide
SPECIFICATION PartsSpec
INVARIANTS LedgerIsTheChain AdmissionIsExact 
PROPERTY CoinsKeepTheirCovenants
CHECK_DEADLOCK FALSE
