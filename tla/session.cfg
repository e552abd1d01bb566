SPECIFICATION SessionSpec
CONSTANTS
  Threads = {t1, t2}
  MaxReads = 3
  MaxWrites = 8
  MaxUpgrades = 2
  MaxTokens = 2
SYMMETRY IoThreads
INVARIANTS SessionTypeOK ProceedBeforeTls WireIsStream
CHECK_DEADLOCK FALSE
