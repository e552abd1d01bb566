SPECIFICATION Spec
CONSTANTS
  Threads = {t1, t2, t3}
  MaxReads = 3
  MaxWrites = 2
  MaxUpgrades = 2
SYMMETRY IoThreads
INVARIANTS TypeOK AnsweredAtMostOnce NeverDeletedTwice Inv
CHECK_DEADLOCK FALSE
