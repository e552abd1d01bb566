SPECIFICATION Spec
CONSTANTS
  Threads = {t1, t2}
  MaxReads = 1
  MaxWrites = 1
  MaxUpgrades = 0
INVARIANT ClosesCallBack
CHECK_DEADLOCK FALSE
