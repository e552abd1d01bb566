SPECIFICATION SessionSpec
CONSTANTS
  Threads = {t1}
  MaxReads = 2
  MaxWrites = 4
  MaxUpgrades = 1
  MaxTokens = 2
PROPERTY ErrorsReachTheClient
CHECK_DEADLOCK FALSE
