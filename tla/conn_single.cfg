SPECIFICATION Spec
CONSTANTS
  Threads = {t1}
  MaxReads = 3
  MaxWrites = 2
  MaxUpgrades = 1
INVARIANTS HandshakeOutlived NothingForgotten NothingThrown
PROPERTIES KeepsContract
CHECK_DEADLOCK FALSE
