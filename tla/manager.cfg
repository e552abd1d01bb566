SPECIFICATION Spec
CONSTANTS
  Threads = {t1, t2, t3}
  main = main
  Clients = {c1}
  Acceptors = {ipv4, ipv6}
SYMMETRY Alike
INVARIANTS TypeOK OwnedOnce KeepsListening
CHECK_DEADLOCK FALSE
