SPECIFICATION Spec
CONSTANTS
  Threads = {t1}
  main = main
  Clients = {c1, c2}
  Acceptors = {ipv4}
INVARIANTS ReleasesEverything
PROPERTIES UsesByContract ServerExits
CHECK_DEADLOCK FALSE
