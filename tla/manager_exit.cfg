SPECIFICATION Spec
CONSTANTS
  Threads = {t1, t2}
  main = main
  Clients = {c1}
  Acceptors = {ipv4}
INVARIANT ConnectionOutlivesRead
CHECK_DEADLOCK FALSE
