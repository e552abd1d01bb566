---------------------- MODULE MCClientConnectionManager ----------------------
(* Instances of ClientConnectionManager for TLC.  The io threads, clients and *)
(* acceptors are each interchangeable.                                       *)
EXTENDS ClientConnectionManager, TLC

Alike == Permutations(Threads) \cup Permutations(Clients) \cup Permutations(Acceptors)
=============================================================================
