--------------------------- MODULE MCClientSession ---------------------------
(* Instances of ClientSession for TLC.  The io threads are interchangeable.  *)
EXTENDS ClientSession

IoThreads == Permutations(Threads)
=============================================================================
