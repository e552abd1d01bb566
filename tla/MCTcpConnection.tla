--------------------------- MODULE MCTcpConnection ---------------------------
(* Instances of TcpConnection for TLC.  The io threads are interchangeable.  *)
EXTENDS TcpConnection, TLC

IoThreads == Permutations(Threads)
=============================================================================
