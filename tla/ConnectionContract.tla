-------------------------- MODULE ConnectionContract --------------------------
(***************************************************************************)
(* What TcpConnection promises the one owner that reads from it             *)
(* (src/include/xtrpg/network/TcpConnection.hpp): the order of its states,   *)
(* one answer for each read, and its end.  TcpConnection implements it       *)
(* when a single thread runs the handlers.                                  *)
(***************************************************************************)

VARIABLES
  state,    \* the ConnectionState
  reading,  \* a read waits for its answer
  holder    \* "owner": the owner uses the connection; "nobody": it has let go
            \* of it; "deleted"

vars == <<state, reading, holder>>

IsOpen == state \in {"INSECURE", "SECURE"}

Init == state = "INSECURE" /\ reading = FALSE /\ holder = "owner"

Read ==
  /\ holder = "owner" /\ ~reading
  /\ reading' = TRUE
  /\ UNCHANGED <<state, holder>>

Answer ==
  /\ reading
  /\ reading' = FALSE
  /\ UNCHANGED <<state, holder>>

Secure ==
  /\ state = "INSECURE"
  /\ state' = "SECURE"
  /\ UNCHANGED <<reading, holder>>

(* The owner, the peer or an error closes the connection. *)
StartClosing ==
  /\ IsOpen
  /\ state' = "CLOSING"
  /\ UNCHANGED <<reading, holder>>

FinishClosing ==
  /\ state = "CLOSING"
  /\ state' = "CLOSED"
  /\ UNCHANGED <<reading, holder>>

(* The owner lets go between two reads. *)
Release ==
  /\ holder = "owner" /\ ~reading
  /\ holder' = "nobody"
  /\ UNCHANGED <<state, reading>>

Delete ==
  /\ holder = "nobody" /\ state = "CLOSED"
  /\ holder' = "deleted"
  /\ UNCHANGED <<state, reading>>

Next ==
  \/ Read \/ Answer \/ Secure \/ StartClosing \/ FinishClosing \/ Release \/ Delete

(* A released connection is closed, a close ends, and a connection that is   *)
(* closed and released is deleted.                                           *)
Promises ==
  /\ WF_vars(StartClosing /\ holder = "nobody")
  /\ WF_vars(FinishClosing)
  /\ WF_vars(Delete)

Spec == Init /\ [][Next]_vars /\ Promises
=============================================================================
