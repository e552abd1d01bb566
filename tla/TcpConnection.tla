---------------------------- MODULE TcpConnection ----------------------------
(***************************************************************************)
(* One TcpConnection (src/network/TcpConnection.cpp), the asio objects it   *)
(* uses and the ClientSession that owns it, run by the io threads that      *)
(* main.cpp starts.                                                         *)
(*                                                                          *)
(* asio runs a handler on any thread that is in io_context::run.  Handlers  *)
(* posted to the strand run one at a time and in order; the completion      *)
(* handlers of reads, writes, handshakes and TLS shutdowns are bound to no  *)
(* strand, so they run on any thread, next to each other and next to the    *)
(* strand.  pc[t] is the place in the code of thread t; a step ends where   *)
(* the next one reads or writes state that another thread writes.           *)
(*                                                                          *)
(* The owner is the read loop of ClientSession without its stream protocol: *)
(* what the tokens of one read make it do is any sequence of write, upgrade *)
(* and shutdown.                                                            *)
(***************************************************************************)
EXTENDS Naturals, Sequences

CONSTANTS
  Threads,      \* the io threads (main.cpp:122)
  MaxReads,     \* bound: the client's last read ends the session
  MaxWrites,    \* bound on the calls of write
  MaxUpgrades   \* bound on the calls of upgrade

ASSUME ThreadsAssumption == Threads # {}
ASSUME BoundsAssumption ==
  /\ MaxReads \in Nat \ {0}
  /\ MaxWrites \in Nat
  /\ MaxUpgrades \in Nat

VARIABLES
  state,           \* _state
  socket,          \* the descriptor, held by _tcpSocket or, once there is
                   \* an SSL stream, by that stream
  streams,         \* SSL streams emplaced so far; 0: _sslStream is nullopt
  handshaking,     \* _tlsHandshakeInProgress
  closeCallbacks,  \* _closeCallbacks
  deleted,         \* ~TcpConnection has run
  strand,          \* handlers posted to _strand, not yet run
  readOp,          \* the pending async_read_some
  handshakes,      \* the async_handshake of each stream
  tlsClosing,      \* async_shutdowns in flight
  tlsClosed,       \* async_shutdowns that ended, handler not run
  writing,         \* async_writes in flight
  failed,          \* async_writes that ended with an error, handler not run
  pc, cb, todo,    \* of each thread: place, close()'s argument, and the close
                   \* callbacks it has still to call
  onStrand,        \* the thread that runs a strand handler, if any
  stopped,         \* ClientSession::_isStopped
  released,        \* ClientSession::_isShutdown; the owner has let go
  issued,          \* calls of read
  answered,        \* calls of a read's callback
  writes, upgrades,
  fault            \* what ended the process or made it undefined

connectionVars == <<state, socket, streams, handshaking, closeCallbacks, deleted>>
operationVars == <<readOp, handshakes, tlsClosing, tlsClosed, writing, failed>>
threadVars == <<pc, cb, todo, onStrand>>
ownerVars == <<stopped, released, issued, answered, writes, upgrades>>
vars == <<connectionVars, strand, operationVars, threadVars, ownerVars, fault>>

-----------------------------------------------------------------------------
States == {"INSECURE", "SECURE", "CLOSING", "CLOSED"}
Callbacks == {"read", "delete"}
Handlers == {"upgrade", "read", "cancel", "write", "close"}
Places ==
  {"idle",
   "received", "tokens", "process", "read", "aborted",          \* the owner
   "close", "stillOpen", "push", "closing",                      \* close()
   "ended", "waiting", "join",                       \* close() of a closed one
   "handshaken", "refused", "secure",                \* the handshake handler
   "announce", "collect", "dispatch"}     \* the end of a close, its callbacks
Faults == {"none", "exception", "lost_stream", "use_after_delete", "double_delete"}

IsOpen_MissesClosing == state # "CLOSED"                           \* mutant
IsOpen == state \notin {"CLOSED", "CLOSING"}
HasStream == streams > 0

(* The object a read, write or cancel reaches for has the descriptor: the   *)
(* SSL stream when the connection is secure, else _tcpSocket, from which    *)
(* the descriptor is moved away by an upgrade.                              *)
SocketUsable == socket = "open" /\ (HasStream => state = "SECURE")

ConnectionTypes ==
  /\ state \in States
  /\ socket \in {"open", "closed"}
  /\ streams \in Nat
  /\ handshaking \in BOOLEAN
  /\ closeCallbacks \in Seq(Callbacks)
  /\ deleted \in BOOLEAN

OperationTypes ==
  /\ readOp \in {"none", "inflight", "data", "error", "bad_descriptor"}
  /\ handshakes \in [1 .. MaxUpgrades -> {"none", "inflight", "ok", "error"}]
  /\ tlsClosing \in Nat
  /\ tlsClosed \in Nat
  /\ writing \in Nat
  /\ failed \in Nat

ThreadTypes ==
  /\ pc \in [Threads -> Places]
  /\ cb \in [Threads -> Callbacks \cup {"none"}]
  /\ todo \in [Threads -> Seq(Callbacks)]
  /\ onStrand \subseteq Threads

OwnerTypes ==
  /\ stopped \in BOOLEAN
  /\ released \in BOOLEAN
  /\ issued \in Nat
  /\ answered \in Nat
  /\ writes \in Nat
  /\ upgrades \in Nat

TypeOK ==
  /\ ConnectionTypes /\ OperationTypes /\ ThreadTypes /\ OwnerTypes
  /\ strand \in Seq(Handlers)
  /\ fault \in Faults

(* One thread has accepted the connection and calls ClientSession::start.   *)
Init ==
  /\ state = "INSECURE" /\ socket = "open" /\ streams = 0
  /\ handshaking = FALSE /\ closeCallbacks = <<>> /\ deleted = FALSE
  /\ strand = <<>>
  /\ readOp = "none" /\ handshakes = [k \in 1 .. MaxUpgrades |-> "none"]
  /\ tlsClosing = 0 /\ tlsClosed = 0 /\ writing = 0 /\ failed = 0
  /\ \E t \in Threads : pc = [u \in Threads |-> IF u = t THEN "process" ELSE "idle"]
  /\ cb = [t \in Threads |-> "none"] /\ todo = [t \in Threads |-> <<>>]
  /\ onStrand = {}
  /\ stopped = FALSE /\ released = FALSE
  /\ issued = 0 /\ answered = 0 /\ writes = 0 /\ upgrades = 0
  /\ fault = "none"

-----------------------------------------------------------------------------
(* A thread at a place whose code uses the connection, or at any other.     *)
Uses(t, place) == fault = "none" /\ ~deleted /\ pc[t] = place
At(t, place) == fault = "none" /\ pc[t] = place

Go(t, place) ==
  /\ pc' = [pc EXCEPT ![t] = place]
  /\ UNCHANGED <<cb, todo, onStrand>>

(* close(callback): the caller goes on when it has returned. *)
Close(t, callback) ==
  /\ pc' = [pc EXCEPT ![t] = "close"]
  /\ cb' = [cb EXCEPT ![t] = callback]
  /\ UNCHANGED <<todo, onStrand>>

(* Back to the loop over the close callbacks, or to io_context::run. *)
Return(t, rest) ==
  /\ pc' = [pc EXCEPT ![t] = IF rest = <<>> THEN "idle" ELSE "dispatch"]
  /\ cb' = [cb EXCEPT ![t] = "none"]
  /\ todo' = [todo EXCEPT ![t] = rest]
  /\ onStrand' = IF rest = <<>> THEN onStrand \ {t} ELSE onStrand

Post(handler) == strand' = Append(strand, handler)

Fail(kind) ==
  /\ fault' = kind
  /\ UNCHANGED <<connectionVars, strand, operationVars, threadVars, ownerVars>>

(* What cancel() and close() of a descriptor do: the operations in flight   *)
(* complete with operation_aborted.                                         *)
AbortOperations ==
  /\ readOp' = IF readOp = "inflight" THEN "error" ELSE readOp
  /\ handshakes' = [k \in DOMAIN handshakes |->
                      IF handshakes[k] = "inflight" THEN "error" ELSE handshakes[k]]
  /\ tlsClosed' = tlsClosed + tlsClosing
  /\ tlsClosing' = 0
  /\ failed' = failed + writing
  /\ writing' = 0

(* A callback handed to close() is called, with rest still to be called. The *)
(* one given with a failed read is the read's own callback, with the error;  *)
(* the owner's deletes the connection.                                       *)
Call(t, callback, rest) ==
  \/ /\ callback = "read"
     /\ answered' = answered + 1
     /\ pc' = [pc EXCEPT ![t] = "aborted"]
     /\ cb' = [cb EXCEPT ![t] = "none"]
     /\ todo' = [todo EXCEPT ![t] = rest]
     /\ UNCHANGED <<connectionVars, strand, operationVars, onStrand,
                    stopped, released, issued, writes, upgrades, fault>>
  \/ /\ callback = "delete"
     /\ fault' = IF deleted THEN "double_delete" ELSE fault
     /\ deleted' = TRUE
     /\ socket' = "closed"
     /\ AbortOperations
     /\ Return(t, rest)
     /\ UNCHANGED <<state, streams, handshaking, closeCallbacks, strand, ownerVars>>

-----------------------------------------------------------------------------
(* The owner: ClientSession.                                                *)

(* shutdown(): stop(), which cancels the read the first time, then close()  *)
(* with the callback that deletes the connection.                           *)
Shutdown(t) ==
  /\ released' = TRUE
  /\ stopped' = TRUE
  /\ IF stopped THEN UNCHANGED strand ELSE Post("cancel")
  /\ Close(t, "delete")
  /\ UNCHANGED <<connectionVars, operationVars, issued, answered, writes, upgrades, fault>>

Idle(t) ==
  /\ Return(t, todo[t])
  /\ UNCHANGED <<connectionVars, strand, operationVars, ownerVars, fault>>

GiveUp_WhenRunning(t) == IF stopped THEN Idle(t) ELSE Shutdown(t)  \* mutant

(* The read callback with an error, or with data for a stopped session. *)
GiveUp(t) == IF released THEN Idle(t) ELSE Shutdown(t)

Aborted(t) == At(t, "aborted") /\ GiveUp(t)

Received(t) ==
  /\ At(t, "received")
  /\ IF stopped
     THEN GiveUp(t)
     ELSE /\ Go(t, "tokens")
          /\ UNCHANGED <<connectionVars, strand, operationVars, ownerVars, fault>>

(* The tokens of the data make the owner write, upgrade or shut down. *)
Write(t) ==
  /\ At(t, "tokens") /\ ~released /\ writes < MaxWrites
  /\ writes' = writes + 1
  /\ IF IsOpen THEN Post("write") ELSE UNCHANGED strand
  /\ UNCHANGED <<connectionVars, operationVars, threadVars,
                 stopped, released, issued, answered, upgrades, fault>>

Upgrade(t) ==
  /\ At(t, "tokens") /\ ~released /\ upgrades < MaxUpgrades
  /\ upgrades' = upgrades + 1
  /\ IF IsOpen THEN Post("upgrade") ELSE UNCHANGED strand
  /\ UNCHANGED <<connectionVars, operationVars, threadVars,
                 stopped, released, issued, answered, writes, fault>>

ShutdownOnToken(t) == At(t, "tokens") /\ ~released /\ Shutdown(t)

TokensProcessed(t) ==
  /\ At(t, "tokens") /\ issued < MaxReads
  /\ Go(t, "process")
  /\ UNCHANGED <<connectionVars, strand, operationVars, ownerVars, fault>>

(* process() returns without a word when the session has been stopped. *)
Process(t) ==
  /\ At(t, "process")
  /\ IF stopped
     THEN Idle(t)
     ELSE /\ issued' = issued + 1
          /\ Go(t, "read")
          /\ UNCHANGED <<connectionVars, strand, operationVars,
                         stopped, released, answered, writes, upgrades, fault>>

(* TcpConnection::read *)
Read(t) ==
  /\ Uses(t, "read")
  /\ IF IsOpen
     THEN /\ Post("read")
          /\ Return(t, todo[t])
          /\ UNCHANGED <<connectionVars, operationVars, ownerVars, fault>>
     ELSE Call(t, "read", todo[t])

OwnerStep(t) ==
  \/ Aborted(t) \/ Received(t) \/ Write(t) \/ Upgrade(t) \/ ShutdownOnToken(t)
  \/ TokensProcessed(t) \/ Process(t) \/ Read(t)

-----------------------------------------------------------------------------
(* close(): both checks load the state anew.                                *)

CheckClosed(t) ==
  /\ Uses(t, "close")
  /\ Go(t, IF state = "CLOSED" THEN "ended" ELSE "stillOpen")
  /\ UNCHANGED <<connectionVars, strand, operationVars, ownerVars, fault>>

CheckClosing(t) ==
  /\ Uses(t, "stillOpen")
  /\ Go(t, IF state = "CLOSING" THEN "ended" ELSE "push")
  /\ UNCHANGED <<connectionVars, strand, operationVars, ownerVars, fault>>

PushCallback_Empty(t) ==                                           \* mutant
  /\ Uses(t, "push")
  /\ closeCallbacks' = Append(closeCallbacks, cb[t])
  /\ pc' = [pc EXCEPT ![t] = "closing"]
  /\ cb' = [cb EXCEPT ![t] = "none"]
  /\ UNCHANGED <<state, socket, streams, handshaking, deleted, strand,
                 operationVars, todo, onStrand, ownerVars, fault>>
PushCallback(t) ==
  /\ Uses(t, "push")
  /\ closeCallbacks' = IF cb[t] = "none" THEN closeCallbacks
                                          ELSE Append(closeCallbacks, cb[t])
  /\ pc' = [pc EXCEPT ![t] = "closing"]
  /\ cb' = [cb EXCEPT ![t] = "none"]
  /\ UNCHANGED <<state, socket, streams, handshaking, deleted, strand,
                 operationVars, todo, onStrand, ownerVars, fault>>

StartClosing(t) ==
  /\ Uses(t, "closing")
  /\ state' = "CLOSING"
  /\ Post("close")
  /\ Return(t, todo[t])
  /\ UNCHANGED <<socket, streams, handshaking, closeCallbacks, deleted,
                 operationVars, ownerVars, fault>>

(* Closed: the callback is called at once. *)
CloseEnded(t) ==
  /\ Uses(t, "ended")
  /\ \/ /\ cb[t] = "none"
        /\ Idle(t)
     \/ /\ cb[t] # "none" /\ state = "CLOSED"
        /\ Call(t, cb[t], todo[t])
     \/ /\ cb[t] # "none" /\ state # "CLOSED"
        /\ Go(t, "waiting")
        /\ UNCHANGED <<connectionVars, strand, operationVars, ownerVars, fault>>

(* Closing: the callback waits with the others.  If the state is no longer  *)
(* CLOSING by now, it is dropped; if it is, but the others are collected     *)
(* before it joins them, nothing calls it.                                  *)
CloseWaits(t) ==
  /\ Uses(t, "waiting")
  /\ IF state = "CLOSING"
     THEN /\ Go(t, "join")
          /\ UNCHANGED <<connectionVars, strand, operationVars, ownerVars, fault>>
     ELSE Idle(t)

JoinClosing(t) ==
  /\ Uses(t, "join")
  /\ closeCallbacks' = IF cb[t] = "none" THEN closeCallbacks
                                          ELSE Append(closeCallbacks, cb[t])
  /\ Return(t, todo[t])
  /\ UNCHANGED <<state, socket, streams, handshaking, deleted, strand,
                 operationVars, ownerVars, fault>>

(* dispatchStateChange(CLOSED), whose one observer stops the session *)
AnnounceClosed(t) ==
  /\ Uses(t, "announce")
  /\ state' = "CLOSED"
  /\ stopped' = TRUE
  /\ IF stopped \/ released THEN UNCHANGED strand ELSE Post("cancel")
  /\ Go(t, "collect")
  /\ UNCHANGED <<socket, streams, handshaking, closeCallbacks, deleted, operationVars,
                 released, issued, answered, writes, upgrades, fault>>

CollectCallbacks_Copy(t) ==                                        \* mutant
  /\ Uses(t, "collect")
  /\ Return(t, closeCallbacks)
  /\ UNCHANGED <<connectionVars, strand, operationVars, ownerVars, fault>>

(* dispatchCloseCallbacks() moves the vector away, then calls each. *)
CollectCallbacks(t) ==
  /\ Uses(t, "collect")
  /\ closeCallbacks' = <<>>
  /\ Return(t, closeCallbacks)
  /\ UNCHANGED <<state, socket, streams, handshaking, deleted, strand,
                 operationVars, ownerVars, fault>>

CallNext(t) ==
  /\ At(t, "dispatch") /\ todo[t] # <<>>
  /\ Call(t, Head(todo[t]), Tail(todo[t]))

CloseStep(t) ==
  \/ CheckClosed(t) \/ CheckClosing(t) \/ PushCallback(t) \/ StartClosing(t)
  \/ CloseEnded(t) \/ CloseWaits(t) \/ JoinClosing(t)
  \/ AnnounceClosed(t) \/ CollectCallbacks(t) \/ CallNext(t)

-----------------------------------------------------------------------------
(* Handlers on the strand: thread t, back in io_context::run, takes the next *)
(* one when no other thread runs one.                                       *)
TakeFromStrand(t, handler) ==
  /\ Uses(t, "idle") /\ onStrand = {}
  /\ strand # <<>> /\ Head(strand) = handler
  /\ strand' = Tail(strand)

(* A second upgrade, with the handshake of the first in flight, destroys its *)
(* stream, and the descriptor with it.                                       *)
StrandUpgrade(t) ==
  /\ TakeFromStrand(t, "upgrade")
  /\ \/ /\ ~IsOpen \/ state = "SECURE"
        /\ UNCHANGED <<socket, streams, handshaking, operationVars, fault>>
     \/ /\ IsOpen /\ state # "SECURE" /\ ~HasStream
        /\ streams' = 1
        /\ handshaking' = TRUE
        /\ handshakes' = [handshakes EXCEPT ![1] =
                            IF socket = "open" THEN "inflight" ELSE "error"]
        /\ UNCHANGED <<socket, readOp, tlsClosing, tlsClosed, writing, failed, fault>>
     \/ /\ IsOpen /\ state # "SECURE" /\ HasStream
        /\ streams' = streams + 1
        /\ socket' = "closed"
        /\ handshaking' = TRUE
        /\ handshakes' = [handshakes EXCEPT ![streams + 1] = "error"]
        /\ fault' = IF \E k \in DOMAIN handshakes : handshakes[k] = "inflight"
                    THEN "lost_stream" ELSE fault
        /\ failed' = failed + writing /\ writing' = 0
        /\ UNCHANGED <<readOp, tlsClosing, tlsClosed>>
  /\ UNCHANGED <<state, closeCallbacks, deleted, threadVars, ownerVars>>

StrandRead(t) ==
  /\ TakeFromStrand(t, "read")
  /\ IF IsOpen
     THEN /\ readOp' = IF SocketUsable THEN "inflight" ELSE "bad_descriptor"
          /\ UNCHANGED <<pc, cb, todo, onStrand, answered>>
     ELSE /\ answered' = answered + 1
          /\ onStrand' = {t}
          /\ pc' = [pc EXCEPT ![t] = "aborted"]
          /\ UNCHANGED <<readOp, cb, todo>>
  /\ UNCHANGED <<connectionVars, handshakes, tlsClosing, tlsClosed, writing, failed,
                 stopped, released, issued, writes, upgrades, fault>>

(* cancel() throws when its socket has no descriptor; nothing catches it.   *)
StrandCancel(t) ==
  /\ TakeFromStrand(t, "cancel")
  /\ \/ ~IsOpen /\ UNCHANGED <<operationVars, fault>>
     \/ IsOpen /\ SocketUsable /\ AbortOperations /\ UNCHANGED fault
     \/ IsOpen /\ ~SocketUsable /\ fault' = "exception" /\ UNCHANGED operationVars
  /\ UNCHANGED <<connectionVars, threadVars, ownerVars>>

StrandWrite(t) ==
  /\ TakeFromStrand(t, "write")
  /\ writing' = IF IsOpen /\ SocketUsable THEN writing + 1 ELSE writing
  /\ failed' = IF IsOpen /\ ~SocketUsable THEN failed + 1 ELSE failed
  /\ UNCHANGED <<connectionVars, readOp, handshakes, tlsClosing, tlsClosed, threadVars, ownerVars, fault>>

GateClosed_Never == FALSE                                          \* mutant

(* A handshake in flight is only cancelled: its handler ends the close.     *)
GateClosed == handshaking /\ HasStream

StrandClose(t) ==
  /\ TakeFromStrand(t, "close")
  /\ \/ /\ GateClosed
        /\ IF socket = "open" THEN AbortOperations /\ UNCHANGED fault
                              ELSE fault' = "exception" /\ UNCHANGED operationVars
        /\ UNCHANGED <<socket, threadVars>>
     \/ /\ ~GateClosed /\ state = "SECURE" /\ HasStream
        /\ IF socket = "open"
           THEN /\ readOp' = IF readOp = "inflight" THEN "error" ELSE readOp
                /\ failed' = failed + writing /\ writing' = 0
                /\ tlsClosed' = tlsClosed + tlsClosing /\ tlsClosing' = 1
                /\ UNCHANGED <<handshakes, fault>>
           ELSE fault' = "exception" /\ UNCHANGED operationVars
        /\ UNCHANGED <<socket, threadVars>>
     \/ /\ ~GateClosed /\ ~(state = "SECURE" /\ HasStream)
        /\ IF HasStream   \* _tcpSocket holds nothing any more
           THEN UNCHANGED <<socket, operationVars>>
           ELSE socket' = "closed" /\ AbortOperations
        /\ onStrand' = {t}
        /\ pc' = [pc EXCEPT ![t] = "announce"]
        /\ UNCHANGED <<cb, todo, fault>>
  /\ UNCHANGED <<state, streams, handshaking, closeCallbacks, deleted, ownerVars>>

StrandStep(t) ==
  \/ StrandUpgrade(t) \/ StrandRead(t) \/ StrandCancel(t) \/ StrandWrite(t) \/ StrandClose(t)

-----------------------------------------------------------------------------
(* Completion handlers: any thread in io_context::run takes any.            *)

HandleRead(t) ==
  /\ readOp' = "none"
  /\ \/ /\ At(t, "idle") /\ readOp = "data"
        /\ answered' = answered + 1
        /\ Go(t, "received")
     \/ /\ Uses(t, "idle") /\ readOp \in {"error", "bad_descriptor"}
        /\ Close(t, "read")
        /\ UNCHANGED answered
  /\ UNCHANGED <<connectionVars, strand, handshakes, tlsClosing, tlsClosed, writing, failed,
                 stopped, released, issued, writes, upgrades, fault>>

HandleFailedWrite(t) ==
  /\ Uses(t, "idle") /\ failed > 0
  /\ failed' = failed - 1
  /\ Close(t, "none")
  /\ UNCHANGED <<connectionVars, strand, readOp, handshakes, tlsClosing, tlsClosed, writing,
                 ownerVars, fault>>

(* The handshake handler clears the flag, then looks at the state, then     *)
(* makes the connection secure, in three steps.                             *)
HandleHandshake(t) ==
  /\ Uses(t, "idle")
  /\ \E k \in DOMAIN handshakes :
       /\ handshakes[k] \in {"ok", "error"}
       /\ handshakes' = [handshakes EXCEPT ![k] = "none"]
       /\ Go(t, IF handshakes[k] = "ok" THEN "handshaken" ELSE "refused")
  /\ handshaking' = FALSE
  /\ UNCHANGED <<state, socket, streams, closeCallbacks, deleted, strand,
                 readOp, tlsClosing, tlsClosed, writing, failed, ownerVars, fault>>

HandshakeEnded_NotClosing(t) ==                                    \* mutant
  /\ Uses(t, pc[t])
  /\ \/ pc[t] = "refused" /\ Close(t, "none")
     \/ pc[t] = "handshaken" /\ Go(t, "secure")
  /\ UNCHANGED <<connectionVars, strand, operationVars, ownerVars, fault>>

HandshakeEnded(t) ==
  /\ Uses(t, pc[t]) /\ pc[t] \in {"handshaken", "refused"}
  /\ \/ /\ state = "CLOSING"
        /\ socket' = "closed"
        /\ AbortOperations
        /\ Go(t, "announce")
     \/ /\ state # "CLOSING" /\ pc[t] = "refused"
        /\ Close(t, "none")
        /\ UNCHANGED <<socket, operationVars>>
     \/ /\ state # "CLOSING" /\ pc[t] = "handshaken"
        /\ Go(t, "secure")
        /\ UNCHANGED <<socket, operationVars>>
  /\ UNCHANGED <<state, streams, handshaking, closeCallbacks, deleted, strand, ownerVars, fault>>

BecomeSecure(t) ==
  /\ Uses(t, "secure")
  /\ state' = "SECURE"
  /\ Return(t, todo[t])
  /\ UNCHANGED <<socket, streams, handshaking, closeCallbacks, deleted, strand,
                 operationVars, ownerVars, fault>>

(* shutdown() of a socket that is not connected throws: the descriptor is   *)
(* closed, or the peer has reset the connection.                            *)
HandleTlsShutdown(t) ==
  /\ Uses(t, "idle") /\ tlsClosed > 0
  /\ \/ Fail("exception")
     \/ /\ socket = "open"
        /\ socket' = "closed"
        /\ readOp' = IF readOp = "inflight" THEN "error" ELSE readOp
        /\ failed' = failed + writing /\ writing' = 0
        /\ tlsClosed' = tlsClosed + tlsClosing - 1 /\ tlsClosing' = 0
        /\ Go(t, "announce")
        /\ UNCHANGED <<state, streams, handshaking, closeCallbacks, deleted, strand,
                       handshakes, ownerVars, fault>>

(* Every other handler and place uses an object that is gone.               *)
UseAfterDelete(t) ==
  /\ fault = "none" /\ deleted
  /\ \/ pc[t] \notin {"idle", "received", "tokens", "process", "aborted", "dispatch"}
     \/ /\ pc[t] = "idle"
        /\ \/ strand # <<>> /\ onStrand = {}
           \/ readOp \in {"error", "bad_descriptor"} \/ failed > 0 \/ tlsClosed > 0
           \/ \E k \in DOMAIN handshakes : handshakes[k] \in {"ok", "error"}
  /\ Fail("use_after_delete")

HandlerStep(t) ==
  \/ HandleRead(t) \/ HandleFailedWrite(t) \/ HandleHandshake(t) \/ HandshakeEnded(t)
  \/ BecomeSecure(t) \/ HandleTlsShutdown(t) \/ UseAfterDelete(t)

ThreadStep(t) == OwnerStep(t) \/ CloseStep(t) \/ StrandStep(t) \/ HandlerStep(t)

-----------------------------------------------------------------------------
(* The network, and the client at its other end: an operation in flight     *)
(* ends well or with an error, at any time or never.                        *)

ReadEnds ==
  /\ readOp = "inflight"
  /\ readOp' \in {"data", "error"}
  /\ UNCHANGED <<handshakes, tlsClosing, tlsClosed, writing, failed>>

(* The handler of a write that ends well does nothing. *)
WriteEnds ==
  /\ writing > 0
  /\ writing' = writing - 1
  /\ failed' \in {failed, failed + 1}
  /\ UNCHANGED <<readOp, handshakes, tlsClosing, tlsClosed>>

HandshakeEnds ==
  /\ \E k \in DOMAIN handshakes :
       /\ handshakes[k] = "inflight"
       /\ \E result \in {"ok", "error"} :
            handshakes' = [handshakes EXCEPT ![k] = result]
  /\ UNCHANGED <<readOp, tlsClosing, tlsClosed, writing, failed>>

TlsShutdownEnds ==
  /\ tlsClosing > 0
  /\ tlsClosing' = tlsClosing - 1
  /\ tlsClosed' = tlsClosed + 1
  /\ UNCHANGED <<readOp, handshakes, writing, failed>>

NetworkStep ==
  /\ fault = "none"
  /\ ReadEnds \/ WriteEnds \/ HandshakeEnds \/ TlsShutdownEnds
  /\ UNCHANGED <<connectionVars, strand, threadVars, ownerVars, fault>>

Next == NetworkStep \/ \E t \in Threads : ThreadStep(t)

(* A thread in io_context::run keeps running handlers while there are any;  *)
(* nothing is assumed of the network or of the client.                      *)
Fairness == \A t \in Threads : WF_vars(ThreadStep(t))

Spec == Init /\ [][Next]_vars /\ Fairness
-----------------------------------------------------------------------------
(* Properties, for any number of threads.                                   *)

(* Every call of read has at most one answer, whatever closes the           *)
(* connection meanwhile: its callback is never called twice, and no second   *)
(* read is issued while one is unanswered (TcpConnection.cpp:58-116).        *)
AnsweredAtMostOnce == answered \in {issued - 1, issued}

(* The connection is never deleted twice: however many threads close it,     *)
(* the owner's callback is run once (TcpConnection.cpp:7-14, 160-168).       *)
NeverDeletedTwice == fault # "double_delete"

(* No close deletes the connection while its handshake is pending: the       *)
(* handshake's handler finds it (the gate of TcpConnection.cpp:179-182).     *)
HandshakeOutlived ==
  deleted => \A k \in DOMAIN handshakes : handshakes[k] = "none"

(* Properties for one thread.                                               *)

(* When nothing is left to run and nothing is pending, the connection has   *)
(* been deleted: no session is left without a read to wake it, and the       *)
(* callback of no read and no close is lost (TcpConnection.cpp:160-205,      *)
(* ClientSession.cpp:77-94).                                                 *)
Quiet ==
  /\ \A t \in Threads : pc[t] = "idle"
  /\ strand = <<>> /\ readOp = "none"
  /\ writing + failed + tlsClosing + tlsClosed = 0
  /\ \A k \in DOMAIN handshakes : handshakes[k] = "none"
NothingForgotten == Quiet /\ fault = "none" => deleted

(* cancel() and shutdown(), which throw for a socket without a descriptor,   *)
(* are never called on one, so that no exception leaves io_context::run      *)
(* (TcpConnection.cpp:118-128, 179-191).                                     *)
NothingThrown == fault # "exception"

(* The connection keeps the contract of ConnectionContract: its states come  *)
(* in order, each read is answered once, and what is released gets closed    *)
(* and deleted even if the client does nothing more.                         *)
Contract == INSTANCE ConnectionContract WITH
  state <- state,
  reading <- issued # answered,
  holder <- IF deleted THEN "deleted" ELSE IF released THEN "nobody" ELSE "owner"
KeepsContract == Contract!Spec

-----------------------------------------------------------------------------
(* The invariant behind AnsweredAtMostOnce and NeverDeletedTwice: a read and  *)
(* the owner's delete callback are in at most one place at a time, on their   *)
(* way from the call that starts them to the call that ends them.             *)

Has(s, x) == \E i \in 1 .. Len(s) : s[i] = x
Once(s, x) == \A i, j \in 1 .. Len(s) : s[i] = x /\ s[j] = x => i = j

InThread(t, c) == cb[t] = c \/ Has(todo[t], c)

KeptOnce(c) ==
  /\ Once(closeCallbacks, c)
  /\ \A t \in Threads : Once(todo[t], c) /\ ~(cb[t] = c /\ Has(todo[t], c))
  /\ \A t, u \in Threads : InThread(t, c) /\ InThread(u, c) => t = u
  /\ Has(closeCallbacks, c) => \A t \in Threads : ~InThread(t, c)

(* Thread t is in the code of the owner, whose last read is answered, or has *)
(* the one the owner has issued.                                             *)
OwnerRuns(t) == pc[t] \in {"received", "tokens", "process", "aborted"}
HasRead(t) == pc[t] = "read" \/ InThread(t, "read")

ReadOnce ==
  /\ KeptOnce("read")
  /\ Once(strand, "read")
  /\ \A t \in Threads : ~(InThread(t, "read") /\ (pc[t] = "read" \/ OwnerRuns(t)))
  /\ \A t, u \in Threads :
       (OwnerRuns(t) \/ HasRead(t)) /\ (OwnerRuns(u) \/ HasRead(u)) => t = u
  /\ Has(strand, "read") => readOp = "none" /\ ~Has(closeCallbacks, "read")
  /\ readOp # "none" => ~Has(closeCallbacks, "read")
  /\ Has(strand, "read") \/ readOp # "none" \/ Has(closeCallbacks, "read") =>
       /\ \A t \in Threads : ~(OwnerRuns(t) \/ HasRead(t))
       /\ issued = answered + 1
  /\ \A t \in Threads : /\ HasRead(t) => issued = answered + 1
                        /\ OwnerRuns(t) => issued = answered
  /\ AnsweredAtMostOnce

DeleteOnce ==
  /\ KeptOnce("delete")
  /\ deleted \/ Has(closeCallbacks, "delete") => released
  /\ \A t \in Threads : InThread(t, "delete") => released
  /\ deleted => /\ ~Has(closeCallbacks, "delete")
                /\ \A t \in Threads : ~InThread(t, "delete")
  /\ NeverDeletedTwice

Inv == TypeOK /\ ReadOnce /\ DeleteOnce

(* Properties the code does not have.                                        *)

(* A closing connection never opens again: CLOSING is left for CLOSED only   *)
(* and CLOSED never, the strand serializing the state's changes              *)
(* (TcpConnection.hpp:159-163).                                              *)
NeverReopens ==
  [][/\ state = "CLOSED" => state' = "CLOSED"
     /\ state = "CLOSING" => state' \in {"CLOSING", "CLOSED"}]_vars

(* Closes cannot race against each other (TcpConnection.hpp:159-163): when   *)
(* nothing is left to run, what was handed to close() has been called, so    *)
(* every read is answered and what the owner has let go is deleted.          *)
ClosesCallBack ==
  Quiet /\ fault = "none" => answered = issued /\ (released => deleted)

(* A read on an open connection reaches for the object that holds the        *)
(* descriptor, also during an upgrade (TcpConnection.hpp:172-177).           *)
ReadFindsDescriptor == readOp # "bad_descriptor"

(* cancelRead() with no read pending does nothing: its handler, too, finds   *)
(* the connection (TcpConnection.hpp:67).                                    *)
CancelFindsConnection == deleted /\ strand # <<>> => Head(strand) # "cancel"
=============================================================================
