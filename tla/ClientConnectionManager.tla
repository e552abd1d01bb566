----------------------- MODULE ClientConnectionManager -----------------------
(***************************************************************************)
(* The server: main.cpp, the SocketConnectionListener, the                  *)
(* ClientConnectionManager and the lifetimes of its sessions, run by the io *)
(* threads and, when the manager is destroyed, by the main thread.          *)
(*                                                                          *)
(* A connection is what its end depends on: its state, the reads, upgrade    *)
(* and closes posted to its strand, its handshake and the steps of close(),  *)
(* as in module TcpConnection, which has its writes, cancels and descriptor  *)
(* too.  A session is its flags and its place in the read loop; module       *)
(* ClientSession has its tokens.  What a handler does under _callbackMutex   *)
(* is one step.                                                             *)
(*                                                                          *)
(* A thread that goes on with an object that is deleted is recorded in      *)
(* misuse, and goes on as if the object were still what it was.             *)
(***************************************************************************)
EXTENDS Naturals, Sequences

CONSTANTS
  Threads,    \* the io threads (main.cpp:122)
  main,       \* the main thread
  Clients,    \* those who connect, each once
  Acceptors   \* the acceptors that could be opened, of IPv4 and IPv6

ASSUME MainAssumption == main \notin Threads
ASSUME ClientsAssumption == Clients \cap {"none", "pending", "failed", "aborted"} = {}

Workers == Threads \cup {main}

VARIABLES
  phase,         \* of the main thread
  listening,     \* the listener is not stopped
  observed,      \* the manager is the listener's observer
  accept,        \* the async_accept of each acceptor: its state, or whom it accepted
  shuttingDown,  \* _isShuttingDown
  registry,      \* _clientSessionPtrs
  leaving,       \* the sessions that ~ClientConnectionManager has taken over
  deletions,     \* posted deletions of each session
  session,       \* "none", "live" or "deleted"
  stopped, released, completed,  \* _isStopped, _isShutdown, _completionNotified
  silent,        \* sessions whose completion callback has been taken away
  served,        \* sessions that have handled tokens, so may write and upgrade
  conn,          \* the ConnectionState, or what comes before and after
  callbacks,     \* _closeCallbacks
  strand,        \* reads, upgrades and closes posted to _strand, not yet run
  read,          \* the pending async_read_some
  handshake,     \* "none" before the upgrade, "done" when its handler has run
  tlsClosing, tlsClosed,  \* async_shutdowns in flight; ended, handler not run
  job,           \* what each thread does, for which client
  misuse         \* kinds of objects used after their deletion

listenerVars == <<listening, observed, accept>>
managerVars == <<shuttingDown, registry, leaving, deletions>>
sessionVars == <<session, stopped, released, completed, silent, served>>
operationVars == <<read, handshake, tlsClosing, tlsClosed>>
connectionVars == <<conn, callbacks, strand, operationVars>>
vars == <<phase, listenerVars, managerVars, sessionVars, connectionVars, job, misuse>>

-----------------------------------------------------------------------------
Callbacks == {"read", "delete"}
Handlers == {"read", "upgrade", "close"}
ClosePlaces == {"close", "stillOpen", "push", "closing", "ended", "waiting", "join"}
ConnectionPlaces ==
  ClosePlaces \cup {"handshaken", "refused", "secure", "announce", "observe", "collect"}
Places == ConnectionPlaces \cup {"received", "aborted", "tokens", "notify", "dispatch"}

(* A job is a place in the code, for a client; in close(), the argument;      *)
(* whether shutdown() returns to the tokenizer; whether the job is a handler   *)
(* of the client's strand; and the close callbacks that are still to call.   *)
Jobs == [at : Places \cup {"idle"}, client : Clients \cup {"none"},
         cb : Callbacks \cup {"none"}, inTokens : BOOLEAN, onStrand : BOOLEAN,
         todo : SUBSET Callbacks]
NoJob == [at |-> "idle", client |-> "none", cb |-> "none",
          inTokens |-> FALSE, onStrand |-> FALSE, todo |-> {}]

JobTypes ==
  /\ job \in [Workers -> Jobs]
  /\ \A w \in Workers : job[w].at # "idle" => job[w].client \in Clients

OperationTypes ==
  /\ read \in [Clients -> {"none", "pending", "data", "error"}]
  /\ handshake \in [Clients -> {"none", "posted", "inflight", "ok", "error", "done"}]
  /\ tlsClosing \in [Clients -> Nat] /\ tlsClosed \in [Clients -> Nat]

ConnectionTypes ==
  /\ conn \in [Clients -> {"none", "accepted", "INSECURE", "SECURE", "CLOSING", "CLOSED", "deleted"}]
  /\ callbacks \in [Clients -> SUBSET Callbacks]
  /\ strand \in [Clients -> Seq(Handlers)]
  /\ OperationTypes

SessionTypes ==
  /\ session \in [Clients -> {"none", "live", "deleted"}]
  /\ stopped \subseteq Clients /\ released \subseteq Clients
  /\ completed \subseteq Clients /\ silent \subseteq Clients /\ served \subseteq Clients

ManagerTypes ==
  /\ shuttingDown \in BOOLEAN
  /\ registry \subseteq Clients /\ leaving \subseteq Clients
  /\ deletions \in [Clients -> Nat]

ListenerTypes ==
  /\ listening \in BOOLEAN /\ observed \in BOOLEAN
  /\ accept \in [Acceptors -> {"none", "pending", "failed", "aborted"} \cup Clients]

TypeOK ==
  /\ JobTypes /\ ConnectionTypes /\ SessionTypes /\ ManagerTypes /\ ListenerTypes
  /\ phase \in {"serving", "joining", "closing", "draining", "done"}
  /\ misuse \subseteq {"session", "connection"}

(* The manager's constructor has started the listener. *)
Init ==
  /\ phase = "serving"
  /\ listening = TRUE /\ observed = TRUE
  /\ accept = [a \in Acceptors |-> "pending"]
  /\ shuttingDown = FALSE /\ registry = {} /\ leaving = {}
  /\ deletions = [c \in Clients |-> 0]
  /\ session = [c \in Clients |-> "none"]
  /\ stopped = {} /\ released = {} /\ completed = {} /\ silent = {} /\ served = {}
  /\ conn = [c \in Clients |-> "none"]
  /\ callbacks = [c \in Clients |-> {}] /\ strand = [c \in Clients |-> <<>>]
  /\ read = [c \in Clients |-> "none"] /\ handshake = [c \in Clients |-> "none"]
  /\ tlsClosing = [c \in Clients |-> 0] /\ tlsClosed = [c \in Clients |-> 0]
  /\ job = [w \in Workers |-> NoJob]
  /\ misuse = {}

-----------------------------------------------------------------------------
(* Jobs.  An io thread takes handlers until ioContext.stop(), the main       *)
(* thread while ~ClientConnectionManager runs the context.                  *)
Free(w) ==
  /\ job[w] = NoJob
  /\ \/ w \in Threads /\ phase = "serving"
     \/ w = main /\ phase = "draining"

Does(w, place) == job[w].at = place
Job(place, c) == [NoJob EXCEPT !.at = place, !.client = c]
Start(w, place, c) == job' = [job EXCEPT ![w] = Job(place, c)]
Go(w, place) == job' = [job EXCEPT ![w].at = place]
Return(w) ==
  job' = [job EXCEPT ![w] = IF @.todo = {} THEN NoJob
                                           ELSE [@ EXCEPT !.at = "dispatch", !.cb = "none"]]

UsesSession(c) ==
  misuse' = IF session[c] = "deleted" THEN misuse \cup {"session"} ELSE misuse

-----------------------------------------------------------------------------
(* Connections.                                                             *)
IsOpen(c) == conn[c] \in {"INSECURE", "SECURE"}
Abort(c) == [read EXCEPT ![c] = IF @ = "pending" THEN "error" ELSE @]

Post(c, handler) == strand' = [strand EXCEPT ![c] = Append(@, handler)]

(* What closing the descriptor does: the operations in flight are aborted.   *)
AbortOperations(c) ==
  /\ read' = Abort(c)
  /\ handshake' = [handshake EXCEPT ![c] = IF @ = "inflight" THEN "error" ELSE @]
  /\ tlsClosing' = [tlsClosing EXCEPT ![c] = 0]
  /\ tlsClosed' = [tlsClosed EXCEPT ![c] = @ + tlsClosing[c]]

Delete(c) ==
  /\ conn' = [conn EXCEPT ![c] = "deleted"]
  /\ AbortOperations(c)

(* A whole call of close() by the main thread, when it is the only one, with  *)
(* the callback that deletes the connection.                                 *)
CloseForGood(c) ==
  \/ /\ conn[c] = "CLOSED"
     /\ Delete(c)
     /\ UNCHANGED <<callbacks, strand>>
  \/ /\ conn[c] # "CLOSED"
     /\ callbacks' = [callbacks EXCEPT ![c] = @ \cup {"delete"}]
     /\ conn' = [conn EXCEPT ![c] = "CLOSING"]
     /\ IF IsOpen(c) THEN Post(c, "close") ELSE UNCHANGED strand
     /\ UNCHANGED operationVars

-----------------------------------------------------------------------------
(* The listener's accept handlers.                                          *)

AcceptAgain_OnSuccess(a) ==                                        \* mutant
  accept' = [accept EXCEPT ![a] =
    IF listening /\ accept[a] \in Clients THEN "pending" ELSE "none"]
AcceptAgain_WhenStopped(a) ==                                      \* mutant
  accept' = [accept EXCEPT ![a] = "pending"]
AcceptAgain(a) ==
  accept' = [accept EXCEPT ![a] =
    IF listening /\ accept[a] # "aborted" THEN "pending" ELSE "none"]

(* onObservation: the connection gets a session, which starts to read. *)
StartSession(c) ==
  /\ session' = [session EXCEPT ![c] = "live"]
  /\ registry' = registry \cup {c}
  /\ conn' = [conn EXCEPT ![c] = "INSECURE"]
  /\ stopped' = stopped \ {c}
  /\ Post(c, "read")

(* A connection that nobody observes is deleted at once. *)
HandleAccept(w) ==
  /\ Free(w)
  /\ \E a \in Acceptors :
       /\ AcceptAgain(a)
       /\ \/ /\ accept[a] \in {"failed", "aborted"}
             /\ UNCHANGED <<registry, session, stopped, conn, strand>>
          \/ /\ accept[a] \in Clients /\ observed /\ ~shuttingDown
             /\ StartSession(accept[a])
          \/ /\ accept[a] \in Clients /\ (~observed \/ shuttingDown)
             /\ conn' = [conn EXCEPT ![accept[a]] = "deleted"]
             /\ UNCHANGED <<registry, session, stopped, strand>>
  /\ UNCHANGED <<phase, listening, observed, shuttingDown, leaving, deletions,
                 released, completed, silent, served, callbacks, operationVars, job, misuse>>

-----------------------------------------------------------------------------
(* close(), called for the client of a job: both checks load the state anew. *)
(* It returns to shutdown(), when that has called it.                        *)
Uses(w, place) == Does(w, place) /\ conn[job[w].client] # "deleted"
Given(w) == {job[w].cb} \ {"none"}

AfterClose(w) ==
  IF job[w].cb = "delete"
  THEN job' = [job EXCEPT ![w].at = "notify", ![w].cb = "none"]
  ELSE Return(w)

CheckClosed(w) ==
  /\ Uses(w, "close")
  /\ Go(w, IF conn[job[w].client] = "CLOSED" THEN "ended" ELSE "stillOpen")
  /\ UNCHANGED connectionVars

CheckClosing(w) ==
  /\ Uses(w, "stillOpen")
  /\ Go(w, IF conn[job[w].client] = "CLOSING" THEN "ended" ELSE "push")
  /\ UNCHANGED connectionVars

PushCallback_Empty(w) ==                                           \* mutant
  /\ Uses(w, "push")
  /\ callbacks' = [callbacks EXCEPT ![job[w].client] = @ \cup {job[w].cb}]
  /\ Go(w, "closing")
  /\ UNCHANGED <<conn, strand, operationVars>>
PushCallback(w) ==
  /\ Uses(w, "push")
  /\ callbacks' = [callbacks EXCEPT ![job[w].client] = @ \cup Given(w)]
  /\ Go(w, "closing")
  /\ UNCHANGED <<conn, strand, operationVars>>

StartClosing(w) ==
  /\ Uses(w, "closing")
  /\ conn' = [conn EXCEPT ![job[w].client] = "CLOSING"]
  /\ Post(job[w].client, "close")
  /\ AfterClose(w)
  /\ UNCHANGED <<callbacks, operationVars>>

CloseEnded(w) ==
  /\ Uses(w, "ended")
  /\ LET c == job[w].client IN
     \/ /\ job[w].cb = "none"
        /\ Return(w) /\ UNCHANGED connectionVars
     \/ /\ job[w].cb # "none" /\ conn[c] # "CLOSED"
        /\ Go(w, "waiting") /\ UNCHANGED connectionVars
     \/ /\ job[w].cb = "read" /\ conn[c] = "CLOSED"
        /\ job' = [job EXCEPT ![w].at = "aborted", ![w].cb = "none"]
        /\ UNCHANGED connectionVars
     \/ /\ job[w].cb = "delete" /\ conn[c] = "CLOSED"
        /\ Delete(c) /\ AfterClose(w)
        /\ UNCHANGED <<callbacks, strand>>

(* The callback joins the others while the state is CLOSING, and is dropped   *)
(* otherwise; nothing calls it if the others are collected before it joins.  *)
CloseWaits(w) ==
  /\ Uses(w, "waiting")
  /\ IF conn[job[w].client] = "CLOSING" THEN Go(w, "join") ELSE AfterClose(w)
  /\ UNCHANGED connectionVars

JoinClosing_Drops(w) ==                                            \* mutant
  /\ Uses(w, "join")
  /\ AfterClose(w)
  /\ UNCHANGED connectionVars
JoinClosing(w) ==
  /\ Uses(w, "join")
  /\ callbacks' = [callbacks EXCEPT ![job[w].client] = @ \cup Given(w)]
  /\ AfterClose(w)
  /\ UNCHANGED <<conn, strand, operationVars>>

CloseStep(w) ==
  /\ \/ CheckClosed(w) \/ CheckClosing(w) \/ PushCallback(w) \/ StartClosing(w)
     \/ CloseEnded(w) \/ CloseWaits(w) \/ JoinClosing(w)
  /\ UNCHANGED <<phase, listenerVars, managerVars, sessionVars, misuse>>

-----------------------------------------------------------------------------
(* The connection's handlers.  Those of its strand run one at a time.        *)
TakeFromStrand(w, c, handler) ==
  /\ Free(w) /\ conn[c] # "deleted"
  /\ \A v \in Workers : ~(job[v].onStrand /\ job[v].client = c)
  /\ strand[c] # <<>> /\ Head(strand[c]) = handler
  /\ strand' = [strand EXCEPT ![c] = Tail(@)]
StartOnStrand(w, place, c) ==
  job' = [job EXCEPT ![w] = [Job(place, c) EXCEPT !.onStrand = TRUE]]

StrandRead(w) ==
  \E c \in Clients :
    /\ TakeFromStrand(w, c, "read")
    /\ IF IsOpen(c)
       THEN read' = [read EXCEPT ![c] = "pending"] /\ UNCHANGED job
       ELSE StartOnStrand(w, "aborted", c) /\ UNCHANGED read
    /\ UNCHANGED <<conn, callbacks, handshake, tlsClosing, tlsClosed>>

StrandUpgrade(w) ==
  \E c \in Clients :
    /\ TakeFromStrand(w, c, "upgrade")
    /\ handshake' = [handshake EXCEPT ![c] = IF conn[c] = "INSECURE" THEN "inflight" ELSE "none"]
    /\ UNCHANGED <<conn, callbacks, read, tlsClosing, tlsClosed, job>>

(* A handshake in flight is only cancelled, and its handler ends the close;   *)
(* a connection that is SECURE again waits for the client's answer.          *)
GateClosed(c) == handshake[c] \in {"inflight", "ok", "error"}
HasStream(c) == handshake[c] \notin {"none", "posted"}

StrandClose(w) ==
  \E c \in Clients :
    /\ TakeFromStrand(w, c, "close")
    /\ \/ /\ GateClosed(c)
          /\ AbortOperations(c)
          /\ UNCHANGED job
       \/ /\ ~GateClosed(c) /\ conn[c] = "SECURE" /\ HasStream(c)
          /\ read' = Abort(c)
          /\ tlsClosing' = [tlsClosing EXCEPT ![c] = 1]
          /\ tlsClosed' = [tlsClosed EXCEPT ![c] = @ + tlsClosing[c]]
          /\ UNCHANGED <<handshake, job>>
       \/ /\ ~GateClosed(c) /\ ~(conn[c] = "SECURE" /\ HasStream(c))
          /\ IF HasStream(c) THEN UNCHANGED operationVars ELSE AbortOperations(c)
          /\ StartOnStrand(w, "announce", c)
    /\ UNCHANGED <<conn, callbacks>>

HandleData(w) ==
  /\ Free(w)
  /\ \E c \in Clients :
       /\ read[c] = "data"
       /\ read' = [read EXCEPT ![c] = "none"]
       /\ Start(w, "received", c)
  /\ UNCHANGED <<conn, callbacks, strand, handshake, tlsClosing, tlsClosed>>

CallClose(w, c, callback) ==
  job' = [job EXCEPT ![w] = [Job("close", c) EXCEPT !.cb = callback]]

HandleError(w) ==
  /\ Free(w)
  /\ \E c \in Clients :
       /\ conn[c] # "deleted" /\ read[c] = "error"
       /\ read' = [read EXCEPT ![c] = "none"]
       /\ CallClose(w, c, "read")
  /\ UNCHANGED <<conn, callbacks, strand, handshake, tlsClosing, tlsClosed>>

(* On a connection that is no longer open, it changes nothing. *)
HandleFailedWrite(w) ==
  /\ Free(w)
  /\ \E c \in served : IsOpen(c) /\ CallClose(w, c, "none")
  /\ UNCHANGED connectionVars

(* The handshake's handler clears the flag, then looks at the state, then     *)
(* makes the connection secure, in three steps.                              *)
HandleHandshake(w) ==
  /\ Free(w)
  /\ \E c \in Clients :
       /\ conn[c] # "deleted" /\ handshake[c] \in {"ok", "error"}
       /\ handshake' = [handshake EXCEPT ![c] = "done"]
       /\ Start(w, IF handshake[c] = "ok" THEN "handshaken" ELSE "refused", c)
  /\ UNCHANGED <<conn, callbacks, strand, read, tlsClosing, tlsClosed>>

HandshakeEnded(w) ==
  /\ Uses(w, "handshaken") \/ Uses(w, "refused")
  /\ \/ /\ conn[job[w].client] = "CLOSING"
        /\ AbortOperations(job[w].client)
        /\ Go(w, "announce")
     \/ /\ conn[job[w].client] # "CLOSING"
        /\ Go(w, IF Does(w, "refused") THEN "close" ELSE "secure")
        /\ UNCHANGED operationVars
  /\ UNCHANGED <<conn, callbacks, strand>>

BecomeSecure(w) ==
  /\ Uses(w, "secure")
  /\ conn' = [conn EXCEPT ![job[w].client] = "SECURE"]
  /\ Return(w)
  /\ UNCHANGED <<callbacks, strand, operationVars>>

HandleTlsShutdown(w) ==
  /\ Free(w)
  /\ \E c \in Clients :
       /\ conn[c] # "deleted" /\ tlsClosed[c] > 0
       /\ read' = Abort(c)
       /\ tlsClosing' = [tlsClosing EXCEPT ![c] = 0]
       /\ tlsClosed' = [tlsClosed EXCEPT ![c] = @ + tlsClosing[c] - 1]
       /\ Start(w, "announce", c)
  /\ UNCHANGED <<conn, callbacks, strand, handshake>>

(* The end of a close: dispatchStateChange(CLOSED) and its observer, the      *)
(* manager's callback, then dispatchCloseCallbacks().                        *)
Announce(w) ==
  /\ Uses(w, "announce")
  /\ conn' = [conn EXCEPT ![job[w].client] = "CLOSED"]
  /\ Go(w, "observe")
  /\ UNCHANGED <<callbacks, strand, operationVars>>

Observe(w) ==
  /\ Uses(w, "observe")
  /\ IF shuttingDown
     THEN UNCHANGED <<stopped, misuse>>
     ELSE stopped' = stopped \cup {job[w].client} /\ UsesSession(job[w].client)
  /\ Go(w, "collect")
  /\ UNCHANGED <<phase, listenerVars, managerVars, session, released, completed, silent,
                 served, connectionVars>>

Collect(w) ==
  /\ Uses(w, "collect")
  /\ LET c == job[w].client IN
     /\ callbacks' = [callbacks EXCEPT ![c] = {}]
     /\ job' = [job EXCEPT ![w] = IF callbacks[c] = {} THEN NoJob
                  ELSE [@ EXCEPT !.at = "dispatch", !.todo = callbacks[c]]]
  /\ UNCHANGED <<conn, strand, operationVars>>

Dispatch(w) ==
  /\ Does(w, "dispatch")
  /\ \/ /\ "read" \in job[w].todo
        /\ job' = [job EXCEPT ![w].at = "aborted", ![w].todo = @ \ {"read"}]
        /\ UNCHANGED <<conn, operationVars>>
     \/ /\ "delete" \in job[w].todo
        /\ Delete(job[w].client)
        /\ job' = [job EXCEPT ![w] = IF @.todo = {"delete"} THEN NoJob
                     ELSE [@ EXCEPT !.todo = {"read"}]]
  /\ UNCHANGED <<callbacks, strand>>

(* What a handler, or a thread in a member function, does when the            *)
(* connection is gone.                                                       *)
UseAfterDelete(w) ==
  /\ misuse' = misuse \cup {"connection"}
  /\ \/ /\ job[w].at \in ConnectionPlaces /\ conn[job[w].client] = "deleted"
        /\ AfterClose(w)
        /\ UNCHANGED <<strand, operationVars>>
     \/ /\ Free(w) /\ UNCHANGED job
        /\ \E c \in Clients :
             /\ conn[c] = "deleted"
             /\ \/ /\ strand[c] # <<>>
                   /\ strand' = [strand EXCEPT ![c] = Tail(@)]
                   /\ UNCHANGED operationVars
                \/ /\ read[c] = "error"
                   /\ read' = [read EXCEPT ![c] = "none"]
                   /\ UNCHANGED <<strand, handshake, tlsClosing, tlsClosed>>
                \/ /\ handshake[c] \in {"ok", "error"}
                   /\ handshake' = [handshake EXCEPT ![c] = "done"]
                   /\ UNCHANGED <<strand, read, tlsClosing, tlsClosed>>
                \/ /\ tlsClosed[c] > 0
                   /\ tlsClosed' = [tlsClosed EXCEPT ![c] = @ - 1]
                   /\ UNCHANGED <<strand, read, handshake, tlsClosing>>
  /\ UNCHANGED <<phase, listenerVars, managerVars, sessionVars, conn, callbacks>>

HandlerStep(w) ==
  /\ \/ StrandRead(w) \/ StrandUpgrade(w) \/ StrandClose(w)
     \/ HandleData(w) \/ HandleError(w) \/ HandleFailedWrite(w)
     \/ HandleHandshake(w) \/ HandshakeEnded(w) \/ BecomeSecure(w)
     \/ HandleTlsShutdown(w) \/ Announce(w) \/ Collect(w) \/ Dispatch(w)
  /\ UNCHANGED <<phase, listenerVars, managerVars, sessionVars, misuse>>

ConnectionStep(w) == CloseStep(w) \/ HandlerStep(w) \/ Observe(w) \/ UseAfterDelete(w)

-----------------------------------------------------------------------------
(* The session's read loop.                                                 *)

(* shutdown(), which lets go of the connection, then closes it, then tells   *)
(* the manager.                                                              *)
LetGo(c) ==
  /\ released' = released \cup {c}
  /\ stopped' = stopped \cup {c}

GiveUp(w, c) ==
  IF c \in released
  THEN Return(w) /\ UNCHANGED <<stopped, released>>
  ELSE LetGo(c) /\ job' = [job EXCEPT ![w].at = "close", ![w].cb = "delete"]

Aborted(w) ==
  /\ Does(w, "aborted")
  /\ UsesSession(job[w].client)
  /\ GiveUp(w, job[w].client)
  /\ UNCHANGED <<phase, listenerVars, managerVars, session, completed, silent, served, connectionVars>>

Received(w) ==
  /\ Does(w, "received")
  /\ LET c == job[w].client IN
     /\ UsesSession(c)
     /\ IF c \in stopped \cup released
        THEN GiveUp(w, c) /\ UNCHANGED served
        ELSE /\ Go(w, "tokens")
             /\ served' = served \cup {c}
             /\ UNCHANGED <<stopped, released>>
  /\ UNCHANGED <<phase, listenerVars, managerVars, session, completed, silent, connectionVars>>

ShutdownOnToken(w) ==
  /\ Does(w, "tokens") /\ job[w].client \notin released
  /\ UsesSession(job[w].client)
  /\ LetGo(job[w].client)
  /\ job' = [job EXCEPT ![w].at = "close", ![w].cb = "delete", ![w].inTokens = TRUE]
  /\ UNCHANGED <<phase, listenerVars, managerVars, session, completed, silent, served, connectionVars>>

(* A session upgrades its connection once. *)
Upgrade(w) ==
  /\ Does(w, "tokens")
  /\ LET c == job[w].client IN
     /\ c \notin released /\ IsOpen(c) /\ handshake[c] = "none"
     /\ UsesSession(c)
     /\ handshake' = [handshake EXCEPT ![c] = "posted"]
     /\ Post(c, "upgrade")
  /\ UNCHANGED <<phase, listenerVars, managerVars, sessionVars, conn, callbacks,
                 read, tlsClosing, tlsClosed, job>>

Process_Stopped(w) ==                                              \* mutant
  /\ Does(w, "tokens")
  /\ UsesSession(job[w].client)
  /\ Post(job[w].client, "read")
  /\ Return(w)
  /\ UNCHANGED <<phase, listenerVars, managerVars, sessionVars, conn, callbacks, operationVars>>

(* The tokens are used up: process(), and the connection's read(). *)
Process(w) ==
  /\ Does(w, "tokens")
  /\ LET c == job[w].client IN
     /\ UsesSession(c)
     /\ IF c \in stopped \cup released
        THEN Return(w) /\ UNCHANGED strand
        ELSE IF IsOpen(c)
        THEN Post(c, "read") /\ Return(w)
        ELSE Go(w, "aborted") /\ UNCHANGED strand
  /\ UNCHANGED <<phase, listenerVars, managerVars, sessionVars, conn, callbacks, operationVars>>

Completes(c) == c \notin completed \cup silent /\ ~shuttingDown /\ c \in registry

Unregister_Keeps(c) == registry' = registry                        \* mutant
Unregister(c) == registry' = registry \ {c}

(* notifyCompletion(), and the manager's completion callback *)
Notify(w) ==
  /\ Does(w, "notify")
  /\ LET c == job[w].client IN
     /\ completed' = completed \cup {c}
     /\ IF Completes(c)
        THEN Unregister(c) /\ deletions' = [deletions EXCEPT ![c] = @ + 1]
        ELSE UNCHANGED <<registry, deletions>>
  /\ IF job[w].inTokens
     THEN job' = [job EXCEPT ![w].at = "tokens", ![w].inTokens = FALSE]
     ELSE Return(w)
  /\ UNCHANGED <<phase, listenerVars, shuttingDown, leaving, session, stopped, released, silent,
                 served, connectionVars, misuse>>

DeleteSession(w) ==
  /\ Free(w)
  /\ \E c \in Clients :
       /\ deletions[c] > 0
       /\ deletions' = [deletions EXCEPT ![c] = @ - 1]
       /\ session' = [session EXCEPT ![c] = "deleted"]
  /\ UNCHANGED <<phase, listenerVars, shuttingDown, registry, leaving,
                 stopped, released, completed, silent, served, connectionVars, job, misuse>>

SessionStep(w) ==
  \/ Aborted(w) \/ Received(w) \/ ShutdownOnToken(w) \/ Upgrade(w) \/ Process(w)
  \/ Notify(w) \/ DeleteSession(w)

WorkerStep(w) == HandleAccept(w) \/ ConnectionStep(w) \/ SessionStep(w)

-----------------------------------------------------------------------------
(* The main thread.                                                         *)

(* A signal ends the wait; ioContext.stop(). *)
Stop ==
  /\ phase = "serving"
  /\ phase' = "joining"
  /\ UNCHANGED <<listenerVars, managerVars, sessionVars, connectionVars, job, misuse>>

(* The threads are joined; ~ClientConnectionManager stops the listener and   *)
(* takes the sessions over.  No other thread runs any more.                  *)
Destroy ==
  /\ phase = "joining" /\ \A t \in Threads : job[t] = NoJob
  /\ phase' = "closing"
  /\ listening' = FALSE /\ observed' = FALSE
  /\ accept' = [a \in Acceptors |-> IF accept[a] = "pending" THEN "aborted" ELSE accept[a]]
  /\ shuttingDown' = TRUE
  /\ leaving' = registry /\ registry' = {}
  /\ UNCHANGED <<deletions, sessionVars, connectionVars, job, misuse>>

ShutdownSession(c) ==
  IF c \in released THEN UNCHANGED <<stopped, released, connectionVars>> ELSE LetGo(c) /\ CloseForGood(c)

ShutdownNext ==
  /\ phase = "closing"
  /\ \E c \in leaving \ silent :
       /\ silent' = silent \cup {c}
       /\ ShutdownSession(c)
       /\ completed' = completed \cup {c}
  /\ UNCHANGED <<phase, listenerVars, managerVars, session, served, job, misuse>>

(* restart() and run(), until nothing is left to run or to wait for *)
Restart ==
  /\ phase = "closing" /\ leaving \subseteq silent
  /\ phase' = "draining"
  /\ UNCHANGED <<listenerVars, managerVars, sessionVars, connectionVars, job, misuse>>

Drained ==
  /\ job[main] = NoJob
  /\ \A a \in Acceptors : accept[a] = "none"
  /\ \A c \in Clients :
       /\ strand[c] = <<>> /\ read[c] = "none" /\ ~GateClosed(c)
       /\ tlsClosing[c] + tlsClosed[c] = 0
       /\ deletions[c] = 0

Finish ==
  /\ phase = "draining" /\ Drained
  /\ phase' = "done"
  /\ session' = [c \in Clients |-> IF c \in leaving THEN "deleted" ELSE session[c]]
  /\ leaving' = {}
  /\ UNCHANGED <<listenerVars, shuttingDown, registry, deletions, stopped, released, completed,
                 silent, served, connectionVars, job, misuse>>

MainStep == Destroy \/ ShutdownNext \/ Restart \/ Finish \/ WorkerStep(main)

-----------------------------------------------------------------------------
(* The clients and the network.                                             *)

Connect ==
  /\ \E a \in Acceptors, c \in Clients :
       /\ accept[a] = "pending" /\ conn[c] = "none"
       /\ accept' = [accept EXCEPT ![a] = c]
       /\ conn' = [conn EXCEPT ![c] = "accepted"]
  /\ UNCHANGED <<callbacks, strand, operationVars>>

AcceptFails ==
  /\ \E a \in Acceptors :
       /\ accept[a] = "pending"
       /\ accept' = [accept EXCEPT ![a] = "failed"]
  /\ UNCHANGED connectionVars

ReadEnds ==
  /\ \E c \in Clients, result \in {"data", "error"} :
       /\ read[c] = "pending"
       /\ read' = [read EXCEPT ![c] = result]
  /\ UNCHANGED <<accept, conn, callbacks, strand, handshake, tlsClosing, tlsClosed>>

HandshakeEnds ==
  /\ \E c \in Clients, result \in {"ok", "error"} :
       /\ handshake[c] = "inflight"
       /\ handshake' = [handshake EXCEPT ![c] = result]
  /\ UNCHANGED <<accept, conn, callbacks, strand, read, tlsClosing, tlsClosed>>

TlsShutdownEnds ==
  /\ \E c \in Clients :
       /\ tlsClosing[c] > 0
       /\ tlsClosing' = [tlsClosing EXCEPT ![c] = @ - 1]
       /\ tlsClosed' = [tlsClosed EXCEPT ![c] = @ + 1]
  /\ UNCHANGED <<accept, conn, callbacks, strand, read, handshake>>

ClientStep ==
  /\ Connect \/ AcceptFails \/ ReadEnds \/ HandshakeEnds \/ TlsShutdownEnds
  /\ UNCHANGED <<phase, listening, observed, managerVars, sessionVars, job, misuse>>

Next == ClientStep \/ Stop \/ MainStep \/ \E t \in Threads : WorkerStep(t)

(* A thread goes on with what it does.  Nothing is assumed of the clients.   *)
Fairness == WF_vars(MainStep) /\ \A t \in Threads : WF_vars(WorkerStep(t))

Spec == Init /\ [][Next]_vars /\ Fairness

-----------------------------------------------------------------------------
(* Every live session has one who will delete it: the registry, a posted     *)
(* deletion or the manager's destructor; and a deleted one has none          *)
(* (ClientConnectionManager.cpp:25-45, 58-90).                               *)
OwnedOnce ==
  /\ registry \cap leaving = {}
  /\ \A c \in Clients :
       /\ deletions[c] <= (IF c \in registry \cup leaving THEN 0 ELSE 1)
       /\ session[c] = "live" <=> c \in registry \cup leaving \/ deletions[c] = 1

(* When the manager is gone, so are all sessions and connections, whatever   *)
(* was queued when the context was stopped                                   *)
(* (ClientConnectionManager.cpp:14-49, main.cpp:139-146).  With one io        *)
(* thread; with more, a close can lose the callback that deletes the         *)
(* connection (TcpConnection.cpp:164-165, 203-204).                          *)
ReleasesEverything ==
  phase = "done" =>
    \A c \in Clients : session[c] # "live" /\ conn[c] \in {"none", "deleted"}

(* An acceptor goes on accepting until the listener is stopped, after a      *)
(* failure too (SocketConnectionListener.cpp:93-143).                        *)
KeepsListening == listening => \A a \in Acceptors : accept[a] # "none"

(* The server exits after a signal, whatever its clients do: no read or      *)
(* accept is left that the destructor's run() would wait for                 *)
(* (ClientConnectionManager.cpp:38-41).  With one io thread; with more, a    *)
(* connection that a handshake has made SECURE again after close() waits for *)
(* an answer of the client (TcpConnection.cpp:46-53, 184-187).               *)
ServerExits == phase = "joining" ~> phase = "done"

(* With one io thread, and while the server runs, sessions use connections   *)
(* as ConnectionContract allows: one read at a time, none after letting go,  *)
(* which happens between two reads, and no deletion before CLOSED            *)
(* (ClientSession.cpp:47-94).                                                *)
Reading(c) ==
  \/ read[c] # "none" \/ "read" \in callbacks[c]
  \/ \E i \in DOMAIN strand[c] : strand[c][i] = "read"
  \/ \E w \in Workers : job[w].client = c /\ "read" \in job[w].todo \cup {job[w].cb}
Contract(c) == INSTANCE ConnectionContract WITH
  state <- IF conn[c] \in {"none", "accepted"} THEN "INSECURE"
           ELSE IF conn[c] = "deleted" THEN "CLOSED" ELSE conn[c],
  reading <- Reading(c),
  holder <- IF conn[c] = "deleted" THEN "deleted"
            ELSE IF c \in released THEN "nobody" ELSE "owner"
UsesByContract ==
  /\ \A c \in Clients : Contract(c)!Init
  /\ [][\A c \in Clients :
         [Contract(c)!Next \/ shuttingDown]_(Contract(c)!vars)]_vars

(* Properties the code does not have.                                        *)

(* The manager removes a session when it completes, not while a callback is  *)
(* still to use it (ClientConnectionManager.hpp:21-24).                      *)
SessionOutlivesCallbacks == "session" \notin misuse

(* The destructor releases sessions without pulling the connection from      *)
(* under its pending read (ClientConnectionManager.hpp:33).                  *)
ConnectionOutlivesRead == "connection" \notin misuse
=============================================================================
