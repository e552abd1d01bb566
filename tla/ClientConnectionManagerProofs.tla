-------------------- MODULE ClientConnectionManagerProofs --------------------
(***************************************************************************)
(* Types, the ownership of sessions and the accept loops, for every set of   *)
(* threads, clients and acceptors; and that the manager releases everything, *)
(* for one thread and every set of clients and acceptors.                    *)
(***************************************************************************)
EXTENDS ClientConnectionManager, SequenceTheorems, TLAPS

-----------------------------------------------------------------------------
(* Types.                                                                   *)

MainTypes ==
  /\ phase \in {"serving", "joining", "closing", "draining", "done"}
  /\ misuse \subseteq {"session", "connection"}

(* What is left alone keeps its type. *)
LEMMA JobKept == JobTypes /\ UNCHANGED job => JobTypes'
  BY DEF JobTypes

LEMMA ConnectionKept == ConnectionTypes /\ UNCHANGED connectionVars => ConnectionTypes'
  BY DEF ConnectionTypes, OperationTypes, connectionVars, operationVars

LEMMA OperationsKept == OperationTypes /\ UNCHANGED operationVars => OperationTypes'
  BY DEF OperationTypes, operationVars

LEMMA SessionKept == SessionTypes /\ UNCHANGED sessionVars => SessionTypes'
  BY DEF SessionTypes, sessionVars

LEMMA ManagerKept == ManagerTypes /\ UNCHANGED managerVars => ManagerTypes'
  BY DEF ManagerTypes, managerVars

LEMMA ListenerKept == ListenerTypes /\ UNCHANGED listenerVars => ListenerTypes'
  BY DEF ListenerTypes, listenerVars

(* The operators on jobs. *)
LEMMA JobChange ==
  ASSUME JobTypes, NEW w \in Workers, NEW j \in Jobs, j.at = "idle" \/ j.client \in Clients,
         job' = [job EXCEPT ![w] = j]
  PROVE  JobTypes'
  BY DEF JobTypes

LEMMA NoJobType == NoJob \in Jobs /\ NoJob.at = "idle"
  BY DEF NoJob, Jobs

LEMMA JobType ==
  ASSUME NEW place \in Places, NEW c \in Clients, NEW callback \in Callbacks \cup {"none"},
         NEW strandJob \in BOOLEAN
  PROVE  [[Job(place, c) EXCEPT !.cb = callback] EXCEPT !.onStrand = strandJob] \in Jobs
  BY DEF Job, NoJob, Jobs

LEMMA StartTypes ==
  ASSUME JobTypes, NEW w \in Workers, NEW place \in Places, NEW c \in Clients,
         Start(w, place, c) \/ StartOnStrand(w, place, c)
         \/ \E callback \in Callbacks \cup {"none"} :
              job' = [job EXCEPT ![w] = [Job(place, c) EXCEPT !.cb = callback]]
  PROVE  JobTypes'
<1>1. PICK j \in Jobs : j.client = c /\ job' = [job EXCEPT ![w] = j]
  BY DEF Start, StartOnStrand, Job, NoJob, Jobs, Callbacks
<1> QED BY <1>1, JobChange

LEMMA BusyHasClient ==
  ASSUME JobTypes, NEW w \in Workers, job[w].at # "idle"
  PROVE  job[w].client \in Clients /\ job[w] \in Jobs
  BY DEF JobTypes

LEMMA GoTypes ==
  ASSUME JobTypes, NEW w \in Workers, job[w].at # "idle", NEW place \in Places, Go(w, place)
  PROVE  JobTypes'
<1>1. [job[w] EXCEPT !.at = place] \in Jobs BY BusyHasClient DEF Jobs
<1>2. [job[w] EXCEPT !.at = place].client \in Clients BY BusyHasClient DEF Jobs
<1> QED BY <1>1, <1>2, JobChange DEF Go

LEMMA ReturnTypes ==
  ASSUME JobTypes, NEW w \in Workers, job[w].at # "idle", Return(w)
  PROVE  JobTypes'
<1>1. CASE job[w].todo = {} BY <1>1, NoJobType, JobChange DEF Return
<1>2. CASE job[w].todo # {}
  <2>1. [job[w] EXCEPT !.at = "dispatch", !.cb = "none"] \in Jobs BY BusyHasClient DEF Jobs, Places
  <2>2. [job[w] EXCEPT !.at = "dispatch", !.cb = "none"].client \in Clients
    BY BusyHasClient DEF Jobs
  <2> QED BY <1>2, <2>1, <2>2, JobChange DEF Return
<1> QED BY <1>1, <1>2

LEMMA AfterCloseTypes ==
  ASSUME JobTypes, NEW w \in Workers, job[w].at # "idle", AfterClose(w)
  PROVE  JobTypes'
<1>1. CASE job[w].cb = "delete"
  <2>1. [job[w] EXCEPT !.at = "notify", !.cb = "none"] \in Jobs BY BusyHasClient DEF Jobs, Places
  <2>2. [job[w] EXCEPT !.at = "notify", !.cb = "none"].client \in Clients
    BY BusyHasClient DEF Jobs
  <2>3. job' = [job EXCEPT ![w].at = "notify", ![w].cb = "none"] BY <1>1 DEF AfterClose
  <2> QED BY <2>1, <2>2, <2>3, JobChange
<1>2. CASE job[w].cb # "delete" BY <1>2, ReturnTypes DEF AfterClose
<1> QED BY <1>1, <1>2

(* The operators on connections. *)
LEMMA AbortTypes ==
  ASSUME OperationTypes, NEW c \in Clients, AbortOperations(c)
  PROVE  OperationTypes'
  BY DEF OperationTypes, AbortOperations, Abort

LEMMA PostTypes ==
  ASSUME ConnectionTypes, NEW c \in Clients, NEW handler \in Handlers, Post(c, handler)
  PROVE  strand' \in [Clients -> Seq(Handlers)]
  BY DEF ConnectionTypes, Post

LEMMA TakeTypes ==
  ASSUME ConnectionTypes, NEW c \in Clients, NEW w, NEW handler, TakeFromStrand(w, c, handler)
  PROVE  strand' \in [Clients -> Seq(Handlers)]
  BY DEF ConnectionTypes, TakeFromStrand

LEMMA CloseForGoodTypes ==
  ASSUME ConnectionTypes, NEW c \in Clients, CloseForGood(c)
  PROVE  ConnectionTypes'
<1> USE DEF ConnectionTypes
<1>1. CASE conn[c] = "CLOSED"
  <2>1. OperationTypes' BY <1>1, AbortTypes DEF CloseForGood, Delete
  <2> QED BY <1>1, <2>1 DEF CloseForGood, Delete
<1>2. CASE conn[c] # "CLOSED"
  <2>1. OperationTypes' BY <1>2, OperationsKept DEF CloseForGood
  <2>2. strand' \in [Clients -> Seq(Handlers)] BY <1>2, PostTypes DEF CloseForGood, Handlers
  <2>3. "delete" \in Callbacks BY DEF Callbacks
  <2>4. /\ callbacks' = [callbacks EXCEPT ![c] = @ \cup {"delete"}]
        /\ conn' = [conn EXCEPT ![c] = "CLOSING"]
    BY <1>2 DEF CloseForGood
  <2> QED BY <2>1, <2>2, <2>3, <2>4
<1> QED BY <1>1, <1>2

LEMMA TypeInit == Init => TypeOK
<1> SUFFICES ASSUME Init PROVE TypeOK OBVIOUS
<1>1. JobTypes BY NoJobType DEF Init, JobTypes
<1>2. ConnectionTypes BY DEF Init, ConnectionTypes, OperationTypes
<1>3. SessionTypes /\ ManagerTypes BY DEF Init, SessionTypes, ManagerTypes
<1>4. ListenerTypes BY DEF Init, ListenerTypes
<1> QED BY <1>1, <1>2, <1>3, <1>4 DEF Init, TypeOK

LEMMA UsesSessionTypes ==
  ASSUME MainTypes, NEW c \in Clients, UsesSession(c)
  PROVE  misuse' \subseteq {"session", "connection"}
  BY DEF MainTypes, UsesSession

LEMMA AcceptTypes ==
  ASSUME TypeOK, NEW w \in Workers, HandleAccept(w)
  PROVE  TypeOK'
<1>1. PICK a \in Acceptors :
        /\ AcceptAgain(a)
        /\ \/ /\ accept[a] \in {"failed", "aborted"}
              /\ UNCHANGED <<registry, session, stopped, conn, strand>>
           \/ accept[a] \in Clients /\ StartSession(accept[a])
           \/ /\ accept[a] \in Clients
              /\ conn' = [conn EXCEPT ![accept[a]] = "deleted"]
              /\ UNCHANGED <<registry, session, stopped, strand>>
  BY DEF HandleAccept
<1> USE DEF TypeOK
<1>2. ListenerTypes' BY <1>1 DEF ListenerTypes, HandleAccept, AcceptAgain
<1>3. SessionTypes' BY <1>1 DEF SessionTypes, HandleAccept, StartSession
<1>4. ManagerTypes' BY <1>1 DEF ManagerTypes, HandleAccept, StartSession
<1>5. ConnectionTypes'
  <2>1. OperationTypes' BY OperationsKept DEF HandleAccept, ConnectionTypes
  <2>2. strand' \in [Clients -> Seq(Handlers)]
    BY <1>1, PostTypes DEF StartSession, Handlers, ConnectionTypes
  <2> QED BY <1>1, <2>1, <2>2 DEF ConnectionTypes, HandleAccept, StartSession
<1>6. JobTypes' /\ MainTypes' BY JobKept DEF MainTypes, HandleAccept
<1> QED BY <1>2, <1>3, <1>4, <1>5, <1>6 DEF MainTypes

LEMMA CloseStepTypes ==
  ASSUME JobTypes, ConnectionTypes, NEW w \in Workers, CloseStep(w)
  PROVE  JobTypes' /\ ConnectionTypes'
<1> USE DEF ConnectionTypes
<1> DEFINE c == job[w].client
<1>1. c \in Clients /\ job[w] \in Jobs /\ job[w].at # "idle"
  BY BusyHasClient
  DEF CloseStep, CheckClosed, CheckClosing, PushCallback, StartClosing, CloseEnded, CloseWaits,
      JoinClosing, Uses, Does
<1>2. Given(w) \subseteq Callbacks BY <1>1 DEF Given, Jobs
<1>3. ASSUME callbacks' = [callbacks EXCEPT ![c] = @ \cup Given(w)],
             UNCHANGED <<conn, strand, operationVars>>
      PROVE  ConnectionTypes'
  BY <1>1, <1>2, <1>3, OperationsKept
<1>4. CASE CheckClosed(w)
  BY <1>1, <1>4, ConnectionKept, GoTypes DEF CheckClosed, Places, ConnectionPlaces, ClosePlaces
<1>5. CASE CheckClosing(w)
  BY <1>1, <1>5, ConnectionKept, GoTypes DEF CheckClosing, Places, ConnectionPlaces, ClosePlaces
<1>6. CASE PushCallback(w)
  BY <1>1, <1>3, <1>6, GoTypes DEF PushCallback, Places, ConnectionPlaces, ClosePlaces
<1>7. CASE StartClosing(w)
  <2>1. strand' \in [Clients -> Seq(Handlers)] BY <1>1, <1>7, PostTypes DEF StartClosing, Handlers
  <2>2. OperationTypes' BY <1>7, OperationsKept DEF StartClosing
  <2>3. ConnectionTypes' BY <1>1, <1>7, <2>1, <2>2 DEF StartClosing
  <2> QED BY <1>1, <1>7, <2>3, AfterCloseTypes DEF StartClosing
<1>8. CASE CloseEnded(w)
  <2>1. ConnectionTypes'
    <3>1. CASE UNCHANGED connectionVars BY <3>1, ConnectionKept
    <3>2. CASE Delete(c) /\ UNCHANGED <<callbacks, strand>>
      BY <1>1, <3>2, AbortTypes DEF Delete
    <3> QED BY <1>8, <3>1, <3>2 DEF CloseEnded
  <2>2. JobTypes'
    <3>1. CASE job' = [job EXCEPT ![w].at = "aborted", ![w].cb = "none"]
      <4>1. [job[w] EXCEPT !.at = "aborted", !.cb = "none"] \in Jobs BY <1>1 DEF Jobs, Places
      <4>2. [job[w] EXCEPT !.at = "aborted", !.cb = "none"].client \in Clients
        BY <1>1 DEF Jobs
      <4> QED BY <3>1, <4>1, <4>2, JobChange
    <3>2. CASE Return(w) BY <1>1, <3>2, ReturnTypes
    <3>3. CASE Go(w, "waiting")
      BY <1>1, <3>3, GoTypes DEF Places, ConnectionPlaces, ClosePlaces
    <3>4. CASE AfterClose(w) BY <1>1, <3>4, AfterCloseTypes
    <3> QED BY <1>8, <3>1, <3>2, <3>3, <3>4 DEF CloseEnded
  <2> QED BY <2>1, <2>2
<1>9. CASE CloseWaits(w)
  BY <1>1, <1>9, ConnectionKept, GoTypes, AfterCloseTypes
  DEF CloseWaits, Places, ConnectionPlaces, ClosePlaces
<1>10. CASE JoinClosing(w) BY <1>1, <1>3, <1>10, AfterCloseTypes DEF JoinClosing
<1> QED BY <1>4, <1>5, <1>6, <1>7, <1>8, <1>9, <1>10 DEF CloseStep

(* The handlers that start on a free thread. *)
LEMMA StartedHandlerTypes ==
  ASSUME JobTypes, ConnectionTypes, SessionTypes, NEW w \in Workers,
         \/ StrandRead(w) \/ StrandUpgrade(w) \/ StrandClose(w) \/ HandleData(w) \/ HandleError(w)
         \/ HandleFailedWrite(w) \/ HandleHandshake(w) \/ HandleTlsShutdown(w)
  PROVE  JobTypes' /\ ConnectionTypes'
<1> USE DEF ConnectionTypes, Places, ConnectionPlaces, ClosePlaces
<1>1. CASE StrandRead(w)
  <2>1. PICK c \in Clients :
          /\ TakeFromStrand(w, c, "read")
          /\ \/ read' = [read EXCEPT ![c] = "pending"] /\ UNCHANGED job
             \/ StartOnStrand(w, "aborted", c) /\ UNCHANGED read
    BY <1>1 DEF StrandRead
  <2>2. JobTypes' BY <2>1, JobKept, StartTypes
  <2>3. OperationTypes' BY <1>1, <2>1 DEF StrandRead, OperationTypes
  <2> QED BY <1>1, <2>1, <2>2, <2>3, TakeTypes DEF StrandRead
<1>2. CASE StrandUpgrade(w)
  <2>1. PICK c \in Clients :
          /\ TakeFromStrand(w, c, "upgrade")
          /\ handshake' = [handshake EXCEPT ![c] = IF conn[c] = "INSECURE" THEN "inflight" ELSE "none"]
    BY <1>2 DEF StrandUpgrade
  <2>2. OperationTypes' BY <1>2, <2>1 DEF StrandUpgrade, OperationTypes
  <2> QED BY <1>2, <2>1, <2>2, TakeTypes, JobKept DEF StrandUpgrade
<1>3. CASE StrandClose(w)
  <2>1. PICK c \in Clients :
          /\ TakeFromStrand(w, c, "close")
          /\ \/ AbortOperations(c) \/ UNCHANGED operationVars
             \/ /\ read' = Abort(c)
                /\ tlsClosing' = [tlsClosing EXCEPT ![c] = 1]
                /\ tlsClosed' = [tlsClosed EXCEPT ![c] = @ + tlsClosing[c]]
                /\ UNCHANGED handshake
          /\ UNCHANGED job \/ StartOnStrand(w, "announce", c)
    BY <1>3 DEF StrandClose
  <2>2. JobTypes' BY <2>1, JobKept, StartTypes
  <2>3. OperationTypes'
    <3>1. CASE AbortOperations(c) \/ UNCHANGED operationVars
      BY <3>1, AbortTypes, OperationsKept
    <3>2. CASE /\ read' = Abort(c)
               /\ tlsClosing' = [tlsClosing EXCEPT ![c] = 1]
               /\ tlsClosed' = [tlsClosed EXCEPT ![c] = @ + tlsClosing[c]]
               /\ UNCHANGED handshake
      BY <3>2 DEF OperationTypes, Abort
    <3> QED BY <2>1, <3>1, <3>2
  <2> QED BY <1>3, <2>1, <2>2, <2>3, TakeTypes DEF StrandClose
<1>4. CASE HandleData(w)
  <2>1. PICK c \in Clients : read' = [read EXCEPT ![c] = "none"] /\ Start(w, "received", c)
    BY <1>4 DEF HandleData
  <2>2. JobTypes' BY <2>1, StartTypes
  <2> QED BY <1>4, <2>1, <2>2 DEF HandleData, OperationTypes
<1>5. CASE HandleError(w)
  <2>1. PICK c \in Clients : read' = [read EXCEPT ![c] = "none"] /\ CallClose(w, c, "read")
    BY <1>5 DEF HandleError
  <2>2. JobTypes' BY <2>1, StartTypes DEF CallClose, Callbacks
  <2> QED BY <1>5, <2>1, <2>2 DEF HandleError, OperationTypes
<1>6. CASE HandleFailedWrite(w)
  <2>1. PICK c \in Clients : CallClose(w, c, "none") BY <1>6 DEF HandleFailedWrite, SessionTypes
  <2>2. JobTypes' BY <2>1, StartTypes DEF CallClose
  <2> QED BY <1>6, <2>2, ConnectionKept DEF HandleFailedWrite
<1>7. CASE HandleHandshake(w)
  <2>1. PICK c \in Clients :
          /\ handshake' = [handshake EXCEPT ![c] = "done"]
          /\ Start(w, "handshaken", c) \/ Start(w, "refused", c)
    BY <1>7 DEF HandleHandshake
  <2>2. JobTypes' BY <2>1, StartTypes
  <2> QED BY <1>7, <2>1, <2>2 DEF HandleHandshake, OperationTypes
<1>8. CASE HandleTlsShutdown(w)
  <2>1. PICK c \in Clients :
          /\ tlsClosed[c] > 0 /\ read' = Abort(c)
          /\ tlsClosing' = [tlsClosing EXCEPT ![c] = 0]
          /\ tlsClosed' = [tlsClosed EXCEPT ![c] = @ + tlsClosing[c] - 1]
          /\ Start(w, "announce", c)
    BY <1>8 DEF HandleTlsShutdown
  <2>2. JobTypes' BY <2>1, StartTypes
  <2> QED BY <1>8, <2>1, <2>2 DEF HandleTlsShutdown, OperationTypes, Abort
<1> QED BY <1>1, <1>2, <1>3, <1>4, <1>5, <1>6, <1>7, <1>8

(* The handlers that are under way. *)
LEMMA LaterHandlerTypes ==
  ASSUME JobTypes, ConnectionTypes, NEW w \in Workers,
         HandshakeEnded(w) \/ BecomeSecure(w) \/ Announce(w) \/ Collect(w) \/ Dispatch(w)
  PROVE  JobTypes' /\ ConnectionTypes'
<1> USE DEF ConnectionTypes, Places, ConnectionPlaces, ClosePlaces
<1> DEFINE c == job[w].client
           todo == job[w].todo
<1>1. c \in Clients /\ job[w] \in Jobs /\ job[w].at # "idle"
  BY BusyHasClient DEF HandshakeEnded, BecomeSecure, Announce, Collect, Dispatch, Uses, Does
<1>2. CASE HandshakeEnded(w)
  <2>1. JobTypes' BY <1>1, <1>2, GoTypes DEF HandshakeEnded
  <2>2. OperationTypes' BY <1>1, <1>2, AbortTypes, OperationsKept DEF HandshakeEnded
  <2> QED BY <1>2, <2>1, <2>2 DEF HandshakeEnded
<1>3. CASE BecomeSecure(w)
  <2>1. JobTypes' BY <1>1, <1>3, ReturnTypes DEF BecomeSecure
  <2> QED BY <1>1, <1>3, <2>1, OperationsKept DEF BecomeSecure
<1>4. CASE Announce(w)
  <2>1. JobTypes' BY <1>1, <1>4, GoTypes DEF Announce
  <2> QED BY <1>1, <1>4, <2>1, OperationsKept DEF Announce
<1>5. CASE Collect(w)
  <2>1. JobTypes'
    <3>1. CASE job' = [job EXCEPT ![w] = NoJob] BY <3>1, NoJobType, JobChange
    <3>2. CASE job' = [job EXCEPT ![w] =
                        [job[w] EXCEPT !.at = "dispatch", !.todo = callbacks[c]]]
      <4>1. [job[w] EXCEPT !.at = "dispatch", !.todo = callbacks[c]] \in Jobs
        BY <1>1 DEF Jobs
      <4>2. [job[w] EXCEPT !.at = "dispatch", !.todo = callbacks[c]].client \in Clients
        BY <1>1 DEF Jobs
      <4> QED BY <3>2, <4>1, <4>2, JobChange
    <3> QED BY <1>5, <3>1, <3>2 DEF Collect
  <2> QED BY <1>1, <1>5, <2>1, OperationsKept DEF Collect
<1>6. CASE Dispatch(w)
  <2>1. CASE /\ job' = [job EXCEPT ![w].at = "aborted", ![w].todo = @ \ {"read"}]
             /\ UNCHANGED <<conn, operationVars>>
    <3>1. [job[w] EXCEPT !.at = "aborted", !.todo = @ \ {"read"}] \in Jobs BY <1>1 DEF Jobs
    <3>2. [job[w] EXCEPT !.at = "aborted", !.todo = @ \ {"read"}].client \in Clients
      BY <1>1 DEF Jobs
    <3>3. JobTypes' BY <2>1, <3>1, <3>2, JobChange
    <3> QED BY <1>6, <2>1, <3>3, OperationsKept DEF Dispatch
  <2>2. CASE /\ Delete(c)
             /\ job' = [job EXCEPT ![w] = IF @.todo = {"delete"} THEN NoJob
                          ELSE [@ EXCEPT !.todo = {"read"}]]
    <3>1. [job[w] EXCEPT !.todo = {"read"}] \in Jobs BY <1>1 DEF Jobs, Callbacks
    <3>2. [job[w] EXCEPT !.todo = {"read"}].client \in Clients BY <1>1 DEF Jobs
    <3>3. JobTypes' BY <2>2, <3>1, <3>2, NoJobType, JobChange
    <3> QED BY <1>1, <1>6, <2>2, <3>3, AbortTypes DEF Dispatch, Delete
  <2> QED BY <1>6, <2>1, <2>2 DEF Dispatch
<1> QED BY <1>2, <1>3, <1>4, <1>5, <1>6

LEMMA UseAfterDeleteTypes ==
  ASSUME JobTypes, ConnectionTypes, NEW w \in Workers, UseAfterDelete(w)
  PROVE  JobTypes' /\ ConnectionTypes'
<1> USE DEF ConnectionTypes
<1>1. CASE /\ job[w].at \in ConnectionPlaces /\ AfterClose(w)
           /\ UNCHANGED <<strand, operationVars>>
  <2>1. job[w].at # "idle" BY <1>1 DEF ConnectionPlaces, ClosePlaces
  <2>2. JobTypes' BY <1>1, <2>1, AfterCloseTypes
  <2> QED BY <1>1, <2>2, OperationsKept DEF UseAfterDelete
<1>2. ASSUME UNCHANGED job, NEW c \in Clients,
             \/ /\ strand[c] # <<>>
                /\ strand' = [strand EXCEPT ![c] = Tail(@)]
                /\ UNCHANGED operationVars
             \/ /\ read' = [read EXCEPT ![c] = "none"]
                /\ UNCHANGED <<strand, handshake, tlsClosing, tlsClosed>>
             \/ /\ handshake' = [handshake EXCEPT ![c] = "done"]
                /\ UNCHANGED <<strand, read, tlsClosing, tlsClosed>>
             \/ /\ tlsClosed[c] > 0
                /\ tlsClosed' = [tlsClosed EXCEPT ![c] = @ - 1]
                /\ UNCHANGED <<strand, read, handshake, tlsClosing>>
      PROVE  JobTypes' /\ ConnectionTypes'
  <2>1. strand' \in [Clients -> Seq(Handlers)]
    <3>1. CASE UNCHANGED strand BY <3>1
    <3>2. CASE strand[c] # <<>> /\ strand' = [strand EXCEPT ![c] = Tail(@)] BY <3>2
    <3> QED BY <1>2, <3>1, <3>2
  <2>2. OperationTypes'
    <3>1. CASE UNCHANGED operationVars BY <3>1, OperationsKept
    <3>2. CASE read' = [read EXCEPT ![c] = "none"] /\ UNCHANGED <<handshake, tlsClosing, tlsClosed>>
      BY <3>2 DEF OperationTypes
    <3>3. CASE handshake' = [handshake EXCEPT ![c] = "done"] /\ UNCHANGED <<read, tlsClosing, tlsClosed>>
      BY <3>3 DEF OperationTypes
    <3>4. CASE /\ tlsClosed[c] > 0 /\ tlsClosed' = [tlsClosed EXCEPT ![c] = @ - 1]
               /\ UNCHANGED <<read, handshake, tlsClosing>>
      BY <3>4 DEF OperationTypes
    <3> QED BY <1>2, <3>1, <3>2, <3>3, <3>4
  <2> QED BY <1>2, <2>1, <2>2, JobKept DEF UseAfterDelete
<1> QED BY <1>1, <1>2 DEF UseAfterDelete

LEMMA ConnectionStepTypes ==
  ASSUME TypeOK, NEW w \in Workers, ConnectionStep(w)
  PROVE  TypeOK'
<1> USE DEF TypeOK
<1>1. CASE CloseStep(w)
  BY <1>1, CloseStepTypes, SessionKept, ManagerKept, ListenerKept DEF CloseStep
<1>2. CASE HandlerStep(w)
  BY <1>2, StartedHandlerTypes, LaterHandlerTypes, SessionKept, ManagerKept, ListenerKept
  DEF HandlerStep
<1>3. CASE Observe(w)
  <2>1. job[w].at # "idle" /\ job[w].client \in Clients
    BY <1>3, BusyHasClient DEF Observe, Uses, Does
  <2>2. JobTypes' BY <1>3, <2>1, GoTypes DEF Observe, Places, ConnectionPlaces
  <2>3. SessionTypes' BY <1>3, <2>1 DEF Observe, SessionTypes
  <2>4. MainTypes' BY <1>3, <2>1, UsesSessionTypes DEF Observe, MainTypes
  <2> QED BY <1>3, <2>2, <2>3, <2>4, ConnectionKept, ManagerKept, ListenerKept
          DEF Observe, MainTypes
<1>4. CASE UseAfterDelete(w)
  BY <1>4, UseAfterDeleteTypes, SessionKept, ManagerKept, ListenerKept DEF UseAfterDelete
<1> QED BY <1>1, <1>2, <1>3, <1>4 DEF ConnectionStep

LEMMA GiveUpTypes ==
  ASSUME JobTypes, SessionTypes, NEW w \in Workers, job[w].at # "idle", NEW c \in Clients,
         GiveUp(w, c), UNCHANGED <<session, completed, silent, served>>
  PROVE  JobTypes' /\ SessionTypes'
<1>1. JobTypes'
  <2>1. [job[w] EXCEPT !.at = "close", !.cb = "delete"] \in Jobs
    BY BusyHasClient DEF Jobs, Places, ConnectionPlaces, ClosePlaces, Callbacks
  <2>2. [job[w] EXCEPT !.at = "close", !.cb = "delete"].client \in Clients
    BY BusyHasClient DEF Jobs
  <2>3. CASE job' = [job EXCEPT ![w].at = "close", ![w].cb = "delete"]
    BY <2>1, <2>2, <2>3, JobChange
  <2> QED BY <2>3, ReturnTypes DEF GiveUp
<1>2. SessionTypes' BY DEF GiveUp, LetGo, SessionTypes
<1> QED BY <1>1, <1>2

LEMMA SessionStepTypes ==
  ASSUME TypeOK, NEW w \in Workers, SessionStep(w)
  PROVE  TypeOK'
<1> USE DEF TypeOK
<1> DEFINE c == job[w].client
<1>1. CASE Aborted(w)
  <2>1. c \in Clients /\ job[w].at # "idle" BY <1>1, BusyHasClient DEF Aborted, Does
  <2>2. JobTypes' /\ SessionTypes' BY <1>1, <2>1, GiveUpTypes DEF Aborted
  <2>3. misuse' \subseteq {"session", "connection"}
    BY <1>1, <2>1, UsesSessionTypes DEF Aborted, MainTypes
  <2> QED BY <1>1, <2>2, <2>3, ConnectionKept, ManagerKept, ListenerKept DEF Aborted
<1>2. CASE Received(w)
  <2>1. c \in Clients /\ job[w].at # "idle" BY <1>2, BusyHasClient DEF Received, Does
  <2>2. JobTypes' /\ SessionTypes'
    <3>1. CASE c \in stopped \cup released BY <1>2, <2>1, <3>1, GiveUpTypes DEF Received
    <3>2. CASE c \notin stopped \cup released
      <4>1. JobTypes' BY <1>2, <2>1, <3>2, GoTypes DEF Received, Places
      <4>2. SessionTypes' BY <1>2, <2>1, <3>2 DEF Received, SessionTypes
      <4> QED BY <4>1, <4>2
    <3> QED BY <3>1, <3>2
  <2>3. misuse' \subseteq {"session", "connection"}
    BY <1>2, <2>1, UsesSessionTypes DEF Received, MainTypes
  <2> QED BY <1>2, <2>2, <2>3, ConnectionKept, ManagerKept, ListenerKept DEF Received
<1>3. CASE ShutdownOnToken(w)
  <2>1. c \in Clients /\ job[w].at # "idle" BY <1>3, BusyHasClient DEF ShutdownOnToken, Does
  <2>2. JobTypes'
    <3>1. [job[w] EXCEPT !.at = "close", !.cb = "delete", !.inTokens = TRUE] \in Jobs
      BY <2>1, BusyHasClient DEF Jobs, Places, ConnectionPlaces, ClosePlaces, Callbacks
    <3>2. [job[w] EXCEPT !.at = "close", !.cb = "delete", !.inTokens = TRUE].client \in Clients
      BY <2>1, BusyHasClient DEF Jobs
    <3>3. job' = [job EXCEPT ![w] =
                   [job[w] EXCEPT !.at = "close", !.cb = "delete", !.inTokens = TRUE]]
      BY <1>3, Zenon DEF ShutdownOnToken
    <3> QED BY <3>1, <3>2, <3>3, JobChange
  <2>3. SessionTypes' BY <1>3, <2>1 DEF ShutdownOnToken, LetGo, SessionTypes
  <2>4. misuse' \subseteq {"session", "connection"}
    BY <1>3, <2>1, UsesSessionTypes DEF ShutdownOnToken, MainTypes
  <2> QED BY <1>3, <2>2, <2>3, <2>4, ConnectionKept, ManagerKept, ListenerKept DEF ShutdownOnToken
<1>4. CASE Process(w)
  <2>1. c \in Clients /\ job[w].at # "idle" BY <1>4, BusyHasClient DEF Process, Does
  <2>2. JobTypes' BY <1>4, <2>1, ReturnTypes, GoTypes DEF Process, Places
  <2>3. strand' \in [Clients -> Seq(Handlers)]
    BY <1>4, <2>1, PostTypes DEF Process, Handlers, ConnectionTypes
  <2>4. ConnectionTypes' BY <1>4, <2>3, OperationsKept DEF Process, ConnectionTypes
  <2>5. misuse' \subseteq {"session", "connection"}
    BY <1>4, <2>1, UsesSessionTypes DEF Process, MainTypes
  <2> QED BY <1>4, <2>2, <2>4, <2>5, SessionKept, ManagerKept, ListenerKept DEF Process
<1>5. CASE Upgrade(w)
  <2>1. c \in Clients BY <1>5, BusyHasClient DEF Upgrade, Does
  <2>2. strand' \in [Clients -> Seq(Handlers)]
    BY <1>5, <2>1, PostTypes DEF Upgrade, Handlers, ConnectionTypes
  <2>3. OperationTypes' BY <1>5, <2>1 DEF Upgrade, ConnectionTypes, OperationTypes
  <2>4. ConnectionTypes' BY <1>5, <2>2, <2>3 DEF Upgrade, ConnectionTypes
  <2>5. misuse' \subseteq {"session", "connection"}
    BY <1>5, <2>1, UsesSessionTypes DEF Upgrade, MainTypes
  <2> QED BY <1>5, <2>4, <2>5, JobKept, SessionKept, ManagerKept, ListenerKept DEF Upgrade
<1>6. CASE Notify(w)
  <2>1. c \in Clients /\ job[w].at # "idle" BY <1>6, BusyHasClient DEF Notify, Does
  <2>2. JobTypes'
    <3>1. [job[w] EXCEPT !.at = "tokens", !.inTokens = FALSE] \in Jobs
      BY <2>1, BusyHasClient DEF Jobs, Places
    <3>2. [job[w] EXCEPT !.at = "tokens", !.inTokens = FALSE].client \in Clients
      BY <2>1, BusyHasClient DEF Jobs
    <3>3. CASE job' = [job EXCEPT ![w].at = "tokens", ![w].inTokens = FALSE]
      BY <3>1, <3>2, <3>3, JobChange
    <3> QED BY <1>6, <2>1, <3>3, ReturnTypes DEF Notify
  <2>3. SessionTypes' BY <1>6, <2>1 DEF Notify, SessionTypes
  <2>4. ManagerTypes' BY <1>6, <2>1 DEF Notify, Unregister, ManagerTypes
  <2> QED BY <1>6, <2>2, <2>3, <2>4, ConnectionKept, ListenerKept DEF Notify
<1>7. CASE DeleteSession(w)
  <2>1. SessionTypes' BY <1>7 DEF DeleteSession, SessionTypes
  <2>2. ManagerTypes' BY <1>7 DEF DeleteSession, ManagerTypes
  <2> QED BY <1>7, <2>1, <2>2, JobKept, ConnectionKept, ListenerKept DEF DeleteSession
<1> QED BY <1>1, <1>2, <1>3, <1>4, <1>5, <1>6, <1>7 DEF SessionStep

LEMMA MainStepTypes ==
  ASSUME TypeOK, Stop \/ Destroy \/ ShutdownNext \/ Restart \/ Finish
  PROVE  TypeOK'
<1> USE DEF TypeOK
<1>1. CASE Stop
  BY <1>1, JobKept, ConnectionKept, SessionKept, ManagerKept, ListenerKept DEF Stop
<1>2. CASE Destroy
  <2>1. ListenerTypes' BY <1>2 DEF Destroy, ListenerTypes
  <2>2. ManagerTypes' BY <1>2 DEF Destroy, ManagerTypes
  <2> QED BY <1>2, <2>1, <2>2, JobKept, ConnectionKept, SessionKept DEF Destroy
<1>3. CASE ShutdownNext
  <2>1. PICK c \in leaving \ silent :
          /\ silent' = silent \cup {c} /\ completed' = completed \cup {c}
          /\ ShutdownSession(c)
    BY <1>3 DEF ShutdownNext
  <2>2. c \in Clients BY DEF ManagerTypes
  <2>3. SessionTypes' BY <1>3, <2>1, <2>2 DEF ShutdownNext, ShutdownSession, LetGo, SessionTypes
  <2>4. ConnectionTypes' BY <2>1, <2>2, ConnectionKept, CloseForGoodTypes DEF ShutdownSession
  <2> QED BY <1>3, <2>3, <2>4, JobKept, ManagerKept, ListenerKept DEF ShutdownNext
<1>4. CASE Restart
  BY <1>4, JobKept, ConnectionKept, SessionKept, ManagerKept, ListenerKept DEF Restart
<1>5. CASE Finish
  <2>1. SessionTypes' BY <1>5 DEF Finish, SessionTypes
  <2>2. ManagerTypes' BY <1>5 DEF Finish, ManagerTypes
  <2> QED BY <1>5, <2>1, <2>2, JobKept, ConnectionKept, ListenerKept DEF Finish
<1> QED BY <1>1, <1>2, <1>3, <1>4, <1>5

LEMMA ClientStepTypes ==
  ASSUME TypeOK, ClientStep
  PROVE  TypeOK'
<1> USE DEF TypeOK
<1>1. ListenerTypes'
  BY DEF ClientStep, Connect, AcceptFails, ReadEnds, HandshakeEnds, TlsShutdownEnds, ListenerTypes
<1>2. ConnectionTypes'
  <2>1. CASE Connect BY <2>1, OperationsKept DEF Connect, ConnectionTypes
  <2>2. CASE AcceptFails BY <2>2, ConnectionKept DEF AcceptFails
  <2>3. CASE ReadEnds BY <2>3 DEF ReadEnds, ConnectionTypes, OperationTypes
  <2>4. CASE HandshakeEnds BY <2>4 DEF HandshakeEnds, ConnectionTypes, OperationTypes
  <2>5. CASE TlsShutdownEnds BY <2>5 DEF TlsShutdownEnds, ConnectionTypes, OperationTypes
  <2> QED BY <2>1, <2>2, <2>3, <2>4, <2>5 DEF ClientStep
<1> QED BY <1>1, <1>2, JobKept, SessionKept, ManagerKept DEF ClientStep

LEMMA TypeStep == TypeOK /\ [Next]_vars => TypeOK'
<1> SUFFICES ASSUME TypeOK, [Next]_vars PROVE TypeOK' OBVIOUS
<1>1. \A w \in Workers : WorkerStep(w) => TypeOK'
  BY AcceptTypes, ConnectionStepTypes, SessionStepTypes DEF WorkerStep
<1>2. CASE UNCHANGED vars
  BY <1>2, JobKept, ConnectionKept, SessionKept, ManagerKept, ListenerKept DEF vars, TypeOK
<1> QED BY <1>1, <1>2, ClientStepTypes, MainStepTypes DEF Next, MainStep, Workers

(* Every variable of the server keeps its type, and a thread that is not     *)
(* idle works for a client (ClientConnectionManager.cpp, main.cpp:120-146).  *)
THEOREM TypeCorrect == Spec => []TypeOK
  BY TypeInit, TypeStep, PTL DEF Spec

-----------------------------------------------------------------------------
(* The invariant behind OwnedOnce and KeepsListening: a client is accepted    *)
(* once, before it has a session; no handler or thread works for a client     *)
(* that has never had one; and only ~ClientConnectionManager aborts an accept. *)
Started(c) == session[c] # "none"

AcceptedOnce ==
  /\ \A a \in Acceptors :
       accept[a] \in Clients =>
         /\ conn[accept[a]] = "accepted"
         /\ \A b \in Acceptors : accept[b] = accept[a] => a = b
  /\ \A c \in Clients : Started(c) => conn[c] \notin {"none", "accepted"}
  /\ listening => \A a \in Acceptors : accept[a] # "aborted"

Untouched(c) ==
  /\ strand[c] = <<>> /\ read[c] = "none" /\ handshake[c] = "none"
  /\ tlsClosing[c] = 0 /\ tlsClosed[c] = 0 /\ c \notin served

StartedFirst ==
  /\ \A c \in Clients : ~Started(c) => Untouched(c)
  /\ \A w \in Workers : job[w].at # "idle" => Started(job[w].client)

TakenOver == leaving # {} => phase \in {"closing", "draining"}

Inv == TypeOK /\ AcceptedOnce /\ StartedFirst /\ TakenOver /\ OwnedOnce /\ KeepsListening

ownershipVars == <<phase, registry, leaving, deletions, session>>

LEMMA OwnedKept == OwnedOnce /\ UNCHANGED ownershipVars => OwnedOnce'
  BY DEF OwnedOnce, ownershipVars

LEMMA InvInit == Init => Inv
<1> SUFFICES ASSUME Init PROVE Inv OBVIOUS
<1>1. AcceptedOnce BY ClientsAssumption DEF Init, AcceptedOnce, Started
<1>2. StartedFirst BY DEF Init, StartedFirst, Untouched, NoJob
<1>3. OwnedOnce BY DEF Init, OwnedOnce
<1>4. KeepsListening /\ TakenOver BY DEF Init, KeepsListening, TakenOver
<1> QED BY <1>1, <1>2, <1>3, <1>4, TypeInit DEF Inv

-----------------------------------------------------------------------------
(* A step that works for one client leaves the connections of the others      *)
(* alone, and the job of a thread is for the client or it is none.           *)
Untouches(c) ==
  /\ conn'[c] = conn[c] /\ strand'[c] = strand[c] /\ read'[c] = read[c]
  /\ handshake'[c] = handshake[c] /\ tlsClosing'[c] = tlsClosing[c]
  /\ tlsClosed'[c] = tlsClosed[c]
  /\ c \in served' <=> c \in served

IsStarted(c) == conn'[c] \notin {"none", "accepted"}

WorksFor(w, c) ==
  /\ \A d \in Clients : d # c => Untouches(d)
  /\ IsStarted(c)
  /\ \A v \in Workers : v # w => job'[v] = job[v]
  /\ job'[w].at # "idle" => job'[w].client = c

LEMMA WorksStarted ==
  ASSUME TypeOK, TypeOK', StartedFirst, NEW w \in Workers, NEW c \in Clients, Started(c),
         WorksFor(w, c), UNCHANGED session
  PROVE  StartedFirst'
<1>1. \A d \in Clients : Started(d)' <=> Started(d) BY DEF Started
<1>2. ASSUME NEW d \in Clients, ~Started(d)' PROVE Untouched(d)'
  <2>1. d # c BY <1>1, <1>2
  <2>2. Untouched(d) /\ Untouches(d) BY <1>1, <1>2, <2>1 DEF StartedFirst, WorksFor
  <2> QED BY <2>2 DEF Untouches, Untouched
<1>3. ASSUME NEW v \in Workers, job'[v].at # "idle" PROVE Started(job[v].client)'
  <2>1. CASE v = w BY <1>3, <2>1 DEF WorksFor, Started
  <2>2. CASE v # w BY <1>3, <2>2 DEF WorksFor, StartedFirst, Started
  <2> QED BY <2>1, <2>2
<1> QED BY <1>2, <1>3 DEF StartedFirst

LEMMA WorksInv ==
  ASSUME Inv, TypeOK', NEW w \in Workers, NEW c \in Clients, Started(c), WorksFor(w, c),
         UNCHANGED <<listenerVars, ownershipVars>>
  PROVE  Inv'
<1>1. UNCHANGED session /\ StartedFirst' BY WorksStarted DEF Inv, ownershipVars
<1>2. AcceptedOnce'
  <2>1. \A d \in Clients : d # c => conn'[d] = conn[d] BY DEF WorksFor, Untouches
  <2>2. \A a \in Acceptors : accept[a] \in Clients => accept[a] # c
    BY DEF Inv, AcceptedOnce
  <2>3. \A d \in Clients : Started(d)' => conn'[d] \notin {"none", "accepted"}
    BY <1>1, <2>1 DEF Inv, AcceptedOnce, Started, WorksFor, IsStarted
  <2> QED BY <1>1, <2>1, <2>2, <2>3 DEF Inv, AcceptedOnce, listenerVars
<1>3. OwnedOnce' BY OwnedKept DEF Inv
<1>4. KeepsListening' /\ TakenOver'
  BY DEF Inv, KeepsListening, TakenOver, listenerVars, ownershipVars
<1> QED BY <1>1, <1>2, <1>3, <1>4 DEF Inv

(* What the operators do to the jobs. *)
LEMMA StartJob ==
  ASSUME JobTypes, NEW w \in Workers, NEW place, NEW c,
         Start(w, place, c) \/ StartOnStrand(w, place, c)
         \/ \E callback : job' = [job EXCEPT ![w] = [Job(place, c) EXCEPT !.cb = callback]]
  PROVE  job'[w].client = c /\ \A v \in Workers : v # w => job'[v] = job[v]
  BY DEF JobTypes, Start, StartOnStrand, Job, NoJob

LEMMA GoJob ==
  ASSUME JobTypes, NEW w \in Workers, NEW place, Go(w, place)
  PROVE  /\ job'[w].client = job[w].client /\ \A v \in Workers : v # w => job'[v] = job[v]
  BY DEF JobTypes, Jobs, Go

LEMMA ReturnJob ==
  ASSUME JobTypes, NEW w \in Workers, Return(w)
  PROVE  /\ job'[w].at # "idle" => job'[w].client = job[w].client
         /\ \A v \in Workers : v # w => job'[v] = job[v]
<1>1. CASE job[w].todo = {} BY <1>1 DEF Return, JobTypes, NoJob
<1>2. CASE job[w].todo # {} BY <1>2 DEF Return, JobTypes, Jobs
<1> QED BY <1>1, <1>2

LEMMA AfterCloseJob ==
  ASSUME JobTypes, NEW w \in Workers, AfterClose(w)
  PROVE  /\ job'[w].at # "idle" => job'[w].client = job[w].client
         /\ \A v \in Workers : v # w => job'[v] = job[v]
<1>1. CASE job[w].cb = "delete" BY <1>1 DEF AfterClose, JobTypes, Jobs
<1>2. CASE job[w].cb # "delete" BY <1>2, ReturnJob DEF AfterClose
<1> QED BY <1>1, <1>2

(* What the operators do to the connections of other clients. *)
LEMMA AbortOthers ==
  ASSUME OperationTypes, NEW c \in Clients, AbortOperations(c)
  PROVE  \A d \in Clients : d # c => /\ read'[d] = read[d] /\ handshake'[d] = handshake[d]
                                     /\ tlsClosing'[d] = tlsClosing[d]
                                     /\ tlsClosed'[d] = tlsClosed[d]
  BY DEF OperationTypes, AbortOperations, Abort

LEMMA PostOthers ==
  ASSUME ConnectionTypes, NEW c \in Clients, NEW handler, Post(c, handler)
  PROVE  \A d \in Clients : d # c => strand'[d] = strand[d]
  BY DEF ConnectionTypes, Post

LEMMA TakeOthers ==
  ASSUME Inv, NEW c \in Clients, NEW w, NEW handler, TakeFromStrand(w, c, handler)
  PROVE  Started(c) /\ \A d \in Clients : d # c => strand'[d] = strand[d]
  BY DEF Inv, TypeOK, ConnectionTypes, StartedFirst, Untouched, TakeFromStrand

LEMMA CloseForGoodOthers ==
  ASSUME ConnectionTypes, NEW c \in Clients, CloseForGood(c), UNCHANGED served
  PROVE  IsStarted(c) /\ \A d \in Clients : d # c => Untouches(d)
<1>1. CASE conn[c] = "CLOSED"
  BY <1>1, AbortOthers DEF ConnectionTypes, CloseForGood, Delete, Untouches, IsStarted
<1>2. CASE conn[c] # "CLOSED"
  <2>1. \A d \in Clients : d # c => strand'[d] = strand[d]
    BY <1>2, PostOthers DEF CloseForGood
  <2> QED BY <1>2, <2>1 DEF ConnectionTypes, CloseForGood, Untouches, IsStarted, operationVars
<1> QED BY <1>1, <1>2

LEMMA BusyStarted ==
  ASSUME Inv, NEW w \in Workers, job[w].at # "idle"
  PROVE  job[w].client \in Clients /\ Started(job[w].client) /\ job[w] \in Jobs
  BY BusyHasClient DEF Inv, TypeOK, StartedFirst

-----------------------------------------------------------------------------
(* The steps.                                                               *)

(* An accept handler gives a session to a client that has none. *)
LEMMA AcceptInv ==
  ASSUME Inv, NEW w \in Workers, HandleAccept(w)
  PROVE  Inv'
<1> USE DEF Inv, TypeOK, ListenerTypes, Started
<1>1. PICK a \in Acceptors :
        /\ AcceptAgain(a)
        /\ \/ /\ accept[a] \in {"failed", "aborted"}
              /\ UNCHANGED <<registry, session, stopped, conn, strand>>
           \/ accept[a] \in Clients /\ StartSession(accept[a])
           \/ /\ accept[a] \in Clients
              /\ conn' = [conn EXCEPT ![accept[a]] = "deleted"]
              /\ UNCHANGED <<registry, session, stopped, strand>>
  BY DEF HandleAccept
<1>2. /\ \A b \in Acceptors : b # a => accept'[b] = accept[b]
      /\ accept'[a] = IF listening THEN "pending" ELSE "none"
      /\ accept'[a] \notin Clients
      /\ listening' = listening /\ leaving' = leaving /\ deletions' = deletions
      /\ UNCHANGED <<operationVars, served, job, phase>>
  BY <1>1, ClientsAssumption DEF AcceptAgain, AcceptedOnce, HandleAccept
<1>3. KeepsListening' BY <1>2 DEF KeepsListening
<1>4. TakenOver' BY <1>2 DEF TakenOver
<1>5. TypeOK' BY AcceptTypes
<1>6. CASE accept[a] \in {"failed", "aborted"}
  <2>1. UNCHANGED <<registry, session, conn, strand>> BY <1>1, <1>6, ClientsAssumption
  <2>2. OwnedOnce' BY <1>2, <2>1, OwnedKept DEF ownershipVars
  <2>3. AcceptedOnce' BY <1>2, <2>1 DEF AcceptedOnce
  <2>4. StartedFirst' BY <1>2, <2>1 DEF StartedFirst, Untouched, operationVars
  <2> QED BY <1>3, <1>4, <1>5, <2>2, <2>3, <2>4
<1>7. CASE accept[a] \in Clients
  <2> DEFINE c == accept[a]
  <2>1. conn[c] = "accepted" /\ session[c] = "none" BY <1>7 DEF AcceptedOnce, SessionTypes
  <2>2. \A b \in Acceptors : b # a => accept[b] # c BY <1>7 DEF AcceptedOnce
  <2>3. PICK new \in {"INSECURE", "deleted"} : conn' = [conn EXCEPT ![c] = new]
    BY <1>1, <1>7, ClientsAssumption DEF StartSession
  <2>4. \/ UNCHANGED <<registry, session>>
        \/ /\ session' = [session EXCEPT ![c] = "live"]
           /\ registry' = registry \cup {c}
    BY <1>1, <1>7, ClientsAssumption DEF StartSession
  <2>5. conn'[c] \notin {"none", "accepted"} BY <1>7, <2>3 DEF ConnectionTypes
  <2>6. OwnedOnce'
    <3>1. c \notin registry \cup leaving /\ deletions[c] = 0
      BY <1>7, <2>1 DEF OwnedOnce, ManagerTypes
    <3>2. CASE UNCHANGED <<registry, session>>
      BY <1>2, <3>2, OwnedKept DEF ownershipVars
    <3>3. CASE session' = [session EXCEPT ![c] = "live"] /\ registry' = registry \cup {c}
      BY <1>2, <1>7, <3>1, <3>3 DEF OwnedOnce, ManagerTypes, SessionTypes
    <3> QED BY <2>4, <3>2, <3>3
  <2>7. AcceptedOnce'
    <3>1. \A b \in Acceptors : accept'[b] \in Clients => b # a /\ accept'[b] # c
      BY <1>2, <2>2
    <3>2. \A d \in Clients : d # c => conn'[d] = conn[d] /\ session'[d] = session[d]
      BY <2>3, <2>4 DEF ConnectionTypes, SessionTypes
    <3>3. listening' => \A b \in Acceptors : accept'[b] # "aborted"
      BY <1>2 DEF AcceptedOnce
    <3> QED BY <1>2, <2>5, <3>1, <3>2, <3>3 DEF AcceptedOnce
  <2>8. StartedFirst'
    <3>1. \A d \in Clients : Started(d) => session'[d] # "none"
      BY <2>1, <2>4 DEF SessionTypes
    <3>2. \A d \in Clients : session'[d] = "none" => strand'[d] = strand[d]
      BY <1>1, <1>7, ClientsAssumption, PostOthers DEF StartSession, SessionTypes
    <3>3. \A d \in Clients : session'[d] = "none" => Untouched(d)'
      BY <1>2, <3>1, <3>2 DEF StartedFirst, Untouched, operationVars
    <3>4. \A v \in Workers : job'[v].at # "idle" => session'[job'[v].client] # "none"
      BY <1>2, <3>1, BusyHasClient DEF StartedFirst
    <3> QED BY <3>3, <3>4 DEF StartedFirst
  <2> QED BY <1>3, <1>4, <1>5, <2>6, <2>7, <2>8
<1> QED BY <1>1, <1>6, <1>7

LEMMA CloseStepWorks ==
  ASSUME Inv, NEW w \in Workers, CloseStep(w)
  PROVE  job[w].at # "idle" /\ WorksFor(w, job[w].client)
<1> USE DEF Inv, TypeOK, ConnectionTypes
<1> DEFINE c == job[w].client
<1>1. job[w].at # "idle"
  BY DEF CloseStep, CheckClosed, CheckClosing, PushCallback, StartClosing, CloseEnded,
         CloseWaits, JoinClosing, Uses, Does
<1>2. c \in Clients /\ Started(c) /\ conn[c] \notin {"none", "accepted"}
  BY <1>1, BusyStarted DEF AcceptedOnce
<1>3. UNCHANGED served BY DEF CloseStep, sessionVars
<1>4. \/ Go(w, "ended") \/ Go(w, "stillOpen") \/ Go(w, "push") \/ Go(w, "closing")
      \/ Go(w, "waiting") \/ Go(w, "join") \/ Return(w) \/ AfterClose(w)
      \/ job' = [job EXCEPT ![w].at = "aborted", ![w].cb = "none"]
  BY DEF CloseStep, CheckClosed, CheckClosing, PushCallback, StartClosing, CloseEnded,
         CloseWaits, JoinClosing
<1>5. /\ job'[w].at # "idle" => job'[w].client = c
      /\ \A v \in Workers : v # w => job'[v] = job[v]
  <2>1. CASE job' = [job EXCEPT ![w].at = "aborted", ![w].cb = "none"]
    BY <2>1 DEF JobTypes, Jobs
  <2> QED BY <1>4, <2>1, GoJob, ReturnJob, AfterCloseJob
<1>6. \/ UNCHANGED <<conn, strand, operationVars>>
      \/ /\ conn' = [conn EXCEPT ![c] = "CLOSING"] /\ Post(c, "close")
         /\ UNCHANGED operationVars
      \/ /\ Delete(c) /\ UNCHANGED strand
  BY DEF CloseStep, CheckClosed, CheckClosing, PushCallback, StartClosing, CloseEnded,
         CloseWaits, JoinClosing, connectionVars
<1>7. IsStarted(c) /\ \A d \in Clients : d # c => Untouches(d)
  <2>1. CASE UNCHANGED <<conn, strand, operationVars>>
    BY <1>2, <1>3, <1>5, <2>1 DEF Untouches, IsStarted, operationVars
  <2>2. CASE conn' = [conn EXCEPT ![c] = "CLOSING"] /\ Post(c, "close") /\ UNCHANGED operationVars
    <3>1. \A d \in Clients : d # c => strand'[d] = strand[d] BY <1>2, <2>2, PostOthers
    <3> QED BY <1>2, <1>3, <1>5, <2>2, <3>1 DEF Untouches, IsStarted, operationVars
  <2>3. CASE Delete(c) /\ UNCHANGED strand
    BY <1>2, <1>3, <1>5, <2>3, AbortOthers DEF Delete, Untouches, IsStarted
  <2> QED BY <1>6, <2>1, <2>2, <2>3
<1> QED BY <1>1, <1>5, <1>7 DEF WorksFor

(* What a handler does for its client c, when a thread takes it. *)
StartsFor(w, c) ==
  /\ job[w] = NoJob
  /\ UNCHANGED <<conn, callbacks>>
  /\ \/ /\ TakeFromStrand(w, c, "read")
        /\ UNCHANGED job \/ StartOnStrand(w, "aborted", c)
        /\ UNCHANGED <<handshake, tlsClosing, tlsClosed>>
     \/ /\ TakeFromStrand(w, c, "upgrade")
        /\ handshake' = [handshake EXCEPT ![c] = IF conn[c] = "INSECURE" THEN "inflight" ELSE "none"]
        /\ UNCHANGED <<tlsClosing, tlsClosed, job>>
     \/ /\ TakeFromStrand(w, c, "close")
        /\ \/ GateClosed(c) /\ AbortOperations(c) /\ UNCHANGED job
           \/ /\ tlsClosing' = [tlsClosing EXCEPT ![c] = 1]
              /\ tlsClosed' = [tlsClosed EXCEPT ![c] = @ + tlsClosing[c]]
              /\ UNCHANGED <<handshake, job>>
           \/ /\ AbortOperations(c) \/ UNCHANGED operationVars
              /\ StartOnStrand(w, "announce", c)
     \/ /\ Start(w, "received", c) \/ CallClose(w, c, "read") \/ CallClose(w, c, "none")
        /\ UNCHANGED <<strand, handshake, tlsClosing, tlsClosed>>
     \/ /\ GateClosed(c) /\ handshake' = [handshake EXCEPT ![c] = "done"]
        /\ Start(w, "handshaken", c) \/ Start(w, "refused", c)
        /\ UNCHANGED <<strand, tlsClosing, tlsClosed>>
     \/ Start(w, "announce", c) /\ UNCHANGED <<strand, handshake>>

LEMMA StartedHandlerWorks ==
  ASSUME Inv, NEW w \in Workers, UNCHANGED served,
         \/ StrandRead(w) \/ StrandUpgrade(w) \/ StrandClose(w) \/ HandleData(w) \/ HandleError(w)
         \/ HandleFailedWrite(w) \/ HandleHandshake(w) \/ HandleTlsShutdown(w)
  PROVE  \E c \in Clients : Started(c) /\ WorksFor(w, c) /\ StartsFor(w, c)
<1> USE DEF Inv, TypeOK
<1>1. Free(w) /\ job[w].at = "idle" /\ job[w] = NoJob
  BY DEF StrandRead, StrandUpgrade, StrandClose, HandleData, HandleError, HandleFailedWrite,
         HandleHandshake, HandleTlsShutdown, TakeFromStrand, Free, NoJob
<1>2. ASSUME NEW c \in Clients, Started(c), UNCHANGED conn, StartsFor(w, c),
             /\ job'[w].at # "idle" => job'[w].client = c
             /\ \A v \in Workers : v # w => job'[v] = job[v],
             \A d \in Clients : d # c => /\ strand'[d] = strand[d] /\ read'[d] = read[d]
                                         /\ handshake'[d] = handshake[d]
                                         /\ tlsClosing'[d] = tlsClosing[d]
                                         /\ tlsClosed'[d] = tlsClosed[d]
      PROVE  \E e \in Clients : Started(e) /\ WorksFor(w, e) /\ StartsFor(w, e)
  BY <1>2 DEF WorksFor, Untouches, IsStarted, AcceptedOnce
<1>3. CASE StrandRead(w)
  <2>1. PICK c \in Clients :
          /\ TakeFromStrand(w, c, "read")
          /\ \/ read' = [read EXCEPT ![c] = "pending"] /\ UNCHANGED job
             \/ StartOnStrand(w, "aborted", c) /\ UNCHANGED read
          /\ UNCHANGED <<conn, callbacks, handshake, tlsClosing, tlsClosed>>
    BY <1>3 DEF StrandRead
  <2>2. Started(c) /\ \A d \in Clients : d # c => strand'[d] = strand[d] BY <2>1, TakeOthers
  <2>3. /\ job'[w].at # "idle" => job'[w].client = c
        /\ \A v \in Workers : v # w => job'[v] = job[v]
    BY <1>1, <2>1, StartJob
  <2>4. \A d \in Clients : d # c => read'[d] = read[d]
    BY <2>1 DEF ConnectionTypes, OperationTypes
  <2>5. StartsFor(w, c) BY <1>1, <2>1 DEF StartsFor
  <2> QED BY <1>2, <2>1, <2>2, <2>3, <2>4, <2>5
<1>4. CASE StrandUpgrade(w)
  <2>1. PICK c \in Clients :
          /\ TakeFromStrand(w, c, "upgrade")
          /\ handshake' = [handshake EXCEPT ![c] = IF conn[c] = "INSECURE" THEN "inflight" ELSE "none"]
          /\ UNCHANGED <<conn, callbacks, read, tlsClosing, tlsClosed, job>>
    BY <1>4 DEF StrandUpgrade
  <2>2. Started(c) /\ \A d \in Clients : d # c => strand'[d] = strand[d] BY <2>1, TakeOthers
  <2>3. \A d \in Clients : d # c => handshake'[d] = handshake[d]
    BY <2>1 DEF ConnectionTypes, OperationTypes
  <2>4. StartsFor(w, c) BY <1>1, <2>1 DEF StartsFor
  <2> QED BY <1>1, <1>2, <2>1, <2>2, <2>3, <2>4
<1>5. CASE StrandClose(w)
  <2>1. PICK c \in Clients :
          /\ TakeFromStrand(w, c, "close")
          /\ \/ GateClosed(c) /\ AbortOperations(c) /\ UNCHANGED job
             \/ /\ read' = Abort(c)
                /\ tlsClosing' = [tlsClosing EXCEPT ![c] = 1]
                /\ tlsClosed' = [tlsClosed EXCEPT ![c] = @ + tlsClosing[c]]
                /\ UNCHANGED <<handshake, job>>
             \/ /\ AbortOperations(c) \/ UNCHANGED operationVars
                /\ StartOnStrand(w, "announce", c)
          /\ UNCHANGED <<conn, callbacks>>
    BY <1>5 DEF StrandClose
  <2>2. Started(c) /\ \A d \in Clients : d # c => strand'[d] = strand[d] BY <2>1, TakeOthers
  <2>3. /\ job'[w].at # "idle" => job'[w].client = c
        /\ \A v \in Workers : v # w => job'[v] = job[v]
    BY <1>1, <2>1, StartJob
  <2>4. \A d \in Clients : d # c => /\ read'[d] = read[d] /\ handshake'[d] = handshake[d]
                                    /\ tlsClosing'[d] = tlsClosing[d]
                                    /\ tlsClosed'[d] = tlsClosed[d]
    <3>1. CASE AbortOperations(c) BY <3>1, AbortOthers DEF ConnectionTypes
    <3>2. CASE UNCHANGED operationVars BY <3>2 DEF operationVars
    <3>3. CASE /\ read' = Abort(c)
               /\ tlsClosing' = [tlsClosing EXCEPT ![c] = 1]
               /\ tlsClosed' = [tlsClosed EXCEPT ![c] = @ + tlsClosing[c]]
               /\ UNCHANGED handshake
      BY <3>3 DEF ConnectionTypes, OperationTypes, Abort
    <3> QED BY <2>1, <3>1, <3>2, <3>3
  <2>5. StartsFor(w, c) BY <1>1, <2>1 DEF StartsFor
  <2> QED BY <1>2, <2>1, <2>2, <2>3, <2>4, <2>5
<1>6. CASE HandleData(w) \/ HandleError(w)
  <2>1. PICK c \in Clients :
          /\ read[c] # "none" /\ read' = [read EXCEPT ![c] = "none"]
          /\ Start(w, "received", c) \/ CallClose(w, c, "read")
          /\ UNCHANGED <<conn, callbacks, strand, handshake, tlsClosing, tlsClosed>>
    BY <1>6 DEF HandleData, HandleError
  <2>2. Started(c) BY <2>1 DEF StartedFirst, Untouched
  <2>3. /\ job'[w].client = c
        /\ \A v \in Workers : v # w => job'[v] = job[v]
    BY <2>1, StartJob DEF CallClose
  <2>4. \A d \in Clients : d # c => read'[d] = read[d]
    BY <2>1 DEF ConnectionTypes, OperationTypes
  <2>5. StartsFor(w, c) BY <1>1, <2>1 DEF StartsFor
  <2> QED BY <1>2, <2>1, <2>2, <2>3, <2>4, <2>5
<1>7. CASE HandleFailedWrite(w)
  <2>1. PICK c \in served : IsOpen(c) /\ CallClose(w, c, "none") BY <1>7 DEF HandleFailedWrite
  <2>2. c \in Clients /\ Started(c) BY <2>1 DEF SessionTypes, StartedFirst, Untouched
  <2>3. /\ job'[w].client = c
        /\ \A v \in Workers : v # w => job'[v] = job[v]
    BY <2>1, StartJob DEF CallClose
  <2>4. UNCHANGED <<conn, callbacks, strand, read, handshake, tlsClosing, tlsClosed>>
    BY <1>7 DEF HandleFailedWrite, connectionVars, operationVars
  <2>5. StartsFor(w, c) BY <1>1, <2>1, <2>4 DEF StartsFor
  <2> QED BY <1>2, <2>2, <2>3, <2>4, <2>5
<1>8. CASE HandleHandshake(w)
  <2>1. PICK c \in Clients :
          /\ GateClosed(c) /\ handshake' = [handshake EXCEPT ![c] = "done"]
          /\ Start(w, "handshaken", c) \/ Start(w, "refused", c)
          /\ UNCHANGED <<conn, callbacks, strand, read, tlsClosing, tlsClosed>>
    BY <1>8 DEF HandleHandshake, GateClosed
  <2>2. Started(c) BY <2>1 DEF StartedFirst, Untouched, GateClosed
  <2>3. /\ job'[w].client = c
        /\ \A v \in Workers : v # w => job'[v] = job[v]
    BY <2>1, StartJob
  <2>4. \A d \in Clients : d # c => handshake'[d] = handshake[d]
    BY <2>1 DEF ConnectionTypes, OperationTypes
  <2>5. StartsFor(w, c) BY <1>1, <2>1 DEF StartsFor
  <2> QED BY <1>2, <2>1, <2>2, <2>3, <2>4, <2>5
<1>9. CASE HandleTlsShutdown(w)
  <2>1. PICK c \in Clients :
          /\ tlsClosed[c] > 0 /\ read' = Abort(c)
          /\ tlsClosing' = [tlsClosing EXCEPT ![c] = 0]
          /\ tlsClosed' = [tlsClosed EXCEPT ![c] = @ + tlsClosing[c] - 1]
          /\ Start(w, "announce", c)
          /\ UNCHANGED <<conn, callbacks, strand, handshake>>
    BY <1>9 DEF HandleTlsShutdown
  <2>2. Started(c) BY <2>1 DEF StartedFirst, Untouched
  <2>3. /\ job'[w].client = c
        /\ \A v \in Workers : v # w => job'[v] = job[v]
    BY <2>1, StartJob
  <2>4. \A d \in Clients : d # c => /\ read'[d] = read[d] /\ tlsClosing'[d] = tlsClosing[d]
                                    /\ tlsClosed'[d] = tlsClosed[d]
    BY <2>1 DEF ConnectionTypes, OperationTypes, Abort
  <2>5. StartsFor(w, c) BY <1>1, <2>1 DEF StartsFor
  <2> QED BY <1>2, <2>1, <2>2, <2>3, <2>4, <2>5
<1> QED BY <1>3, <1>4, <1>5, <1>6, <1>7, <1>8, <1>9

LEMMA LaterHandlerWorks ==
  ASSUME Inv, NEW w \in Workers, UNCHANGED served,
         HandshakeEnded(w) \/ BecomeSecure(w) \/ Announce(w) \/ Collect(w) \/ Dispatch(w)
  PROVE  job[w].at # "idle" /\ WorksFor(w, job[w].client)
<1> USE DEF Inv, TypeOK, ConnectionTypes
<1> DEFINE c == job[w].client
<1>1. job[w].at # "idle"
  BY DEF HandshakeEnded, BecomeSecure, Announce, Collect, Dispatch, Uses, Does
<1>2. c \in Clients /\ Started(c) /\ conn[c] \notin {"none", "accepted"}
  BY <1>1, BusyStarted DEF AcceptedOnce
<1>3. /\ job'[w].at # "idle" => job'[w].client = c
      /\ \A v \in Workers : v # w => job'[v] = job[v]
  <2>1. CASE Go(w, "announce") \/ Go(w, "close") \/ Go(w, "secure") \/ Go(w, "observe")
    BY <2>1, GoJob
  <2>2. CASE Return(w) BY <2>2, ReturnJob
  <2>3. CASE Collect(w) BY <2>3 DEF Collect, JobTypes, Jobs, NoJob
  <2>4. CASE Dispatch(w) BY <2>4 DEF Dispatch, JobTypes, Jobs, NoJob
  <2> QED BY <2>1, <2>2, <2>3, <2>4 DEF HandshakeEnded, BecomeSecure, Announce
<1>4. \/ UNCHANGED <<conn, strand, operationVars>>
      \/ AbortOperations(c) /\ UNCHANGED <<conn, strand>>
      \/ /\ \E new \in {"SECURE", "CLOSED"} : conn' = [conn EXCEPT ![c] = new]
         /\ UNCHANGED <<strand, operationVars>>
      \/ Delete(c) /\ UNCHANGED strand
  BY DEF HandshakeEnded, BecomeSecure, Announce, Collect, Dispatch
<1>5. IsStarted(c) /\ \A d \in Clients : d # c => Untouches(d)
  <2>1. CASE UNCHANGED <<conn, strand, operationVars>>
    BY <1>2, <1>3, <2>1 DEF Untouches, IsStarted, operationVars
  <2>2. CASE AbortOperations(c) /\ UNCHANGED <<conn, strand>>
    BY <1>2, <1>3, <2>2, AbortOthers DEF Untouches, IsStarted
  <2>3. CASE /\ \E new \in {"SECURE", "CLOSED"} : conn' = [conn EXCEPT ![c] = new]
             /\ UNCHANGED <<strand, operationVars>>
    BY <1>2, <1>3, <2>3 DEF Untouches, IsStarted, operationVars
  <2>4. CASE Delete(c) /\ UNCHANGED strand
    BY <1>2, <1>3, <2>4, AbortOthers DEF Delete, Untouches, IsStarted
  <2> QED BY <1>4, <2>1, <2>2, <2>3, <2>4
<1> QED BY <1>1, <1>3, <1>5 DEF WorksFor

GoesOnFor(w, c) ==
  /\ conn[c] = "deleted"
  /\ \/ job[w].at # "idle" /\ job[w].client = c /\ AfterClose(w) /\ UNCHANGED <<strand, handshake>>
     \/ /\ Free(w) /\ UNCHANGED job
        /\ \/ /\ strand[c] # <<>> /\ strand' = [strand EXCEPT ![c] = Tail(@)]
              /\ UNCHANGED handshake
           \/ (GateClosed(c) \/ UNCHANGED handshake) /\ UNCHANGED strand

LEMMA UseAfterDeleteWorks ==
  ASSUME Inv, NEW w \in Workers, UseAfterDelete(w)
  PROVE  \E c \in Clients : Started(c) /\ WorksFor(w, c) /\ GoesOnFor(w, c)
<1> USE DEF Inv, TypeOK, ConnectionTypes, OperationTypes, AcceptedOnce
<1>1. UNCHANGED <<conn, served>> BY DEF UseAfterDelete, sessionVars
<1>2. CASE /\ job[w].at \in ConnectionPlaces /\ conn[job[w].client] = "deleted" /\ AfterClose(w)
           /\ UNCHANGED <<strand, operationVars>>
  <2>1. job[w].at # "idle" BY <1>2 DEF ConnectionPlaces, ClosePlaces
  <2>2. /\ job[w].client \in Clients /\ Started(job[w].client)
        /\ conn[job[w].client] \notin {"none", "accepted"}
    BY <2>1, BusyStarted DEF Inv, AcceptedOnce
  <2>3. WorksFor(w, job[w].client)
    BY <1>1, <1>2, <2>2, AfterCloseJob DEF WorksFor, Untouches, IsStarted, operationVars
  <2>4. GoesOnFor(w, job[w].client) BY <1>2, <2>1 DEF GoesOnFor, operationVars
  <2> QED BY <2>2, <2>3, <2>4
<1>3. ASSUME NEW c \in Clients, conn[c] = "deleted", UNCHANGED job, Free(w),
             \/ /\ strand[c] # <<>>
                /\ strand' = [strand EXCEPT ![c] = Tail(@)]
                /\ UNCHANGED operationVars
             \/ /\ read[c] = "error" /\ read' = [read EXCEPT ![c] = "none"]
                /\ UNCHANGED <<strand, handshake, tlsClosing, tlsClosed>>
             \/ /\ handshake[c] \in {"ok", "error"}
                /\ handshake' = [handshake EXCEPT ![c] = "done"]
                /\ UNCHANGED <<strand, read, tlsClosing, tlsClosed>>
             \/ /\ tlsClosed[c] > 0
                /\ tlsClosed' = [tlsClosed EXCEPT ![c] = @ - 1]
                /\ UNCHANGED <<strand, read, handshake, tlsClosing>>
      PROVE  Started(c) /\ WorksFor(w, c) /\ GoesOnFor(w, c)
  <2>1. Started(c) BY <1>3 DEF StartedFirst, Untouched
  <2>2. IsStarted(c) BY <1>1, <2>1 DEF IsStarted
  <2>3. \A d \in Clients : d # c => Untouches(d) BY <1>1, <1>3 DEF Untouches, operationVars
  <2>4. GoesOnFor(w, c) BY <1>3 DEF GoesOnFor, GateClosed, operationVars
  <2> QED BY <1>3, <2>1, <2>2, <2>3, <2>4 DEF WorksFor, Free, NoJob
<1> QED BY <1>2, <1>3 DEF UseAfterDelete

LEMMA ConnectionStepInv ==
  ASSUME Inv, NEW w \in Workers, ConnectionStep(w)
  PROVE  Inv'
<1>1. TypeOK' BY ConnectionStepTypes DEF Inv
<1>2. UNCHANGED <<listenerVars, ownershipVars>>
  BY DEF ConnectionStep, CloseStep, HandlerStep, Observe, UseAfterDelete,
         managerVars, sessionVars, ownershipVars
<1>3. CASE CloseStep(w) BY <1>1, <1>2, <1>3, CloseStepWorks, BusyStarted, WorksInv
<1>4. CASE HandlerStep(w)
  <2>1. UNCHANGED served BY <1>4 DEF HandlerStep, sessionVars
  <2>2. \E c \in Clients : Started(c) /\ WorksFor(w, c)
    BY <1>4, <2>1, StartedHandlerWorks, LaterHandlerWorks, BusyStarted DEF HandlerStep
  <2> QED BY <1>1, <1>2, <2>2, WorksInv
<1>5. CASE Observe(w)
  <2>1. job[w].at # "idle" BY <1>5 DEF Observe, Uses, Does
  <2>2. /\ job[w].client \in Clients /\ Started(job[w].client)
        /\ conn[job[w].client] \notin {"none", "accepted"}
    BY <2>1, BusyStarted DEF Inv, AcceptedOnce
  <2>3. WorksFor(w, job[w].client)
    <3>1. job'[w].client = job[w].client /\ \A v \in Workers : v # w => job'[v] = job[v]
      BY <1>5, GoJob DEF Observe, Inv, TypeOK
    <3> QED BY <1>5, <2>2, <3>1 DEF Observe, WorksFor, Untouches, IsStarted, connectionVars, operationVars
  <2> QED BY <1>1, <1>2, <2>2, <2>3, WorksInv
<1>6. CASE UseAfterDelete(w) BY <1>1, <1>2, <1>6, UseAfterDeleteWorks, WorksInv
<1> QED BY <1>3, <1>4, <1>5, <1>6 DEF ConnectionStep

(* The session's steps keep the connections, but for what they post. *)
LEMMA SessionStepWorks ==
  ASSUME Inv, NEW w \in Workers,
         Aborted(w) \/ Received(w) \/ ShutdownOnToken(w) \/ Upgrade(w) \/ Process(w) \/ Notify(w)
  PROVE  job[w].at # "idle" /\ WorksFor(w, job[w].client)
<1> USE DEF Inv, TypeOK, ConnectionTypes, OperationTypes
<1> DEFINE c == job[w].client
<1>1. job[w].at # "idle"
  BY DEF Aborted, Received, ShutdownOnToken, Upgrade, Process, Notify, Does
<1>2. c \in Clients /\ Started(c) /\ conn[c] \notin {"none", "accepted"}
  BY <1>1, BusyStarted DEF AcceptedOnce
<1>3. /\ job'[w].at # "idle" => job'[w].client = c
      /\ \A v \in Workers : v # w => job'[v] = job[v]
  <2>1. CASE Return(w) BY <2>1, ReturnJob
  <2>2. CASE Go(w, "tokens") \/ Go(w, "aborted") BY <2>2, GoJob
  <2>3. CASE job' = [job EXCEPT ![w].at = "close", ![w].cb = "delete"]
    BY <2>3 DEF JobTypes, Jobs
  <2>4. CASE job' = [job EXCEPT ![w].at = "close", ![w].cb = "delete", ![w].inTokens = TRUE]
    BY <2>4 DEF JobTypes, Jobs
  <2>5. CASE job' = [job EXCEPT ![w].at = "tokens", ![w].inTokens = FALSE]
    BY <2>5 DEF JobTypes, Jobs
  <2>6. CASE UNCHANGED job BY <2>6
  <2> QED BY <2>1, <2>2, <2>3, <2>4, <2>5, <2>6
          DEF Aborted, Received, ShutdownOnToken, Upgrade, Process, Notify, GiveUp
<1>4. \/ UNCHANGED <<conn, strand, operationVars, served>>
      \/ UNCHANGED <<conn, strand, operationVars>> /\ served' = served \cup {c}
      \/ Post(c, "read") /\ UNCHANGED <<conn, operationVars, served>>
      \/ /\ Post(c, "upgrade") /\ handshake' = [handshake EXCEPT ![c] = "posted"]
         /\ UNCHANGED <<conn, read, tlsClosing, tlsClosed, served>>
  BY DEF Aborted, Received, ShutdownOnToken, Upgrade, Process, Notify, connectionVars, sessionVars
<1>5. IsStarted(c) BY <1>2, <1>4 DEF IsStarted
<1>6. ASSUME NEW d \in Clients, d # c PROVE Untouches(d)
  <2>1. strand'[d] = strand[d] BY <1>2, <1>4, <1>6, PostOthers
  <2> QED BY <1>2, <1>4, <1>6, <2>1 DEF Untouches, operationVars
<1> QED BY <1>1, <1>3, <1>5, <1>6 DEF WorksFor

LEMMA SessionStepInv ==
  ASSUME Inv, NEW w \in Workers, SessionStep(w)
  PROVE  Inv'
<1> DEFINE c == job[w].client
<1>1. TypeOK /\ TypeOK' BY SessionStepTypes DEF Inv
<1>2. CASE Aborted(w) \/ Received(w) \/ ShutdownOnToken(w) \/ Upgrade(w) \/ Process(w)
  <2>1. UNCHANGED <<listenerVars, ownershipVars>>
    BY <1>2 DEF Aborted, Received, ShutdownOnToken, Upgrade, Process,
                managerVars, sessionVars, ownershipVars
  <2> QED BY <1>1, <1>2, <2>1, SessionStepWorks, BusyStarted, WorksInv
<1>3. CASE Notify(w)
  <2>1. UNCHANGED <<phase, listenerVars, session, leaving, conn>>
    BY <1>3 DEF Notify, connectionVars
  <2>2. c \in Clients /\ Started(c) /\ WorksFor(w, c) BY <1>3, SessionStepWorks, BusyStarted
  <2>3. StartedFirst' BY <1>1, <2>1, <2>2, WorksStarted DEF Inv
  <2>4. AcceptedOnce' BY <2>1 DEF Inv, AcceptedOnce, Started, listenerVars
  <2>5. OwnedOnce'
    <3>1. CASE UNCHANGED <<registry, deletions>>
      BY <2>1, <3>1, OwnedKept DEF Inv, ownershipVars
    <3>2. CASE /\ c \in registry /\ registry' = registry \ {c}
               /\ deletions' = [deletions EXCEPT ![c] = @ + 1]
      <4>1. deletions[c] = 0 /\ c \notin leaving
        BY <1>1, <2>2, <3>2 DEF Inv, OwnedOnce, TypeOK, ManagerTypes
      <4>2. \A d \in Clients : d # c => /\ deletions'[d] = deletions[d]
                                        /\ d \in registry' <=> d \in registry
        BY <1>1, <3>2 DEF TypeOK, ManagerTypes
      <4>3. deletions'[c] = 1 /\ c \notin registry'
        BY <1>1, <2>2, <3>2, <4>1 DEF TypeOK, ManagerTypes
      <4> QED BY <1>1, <2>1, <2>2, <3>2, <4>1, <4>2, <4>3 DEF Inv, OwnedOnce
    <3> QED BY <1>3, <3>1, <3>2 DEF Notify, Completes, Unregister
  <2>6. KeepsListening' /\ TakenOver' BY <2>1 DEF Inv, KeepsListening, TakenOver, listenerVars
  <2> QED BY <1>1, <2>3, <2>4, <2>5, <2>6 DEF Inv
<1>4. CASE DeleteSession(w)
  <2>1. PICK d \in Clients :
          /\ deletions[d] > 0
          /\ deletions' = [deletions EXCEPT ![d] = @ - 1]
          /\ session' = [session EXCEPT ![d] = "deleted"]
    BY <1>4 DEF DeleteSession
  <2>2. UNCHANGED <<phase, listenerVars, registry, leaving, connectionVars, job, served>>
    BY <1>4 DEF DeleteSession
  <2>3. deletions[d] = 1 /\ d \notin registry \cup leaving /\ session[d] = "live"
    BY <1>1, <2>1 DEF Inv, OwnedOnce, TypeOK, ManagerTypes
  <2>4. /\ deletions'[d] = 0 /\ session'[d] = "deleted"
        /\ \A e \in Clients : e # d => deletions'[e] = deletions[e] /\ session'[e] = session[e]
    BY <1>1, <2>1, <2>3 DEF TypeOK, ManagerTypes, SessionTypes
  <2>5. OwnedOnce' BY <1>1, <2>2, <2>3, <2>4 DEF Inv, OwnedOnce
  <2>6. AcceptedOnce'
    <3>1. Started(d) BY <2>3 DEF Started
    <3> QED BY <2>2, <2>4, <3>1 DEF Inv, AcceptedOnce, Started, listenerVars, connectionVars
  <2>7. StartedFirst'
    <3>1. \A e \in Clients : Started(e)' <=> Started(e) BY <2>3, <2>4 DEF Started
    <3>2. ASSUME NEW v \in Workers, job'[v].at # "idle" PROVE Started(job[v].client)'
      BY <2>2, <3>1, <3>2, BusyStarted DEF Started
    <3> QED BY <2>2, <3>1, <3>2
            DEF Inv, StartedFirst, Untouched, connectionVars, operationVars
  <2>8. KeepsListening' /\ TakenOver' BY <2>2 DEF Inv, KeepsListening, TakenOver, listenerVars
  <2> QED BY <1>1, <2>5, <2>6, <2>7, <2>8 DEF Inv
<1> QED BY <1>2, <1>3, <1>4 DEF SessionStep

LEMMA MainStepInv ==
  ASSUME Inv, Stop \/ Destroy \/ ShutdownNext \/ Restart \/ Finish
  PROVE  Inv'
<1>1. TypeOK /\ TypeOK' BY MainStepTypes DEF Inv
<1>2. ASSUME UNCHANGED <<connectionVars, served, job, session>> PROVE StartedFirst'
  BY <1>2 DEF Inv, StartedFirst, Untouched, Started, connectionVars, operationVars
<1>3. CASE Stop \/ Restart
  <2>1. UNCHANGED <<listenerVars, managerVars, sessionVars, connectionVars, job>>
        /\ (phase' \in {"closing", "draining"} \/ phase = "serving")
    BY <1>3 DEF Stop, Restart
  <2>2. StartedFirst' BY <1>2, <2>1 DEF sessionVars
  <2>3. AcceptedOnce' /\ OwnedOnce' /\ KeepsListening'
    BY <2>1 DEF Inv, AcceptedOnce, Started, OwnedOnce, KeepsListening,
                listenerVars, managerVars, sessionVars, connectionVars
  <2>4. TakenOver' BY <2>1 DEF Inv, TakenOver, managerVars
  <2> QED BY <1>1, <2>2, <2>3, <2>4 DEF Inv
<1>4. CASE Destroy
  <2>1. OwnedOnce'
    <3>1. leaving = {} BY <1>4 DEF Inv, TakenOver, Destroy
    <3> QED BY <1>4, <3>1 DEF Destroy, Inv, OwnedOnce, sessionVars
  <2>2. AcceptedOnce'
    <3>1. \A a \in Acceptors : accept'[a] \in Clients => accept'[a] = accept[a]
      BY <1>4, ClientsAssumption DEF Destroy
    <3> QED BY <1>4, <3>1 DEF Destroy, Inv, AcceptedOnce, Started, connectionVars, sessionVars
  <2>3. UNCHANGED <<connectionVars, served, job, session>> BY <1>4 DEF Destroy, sessionVars
  <2>4. StartedFirst' BY <1>2, <2>3
  <2>5. KeepsListening' /\ TakenOver' BY <1>4 DEF Destroy, KeepsListening, TakenOver
  <2> QED BY <1>1, <2>1, <2>2, <2>4, <2>5 DEF Inv
<1>5. CASE ShutdownNext
  <2>1. PICK c \in leaving : ShutdownSession(c) BY <1>5 DEF ShutdownNext
  <2>2. c \in Clients /\ Started(c)
    BY <1>1 DEF TypeOK, ManagerTypes, Inv, OwnedOnce, Started
  <2>3. UNCHANGED <<listenerVars, ownershipVars, served, job>>
    BY <1>5 DEF ShutdownNext, managerVars, ownershipVars
  <2>4. CASE UNCHANGED connectionVars
    <3>1. StartedFirst' BY <1>2, <2>3, <2>4 DEF ownershipVars
    <3> QED BY <1>1, <2>3, <2>4, <3>1, OwnedKept
            DEF Inv, AcceptedOnce, Started, KeepsListening, TakenOver, listenerVars,
                ownershipVars, connectionVars
  <2>5. CASE CloseForGood(c)
    <3>1. IsStarted(c) /\ \A d \in Clients : d # c => Untouches(d)
      BY <1>1, <2>2, <2>3, <2>5, CloseForGoodOthers DEF TypeOK
    <3>2. job[main].at = "idle" \/ job[main].client \in Clients
      BY <1>1, BusyHasClient DEF Workers, TypeOK
    <3>3. AcceptedOnce'
      <4>1. \A a \in Acceptors : accept[a] \in Clients => accept[a] # c
        BY <2>2 DEF Inv, AcceptedOnce
      <4> QED BY <2>3, <3>1, <4>1
              DEF Inv, AcceptedOnce, Started, Untouches, IsStarted, listenerVars, ownershipVars
    <3>4. StartedFirst'
      <4>1. \A d \in Clients : Started(d)' <=> Started(d) BY <2>3 DEF Started, ownershipVars
      <4>2. ASSUME NEW d \in Clients, ~Started(d)' PROVE Untouched(d)'
        <5>1. d # c /\ ~Started(d) BY <2>2, <4>1, <4>2
        <5> QED BY <3>1, <5>1 DEF Inv, StartedFirst, Untouched, Untouches
      <4>3. ASSUME NEW v \in Workers, job'[v].at # "idle" PROVE Started(job[v].client)'
        BY <2>3, <4>3, BusyStarted DEF Started, ownershipVars
      <4> QED BY <4>2, <4>3 DEF StartedFirst
    <3> QED BY <1>1, <2>3, <3>3, <3>4, OwnedKept
            DEF Inv, KeepsListening, TakenOver, listenerVars, ownershipVars
  <2> QED BY <2>1, <2>4, <2>5 DEF ShutdownSession
<1>6. CASE Finish
  <2>1. OwnedOnce'
    <3>1. \A c \in Clients : session'[c] = "live" <=> session[c] = "live" /\ c \notin leaving
      BY <1>1, <1>6 DEF Finish
    <3> QED BY <1>1, <1>6, <3>1 DEF Finish, Inv, OwnedOnce, TypeOK, ManagerTypes
  <2>2. \A c \in leaving : session[c] # "none"
    BY <1>1 DEF TypeOK, ManagerTypes, Inv, OwnedOnce
  <2>3. AcceptedOnce'
    <3>1. \A c \in Clients : Started(c)' <=> Started(c) BY <1>6, <2>2 DEF Finish, Started
    <3> QED BY <1>6, <3>1 DEF Finish, Inv, AcceptedOnce, listenerVars, connectionVars
  <2>4. StartedFirst'
    <3>1. \A c \in Clients : Started(c)' <=> Started(c) BY <1>6, <2>2 DEF Finish, Started
    <3>2. ASSUME NEW v \in Workers, job'[v].at # "idle" PROVE Started(job[v].client)'
      BY <1>6, <3>1, <3>2, BusyStarted DEF Finish, Started
    <3> QED BY <1>6, <3>1, <3>2
            DEF Finish, Inv, StartedFirst, Untouched, connectionVars, operationVars
  <2>5. KeepsListening' /\ TakenOver' BY <1>6 DEF Finish, Inv, KeepsListening, TakenOver, listenerVars
  <2> QED BY <1>1, <2>1, <2>3, <2>4, <2>5 DEF Inv
<1> QED BY <1>3, <1>4, <1>5, <1>6

LEMMA ClientStepInv ==
  ASSUME Inv, ClientStep
  PROVE  Inv'
<1>1. TypeOK /\ TypeOK' BY ClientStepTypes DEF Inv
<1>2. UNCHANGED <<phase, listening, managerVars, sessionVars, job>> BY DEF ClientStep
<1>3. OwnedOnce' BY <1>2, OwnedKept DEF Inv, managerVars, sessionVars, ownershipVars
<1>4. TakenOver' BY <1>2 DEF Inv, TakenOver, managerVars
<1>5. CASE Connect
  <2>1. PICK a \in Acceptors, c \in Clients :
          /\ accept[a] = "pending" /\ conn[c] = "none"
          /\ accept' = [accept EXCEPT ![a] = c]
          /\ conn' = [conn EXCEPT ![c] = "accepted"]
          /\ UNCHANGED <<callbacks, strand, operationVars>>
    BY <1>5 DEF Connect
  <2>2. \A d \in Clients : d # c => conn'[d] = conn[d]
    BY <1>1, <2>1 DEF TypeOK, ConnectionTypes
  <2>3. conn'[c] = "accepted" /\ session[c] = "none"
    BY <1>1, <2>1 DEF TypeOK, ConnectionTypes, SessionTypes, Inv, AcceptedOnce, Started
  <2>4. accept'[a] = c /\ \A b \in Acceptors : b # a => accept'[b] = accept[b] /\ accept[b] # c
    BY <1>1, <2>1 DEF TypeOK, ListenerTypes, Inv, AcceptedOnce
  <2>5. c \notin {"none", "aborted"} BY ClientsAssumption
  <2>6. AcceptedOnce'
    <3>1. \A b \in Acceptors : accept'[b] \in Clients =>
            conn'[accept'[b]] = "accepted" /\ \A d \in Acceptors : accept'[d] = accept'[b] => b = d
      BY <2>2, <2>3, <2>4 DEF Inv, AcceptedOnce
    <3>2. \A d \in Clients : session'[d] # "none" => conn'[d] \notin {"none", "accepted"}
      BY <1>2, <2>2, <2>3 DEF Inv, AcceptedOnce, Started, sessionVars
    <3>3. listening' => \A b \in Acceptors : accept'[b] # "aborted"
      BY <1>2, <2>4, <2>5 DEF Inv, AcceptedOnce
    <3> QED BY <3>1, <3>2, <3>3 DEF AcceptedOnce, Started
  <2>7. StartedFirst'
    <3>1. \A d \in Clients : Started(d)' <=> Started(d) BY <1>2 DEF Started, sessionVars
    <3>2. ASSUME NEW d \in Clients, ~Started(d)' PROVE Untouched(d)'
      <4>1. Untouched(d) BY <3>1, <3>2 DEF Inv, StartedFirst
      <4> QED BY <1>2, <2>1, <4>1 DEF Untouched, sessionVars, operationVars
    <3>3. ASSUME NEW v \in Workers, job'[v].at # "idle" PROVE Started(job[v].client)'
      BY <1>2, <3>3, BusyStarted DEF Started, sessionVars
    <3> QED BY <3>2, <3>3 DEF StartedFirst
  <2>8. KeepsListening' BY <1>2, <2>4, <2>5 DEF Inv, KeepsListening
  <2> QED BY <1>1, <1>3, <1>4, <2>6, <2>7, <2>8 DEF Inv
<1>6. CASE AcceptFails
  <2>1. PICK a \in Acceptors :
          accept' = [accept EXCEPT ![a] = "failed"] /\ UNCHANGED connectionVars
    BY <1>6 DEF AcceptFails
  <2>2. accept'[a] = "failed" /\ \A b \in Acceptors : b # a => accept'[b] = accept[b]
    BY <1>1, <2>1 DEF TypeOK, ListenerTypes
  <2>3. AcceptedOnce'
    BY <1>2, <2>1, <2>2, ClientsAssumption
    DEF Inv, AcceptedOnce, Started, connectionVars, sessionVars
  <2>4. StartedFirst'
    BY <1>2, <2>1 DEF Inv, StartedFirst, Untouched, Started, connectionVars, operationVars, sessionVars
  <2>5. KeepsListening' BY <1>2, <2>2 DEF Inv, KeepsListening
  <2> QED BY <1>1, <1>3, <1>4, <2>3, <2>4, <2>5 DEF Inv
<1>7. CASE ReadEnds \/ HandshakeEnds \/ TlsShutdownEnds
  <2>1. UNCHANGED <<accept, conn, strand>> BY <1>7 DEF ReadEnds, HandshakeEnds, TlsShutdownEnds
  <2>2. ASSUME NEW c \in Clients, Untouched(c) PROVE Untouched(c)'
    <3>1. UNCHANGED <<strand, served>> BY <1>2, <2>1 DEF sessionVars
    <3>2. CASE ReadEnds
      BY <1>1, <2>2, <3>1, <3>2 DEF ReadEnds, Untouched, TypeOK, ConnectionTypes, OperationTypes
    <3>3. CASE HandshakeEnds
      BY <1>1, <2>2, <3>1, <3>3 DEF HandshakeEnds, Untouched, TypeOK, ConnectionTypes, OperationTypes
    <3>4. CASE TlsShutdownEnds
      BY <1>1, <2>2, <3>1, <3>4 DEF TlsShutdownEnds, Untouched, TypeOK, ConnectionTypes, OperationTypes
    <3> QED BY <1>7, <3>2, <3>3, <3>4
  <2>3. AcceptedOnce' BY <1>2, <2>1 DEF Inv, AcceptedOnce, Started, sessionVars
  <2>4. StartedFirst' BY <1>2, <2>1, <2>2 DEF Inv, StartedFirst, Started, sessionVars
  <2>5. KeepsListening' BY <1>2, <2>1 DEF Inv, KeepsListening
  <2> QED BY <1>1, <1>3, <1>4, <2>3, <2>4, <2>5 DEF Inv
<1> QED BY <1>5, <1>6, <1>7 DEF ClientStep

LEMMA InvStep == Inv /\ [Next]_vars => Inv'
<1> SUFFICES ASSUME Inv, [Next]_vars PROVE Inv' OBVIOUS
<1>1. ASSUME NEW w \in Workers, WorkerStep(w) PROVE Inv'
  BY <1>1, AcceptInv, ConnectionStepInv, SessionStepInv DEF WorkerStep
<1>2. CASE UNCHANGED vars
  <2>1. TypeOK' BY <1>2, TypeStep DEF Inv
  <2>2. UNCHANGED <<phase, listenerVars, managerVars, sessionVars, connectionVars, job>>
    BY <1>2 DEF vars
  <2>3. AcceptedOnce' /\ KeepsListening' /\ TakenOver' /\ OwnedOnce'
    BY <2>2 DEF Inv, AcceptedOnce, KeepsListening, TakenOver, OwnedOnce, Started, listenerVars,
                managerVars, sessionVars, connectionVars
  <2>4. StartedFirst'
    BY <2>2 DEF Inv, StartedFirst, Untouched, Started, connectionVars, operationVars, sessionVars
  <2> QED BY <2>1, <2>3, <2>4 DEF Inv
<1> QED BY <1>1, <1>2, ClientStepInv, MainStepInv DEF Next, MainStep, Workers

LEMMA InvCorrect == Spec => []Inv
  BY InvInit, InvStep, PTL DEF Spec

(* Whatever the threads do, every live session has exactly one owner that    *)
(* will delete it, and no session is deleted twice                           *)
(* (ClientConnectionManager.cpp:25-45, 58-90).                               *)
THEOREM SessionsOwnedOnce == Spec => []OwnedOnce
<1>1. Inv => OwnedOnce BY DEF Inv
<1> QED BY <1>1, InvCorrect, PTL

(* Until the listener is stopped, every acceptor has an accept in progress   *)
(* (SocketConnectionListener.cpp:93-143).                                    *)
THEOREM ListenerKeepsListening == Spec => []KeepsListening
<1>1. Inv => KeepsListening BY DEF Inv
<1> QED BY <1>1, InvCorrect, PTL

-----------------------------------------------------------------------------
(* With one io thread, what is left when the manager is gone.  The callback   *)
(* that deletes a connection is in one place at a time: with the thread in    *)
(* close(), among the connection's callbacks, or with the handler that calls  *)
(* them; and the end of a close comes.  The invariant is about a job j, that  *)
(* of the only thread that has one.                                          *)
OneThread == \E t : Threads = {t}

At(j, c, places) == j.client = c /\ j.at \in places
HoldsDelete(j, c) == j.client = c /\ (j.cb = "delete" \/ "delete" \in j.todo)

EndPlaces == {"handshaken", "refused", "secure", "announce", "observe", "collect"}

(* What a job has with it. *)
Orderly(j) ==
  /\ j.at = "idle" => j = NoJob
  /\ j.at \notin ClosePlaces => j.cb = "none"
  /\ j.at \in EndPlaces => j.todo = {}

(* What a thread knows of the state of its connection. *)
PlaceInv(j, c) ==
  conn[c] # "deleted" =>
    /\ At(j, c, {"stillOpen"}) => conn[c] # "CLOSED"
    /\ At(j, c, {"push"}) => IsOpen(c)
    /\ At(j, c, {"closing"}) => IsOpen(c) /\ {j.cb} \ {"none"} \subseteq callbacks[c]
    /\ At(j, c, {"ended"}) => conn[c] \in {"CLOSING", "CLOSED"}
    /\ At(j, c, {"waiting", "join"}) => conn[c] = "CLOSING"
    /\ At(j, c, {"secure"}) => conn[c] # "CLOSING"

(* The upgrade is posted once. *)
UpgradeInv(c) ==
  /\ \A i \in DOMAIN strand[c] : strand[c][i] = "upgrade" => handshake[c] = "posted"
  /\ \A i, k \in DOMAIN strand[c] :
       strand[c][i] = "upgrade" /\ strand[c][k] = "upgrade" => i = k

(* A close that has started will end, and the callbacks wait for that. *)
Posted(c) == \E i \in DOMAIN strand[c] : strand[c][i] = "close"
EndComes(j, c) ==
  \/ Posted(c) \/ GateClosed(c) \/ tlsClosing[c] + tlsClosed[c] > 0
  \/ At(j, c, {"handshaken", "refused", "announce"})
ClosingInv(j, c) ==
  /\ conn[c] = "CLOSING" => EndComes(j, c)
  /\ callbacks[c] # {} /\ conn[c] # "deleted" =>
       conn[c] = "CLOSING" \/ At(j, c, {"closing", "observe", "collect"})

(* A released connection is deleted, or the callback for it is in its place. *)
DeletionInv(j, c) ==
  /\ c \notin released =>
       "delete" \notin callbacks[c] /\ ~HoldsDelete(j, c) /\ ~At(j, c, {"notify"})
  /\ c \in released => conn[c] = "deleted" \/ "delete" \in callbacks[c] \/ HoldsDelete(j, c)
  /\ conn[c] = "deleted" => c \in released \/ session[c] = "none"

SessionInv(c) ==
  /\ session[c] = "none" =>
       /\ c \notin released /\ callbacks[c] = {}
       /\ conn[c] \in {"none", "accepted", "deleted"}
  /\ session[c] # "none" /\ c \notin registry \cup leaving => c \in released
  /\ c \in silent => c \in released
  /\ conn[c] = "accepted" => \E a \in Acceptors : accept[a] = c

ClientInv(j, c) ==
  PlaceInv(j, c) /\ UpgradeInv(c) /\ ClosingInv(j, c) /\ DeletionInv(j, c) /\ SessionInv(c)

(* Who runs when: the threads until they are joined, the main thread while it *)
(* drains the context.                                                       *)
PhaseInv ==
  /\ phase \in {"serving", "joining"} => observed /\ ~shuttingDown
  /\ phase \notin {"serving", "joining"} =>
       /\ registry = {} /\ ~observed /\ ~listening /\ shuttingDown
       /\ \A a \in Acceptors : accept[a] # "pending"
       /\ \A t \in Threads : job[t] = NoJob
  /\ phase # "draining" => job[main] = NoJob
  /\ phase \in {"draining", "done"} => leaving \subseteq silent
  /\ phase = "done" => \A c \in Clients : session[c] # "live" /\ conn[c] \in {"none", "deleted"}

Alone(w) == \A v \in Workers : v # w => job[v] = NoJob

ReleaseInv ==
  /\ PhaseInv
  /\ \A w \in Workers : Orderly(job[w])
  /\ \A w \in Workers : Alone(w) => \A c \in Clients : ClientInv(job[w], c)

-----------------------------------------------------------------------------
(* A thread that runs is alone. *)
LEMMA WhoRuns ==
  ASSUME PhaseInv, NEW w \in Workers, Free(w) \/ job[w].at # "idle"
  PROVE  IF w = main THEN phase = "draining" ELSE phase \in {"serving", "joining"}
  BY MainAssumption DEF PhaseInv, Workers, Free, NoJob

LEMMA RunsAlone ==
  ASSUME OneThread, PhaseInv, NEW w \in Workers, Free(w) \/ job[w].at # "idle"
  PROVE  Alone(w)
<1>1. PICK t : Threads = {t} BY DEF OneThread
<1>2. CASE w = main BY <1>2, WhoRuns DEF Alone, PhaseInv, Workers
<1>3. CASE w # main
  <2>1. w = t /\ Workers = {t, main} BY <1>1, <1>3 DEF Workers
  <2>2. phase \in {"serving", "joining"} BY <1>3, WhoRuns
  <2> QED BY <2>1, <2>2 DEF Alone, PhaseInv
<1> QED BY <1>2, <1>3

LEMMA WorkerPhase ==
  ASSUME PhaseInv, NEW w \in Workers, Free(w) \/ job[w].at # "idle",
         UNCHANGED <<phase, shuttingDown, listening, observed, leaving, silent>>,
         registry' \subseteq registry \/ observed,
         \A a \in Acceptors : accept'[a] = "pending" => accept[a] = "pending" \/ listening,
         \A v \in Workers : v # w => job'[v] = job[v]
  PROVE  PhaseInv'
<1>1. CASE w = main
  <2>1. phase = "draining" BY <1>1, WhoRuns
  <2>2. \A t \in Threads : t # main BY MainAssumption
  <2>3. ~observed BY <2>1 DEF PhaseInv
  <2> QED BY <1>1, <2>1, <2>2, <2>3 DEF PhaseInv, Workers
<1>2. CASE w # main
  <2>1. phase \in {"serving", "joining"} BY <1>2, WhoRuns
  <2>2. job'[main] = job[main] BY <1>2 DEF Workers
  <2> QED BY <2>1, <2>2 DEF PhaseInv
<1> QED BY <1>1, <1>2

(* What is left alone for one client. *)
SameForOwner(d) ==
  /\ callbacks'[d] = callbacks[d] /\ session'[d] = session[d]
  /\ d \in released' <=> d \in released
  /\ d \in silent' <=> d \in silent
  /\ d \in registry' \cup leaving' <=> d \in registry \cup leaving
  /\ \A a \in Acceptors : accept[a] = d => accept'[a] = d

LEMMA OtherClient ==
  ASSUME NEW w \in Workers, NEW d \in Clients, ClientInv(job[w], d), Untouches(d), SameForOwner(d),
         job[w].client # d, job'[w].client # d
  PROVE  ClientInv(job[w], d)'
<1> USE DEF ClientInv, Untouches, SameForOwner, At, HoldsDelete
<1>1. PlaceInv(job[w], d)' BY DEF PlaceInv, IsOpen
<1>2. UpgradeInv(d)' BY DEF UpgradeInv
<1>3. ClosingInv(job[w], d)' BY DEF ClosingInv, EndComes, Posted, GateClosed
<1>4. DeletionInv(job[w], d)' BY DEF DeletionInv
<1>5. SessionInv(d)' BY DEF SessionInv
<1> QED BY <1>1, <1>2, <1>3, <1>4, <1>5

LEMMA WorkerRelease ==
  ASSUME Inv, TypeOK', ReleaseInv, OneThread, NEW w \in Workers, NEW c \in Clients, WorksFor(w, c),
         Free(w) \/ (job[w].at # "idle" /\ job[w].client = c),
         UNCHANGED <<phase, shuttingDown, listening, observed, leaving, silent>>,
         registry' \subseteq registry \/ observed,
         \A a \in Acceptors : accept'[a] = "pending" => accept[a] = "pending" \/ listening,
         \A d \in Clients : d # c => SameForOwner(d),
         Orderly(job[w])', ClientInv(job[w], c)'
  PROVE  ReleaseInv'
<1>1. PhaseInv' BY WorkerPhase DEF ReleaseInv, WorksFor
<1>2. Alone(w) BY RunsAlone DEF ReleaseInv
<1>3. ASSUME NEW v \in Workers PROVE Orderly(job[v])'
  <2>1. CASE v = w BY <2>1
  <2>2. CASE v # w
    <3>1. job'[v] = job[v] BY <2>2 DEF WorksFor
    <3> QED BY <3>1 DEF ReleaseInv, Orderly
  <2> QED BY <2>1, <2>2
<1>4. ASSUME NEW d \in Clients PROVE ClientInv(job[w], d)'
  <2>1. CASE d = c BY <2>1
  <2>2. CASE d # c
    <3>1. job[w].client # d
      BY <2>2, ClientsAssumption DEF Free, NoJob
    <3>2. job'[w].client # d
      BY <2>2, ClientsAssumption DEF WorksFor, Orderly, NoJob
    <3>3. ClientInv(job[w], d) BY <1>2 DEF ReleaseInv
    <3>4. Untouches(d) /\ SameForOwner(d) BY <2>2 DEF WorksFor
    <3> QED BY <3>1, <3>2, <3>3, <3>4, OtherClient
  <2> QED BY <2>1, <2>2
<1>5. ASSUME NEW v \in Workers, Alone(v)', NEW d \in Clients PROVE ClientInv(job[v], d)'
  <2>1. CASE v = w BY <1>4, <2>1
  <2>2. CASE v # w
    <3>1. job'[v] = job'[w]
      BY <1>2, <1>5, <2>2 DEF Alone, WorksFor
    <3>2. ClientInv(job[w], d)' BY <1>4
    <3> QED BY <3>1, <3>2
            DEF ClientInv, PlaceInv, ClosingInv, EndComes, DeletionInv, At, HoldsDelete
  <2> QED BY <2>1, <2>2
<1> QED BY <1>1, <1>3, <1>5 DEF ReleaseInv

(* What the operators on jobs leave of a job. *)
LEMMA GoFields ==
  ASSUME JobTypes, NEW w \in Workers, NEW place, Go(w, place)
  PROVE  /\ job'[w].at = place /\ job'[w].client = job[w].client
         /\ job'[w].cb = job[w].cb /\ job'[w].todo = job[w].todo
  BY DEF JobTypes, Jobs, Go

LEMMA ReturnFields ==
  ASSUME JobTypes, NEW w \in Workers, Return(w)
  PROVE  \/ job[w].todo = {} /\ job'[w] = NoJob
         \/ /\ job[w].todo # {} /\ job'[w].at = "dispatch" /\ job'[w].cb = "none"
            /\ job'[w].client = job[w].client /\ job'[w].todo = job[w].todo
<1>1. CASE job[w].todo = {} BY <1>1 DEF Return, JobTypes
<1>2. CASE job[w].todo # {} BY <1>2 DEF Return, JobTypes, Jobs
<1> QED BY <1>1, <1>2

LEMMA AfterCloseFields ==
  ASSUME JobTypes, NEW w \in Workers, AfterClose(w)
  PROVE  \/ /\ job[w].cb = "delete" /\ job'[w].at = "notify" /\ job'[w].cb = "none"
            /\ job'[w].client = job[w].client /\ job'[w].todo = job[w].todo
         \/ /\ job[w].cb # "delete" /\ job[w].todo = {} /\ job'[w] = NoJob
         \/ /\ job[w].cb # "delete" /\ job'[w].at = "dispatch" /\ job'[w].cb = "none"
            /\ job'[w].client = job[w].client /\ job'[w].todo = job[w].todo
<1>1. CASE job[w].cb = "delete" BY <1>1 DEF AfterClose, JobTypes, Jobs
<1>2. CASE job[w].cb # "delete" BY <1>2, ReturnFields DEF AfterClose
<1> QED BY <1>1, <1>2

LEMMA StartFields ==
  ASSUME JobTypes, NEW w \in Workers, NEW place, NEW c,
         Start(w, place, c) \/ StartOnStrand(w, place, c)
  PROVE  job'[w].at = place /\ job'[w].client = c /\ job'[w].cb = "none" /\ job'[w].todo = {}
  BY DEF JobTypes, Start, StartOnStrand, Job, NoJob

LEMMA CallCloseFields ==
  ASSUME JobTypes, NEW w \in Workers, NEW callback, NEW c, CallClose(w, c, callback)
  PROVE  job'[w].at = "close" /\ job'[w].client = c /\ job'[w].cb = callback /\ job'[w].todo = {}
  BY DEF JobTypes, CallClose, Job, NoJob

(* Posting to the strand and taking from it. *)
LEMMA PostedStays ==
  ASSUME ConnectionTypes, NEW c \in Clients, NEW handler \in Handlers, Post(c, handler)
  PROVE  /\ Posted(c) \/ handler = "close" => Posted(c)'
         /\ handler # "upgrade" /\ UpgradeInv(c) /\ handshake'[c] = handshake[c] => UpgradeInv(c)'
         /\ /\ handler = "upgrade" /\ UpgradeInv(c)
            /\ handshake[c] = "none" /\ handshake'[c] = "posted"
            => UpgradeInv(c)'
<1>1. /\ strand[c] \in Seq(Handlers) /\ strand'[c] = Append(strand[c], handler)
  BY DEF ConnectionTypes, Post
<1>2. /\ Len(strand[c]) \in Nat /\ DOMAIN strand[c] = 1..Len(strand[c])
      /\ DOMAIN strand'[c] = 1..(Len(strand[c]) + 1)
      /\ \A i \in 1..Len(strand[c]) : strand'[c][i] = strand[c][i]
      /\ strand'[c][Len(strand[c]) + 1] = handler
  BY <1>1
<1>3. Posted(c) \/ handler = "close" => Posted(c)' BY <1>2 DEF Posted
<1>4. ASSUME handler # "upgrade", UpgradeInv(c), handshake'[c] = handshake[c] PROVE UpgradeInv(c)'
  BY <1>2, <1>4 DEF UpgradeInv
<1>5. ASSUME handler = "upgrade", UpgradeInv(c), handshake[c] = "none", handshake'[c] = "posted"
      PROVE  UpgradeInv(c)'
  <2>1. \A i \in 1..Len(strand[c]) : strand[c][i] # "upgrade" BY <1>2, <1>5 DEF UpgradeInv
  <2> QED BY <1>2, <1>5, <2>1 DEF UpgradeInv
<1> QED BY <1>3, <1>4, <1>5

LEMMA TakenFromStrand ==
  ASSUME ConnectionTypes, NEW c \in Clients, UpgradeInv(c), strand[c] # <<>>,
         strand' = [strand EXCEPT ![c] = Tail(@)]
  PROVE  /\ Posted(c) /\ Head(strand[c]) # "close" => Posted(c)'
         /\ handshake'[c] = handshake[c] \/ handshake[c] # "posted" \/ Head(strand[c]) = "upgrade"
            => UpgradeInv(c)'
         /\ Head(strand[c]) = "upgrade" => handshake[c] = "posted"
<1>1. strand[c] \in Seq(Handlers) /\ strand'[c] = Tail(strand[c]) BY DEF ConnectionTypes
<1>2. /\ Len(strand[c]) \in Nat \ {0} /\ DOMAIN strand[c] = 1..Len(strand[c])
      /\ DOMAIN strand'[c] = 1..(Len(strand[c]) - 1)
      /\ \A i \in 1..(Len(strand[c]) - 1) : strand'[c][i] = strand[c][i + 1]
      /\ Head(strand[c]) = strand[c][1]
  <2>1. Len(strand[c]) \in Nat \ {0} /\ DOMAIN strand[c] = 1..Len(strand[c]) BY <1>1
  <2>2. /\ Len(strand'[c]) = Len(strand[c]) - 1 /\ strand'[c] \in Seq(Handlers)
        /\ \A i \in 1..(Len(strand[c]) - 1) : strand'[c][i] = strand[c][i + 1]
    BY <1>1, <2>1, HeadTailProperties
  <2>3. Head(strand[c]) = strand[c][1] BY <1>1, <2>1
  <2> QED BY <2>1, <2>2, <2>3
<1>3. ASSUME Posted(c), Head(strand[c]) # "close" PROVE Posted(c)'
  <2>1. PICK i \in 1..Len(strand[c]) : strand[c][i] = "close" BY <1>2, <1>3 DEF Posted
  <2>2. i # 1 /\ i - 1 \in 1..(Len(strand[c]) - 1) BY <1>2, <1>3, <2>1
  <2>3. strand'[c][i - 1] = "close" BY <1>2, <2>1, <2>2
  <2> QED BY <1>2, <2>2, <2>3 DEF Posted
<1>4. ASSUME handshake'[c] = handshake[c] \/ handshake[c] # "posted" \/ Head(strand[c]) = "upgrade"
      PROVE  UpgradeInv(c)'
  <2>1. \A i \in 1..(Len(strand[c]) - 1) : i + 1 \in 1..Len(strand[c]) /\ i + 1 # 1 BY <1>2
  <2>2. \A i \in 1..(Len(strand[c]) - 1) :
          strand'[c][i] = "upgrade" => handshake'[c] = "posted"
    BY <1>2, <1>4, <2>1 DEF UpgradeInv
  <2>3. \A i, k \in 1..(Len(strand[c]) - 1) :
          strand'[c][i] = "upgrade" /\ strand'[c][k] = "upgrade" => i + 1 = k + 1
    BY <1>2, <2>1 DEF UpgradeInv
  <2>4. \A i, k \in 1..(Len(strand[c]) - 1) : i + 1 = k + 1 => i = k BY <1>2
  <2> QED BY <1>2, <2>2, <2>3, <2>4 DEF UpgradeInv
<1>5. Head(strand[c]) = "upgrade" => handshake[c] = "posted" BY <1>2 DEF UpgradeInv
<1> QED BY <1>3, <1>4, <1>5

LEMMA StrandStays ==
  ASSUME NEW c \in Clients, strand'[c] = strand[c]
  PROVE  /\ Posted(c) => Posted(c)'
         /\ UpgradeInv(c) /\ (handshake'[c] = handshake[c] \/ handshake[c] # "posted")
            => UpgradeInv(c)'
  BY DEF Posted, UpgradeInv

(* Aborting the operations leaves the end of a close as it is. *)
LEMMA AbortEnds ==
  ASSUME OperationTypes, NEW c \in Clients, AbortOperations(c)
  PROVE  /\ GateClosed(c)' <=> GateClosed(c)
         /\ tlsClosing'[c] + tlsClosed'[c] = tlsClosing[c] + tlsClosed[c]
         /\ handshake'[c] = handshake[c] \/ handshake[c] # "posted"
  BY DEF OperationTypes, AbortOperations, GateClosed

(* The session of a client that has one. *)
LEMMA SessionStays ==
  ASSUME NEW c \in Clients, SessionInv(c), Started(c), session'[c] # "none",
         conn'[c] \notin {"none", "accepted"},
         c \in released => c \in released',
         c \in silent' => c \in silent,
         c \in registry \cup leaving => c \in registry' \cup leaving' \/ c \in released'
  PROVE  SessionInv(c)'
<1>1. c \notin registry \cup leaving => c \in released BY DEF SessionInv, Started
<1>2. c \notin registry' \cup leaving' => c \in released' BY <1>1
<1>3. c \in silent' => c \in released' BY DEF SessionInv
<1> QED BY <1>2, <1>3 DEF SessionInv

-----------------------------------------------------------------------------
(* The steps of close(). *)
LEMMA CheckRelease ==
  ASSUME TypeOK, NEW w \in Workers, NEW c \in Clients, c = job[w].client, Started(c),
         conn[c] \notin {"none", "accepted"}, Orderly(job[w]), ClientInv(job[w], c),
         CheckClosed(w) \/ CheckClosing(w) \/ CloseWaits(w),
         UNCHANGED <<managerVars, sessionVars>>
  PROVE  Orderly(job[w])' /\ ClientInv(job[w], c)'
<1> USE DEF ClientInv, At, HoldsDelete, managerVars, sessionVars, connectionVars, operationVars
<1>1. TypeOK /\ JobTypes /\ conn[c] # "deleted" /\ UNCHANGED connectionVars
  BY DEF TypeOK, CheckClosed, CheckClosing, CloseWaits, Uses
<1>2. PICK place \in ClosePlaces :
        /\ Go(w, place) /\ place # "closing" /\ job[w].at \in ClosePlaces \ {"closing"}
        /\ \/ place = "ended" /\ conn[c] \in {"CLOSING", "CLOSED"}
           \/ place = "stillOpen" /\ conn[c] # "CLOSED"
           \/ place = "push" /\ IsOpen(c)
           \/ place = "join" /\ conn[c] = "CLOSING"
  <2>1. CASE CheckClosed(w) BY <2>1 DEF CheckClosed, Uses, Does, ClosePlaces
  <2>2. CASE CheckClosing(w)
    <3>1. conn[c] # "CLOSED" BY <1>1, <2>2 DEF CheckClosing, Uses, Does, PlaceInv
    <3>2. conn[c] # "CLOSING" => IsOpen(c)
      BY <1>1, <3>1 DEF IsOpen, TypeOK, ConnectionTypes
    <3> QED BY <2>2, <3>1, <3>2 DEF CheckClosing, Uses, Does, ClosePlaces
  <2>3. CASE CloseWaits(w)
    <3>1. conn[c] = "CLOSING" BY <1>1, <2>3 DEF CloseWaits, Uses, Does, PlaceInv
    <3> QED BY <2>3, <3>1 DEF CloseWaits, Uses, Does, ClosePlaces
  <2> QED BY <2>1, <2>2, <2>3
<1>3. /\ job'[w].at = place /\ job'[w].client = c
      /\ job'[w].cb = job[w].cb /\ job'[w].todo = job[w].todo
  BY <1>1, <1>2, GoFields
<1>4. Orderly(job[w])' BY <1>2, <1>3 DEF Orderly, ClosePlaces, EndPlaces
<1>5. PlaceInv(job[w], c)' BY <1>1, <1>2, <1>3 DEF PlaceInv, IsOpen
<1>6. UpgradeInv(c)' BY <1>1, StrandStays
<1>7. ClosingInv(job[w], c)'
  BY <1>1, <1>2, <1>3 DEF ClosingInv, EndComes, Posted, GateClosed, ClosePlaces
<1>8. DeletionInv(job[w], c)' BY <1>1, <1>2, <1>3 DEF DeletionInv, ClosePlaces
<1>9. SessionInv(c)' BY <1>1 DEF SessionInv
<1> QED BY <1>4, <1>5, <1>6, <1>7, <1>8, <1>9

(* A callback that has joined the others stays there until they are called. *)
LEMMA PushRelease ==
  ASSUME TypeOK, NEW w \in Workers, NEW c \in Clients, c = job[w].client, Started(c),
         conn[c] \notin {"none", "accepted"}, Orderly(job[w]), ClientInv(job[w], c),
         PushCallback(w),
         UNCHANGED <<managerVars, sessionVars>>
  PROVE  Orderly(job[w])' /\ ClientInv(job[w], c)'
<1> USE DEF ClientInv, At, HoldsDelete, managerVars, sessionVars, operationVars
<1>1. /\ JobTypes /\ job[w].at = "push" /\ conn[c] # "deleted"
      /\ UNCHANGED <<conn, strand, operationVars>>
      /\ callbacks'[c] = callbacks[c] \cup ({job[w].cb} \ {"none"})
  BY DEF TypeOK, ConnectionTypes, PushCallback, Uses, Does, Given
<1>2. /\ job'[w].at = "closing" /\ job'[w].client = c
      /\ job'[w].cb = job[w].cb /\ job'[w].todo = job[w].todo
  BY <1>1, GoFields DEF PushCallback
<1>3. Orderly(job[w])' BY <1>1, <1>2 DEF Orderly, ClosePlaces, EndPlaces
<1>4. IsOpen(c) BY <1>1 DEF PlaceInv
<1>5. PlaceInv(job[w], c)' BY <1>1, <1>2, <1>4 DEF PlaceInv, IsOpen
<1>6. UpgradeInv(c)' BY <1>1, StrandStays
<1>7. ClosingInv(job[w], c)' BY <1>1, <1>2, <1>4 DEF ClosingInv, IsOpen
<1>8. DeletionInv(job[w], c)' BY <1>1, <1>2 DEF DeletionInv
<1>9. SessionInv(c)' BY <1>1, SessionStays DEF Started
<1> QED BY <1>3, <1>5, <1>6, <1>7, <1>8, <1>9

(* How a call of close() ends: what is left to call is left as it was. *)
Left(w, c) ==
  \/ job[w].todo = {} /\ job'[w] = NoJob
  \/ /\ job'[w].at \in {"notify", "dispatch", "aborted"} /\ job'[w].cb = "none"
     /\ job'[w].client = c /\ job'[w].todo = job[w].todo
     /\ job'[w].at = "notify" => job[w].cb = "delete"

LEMMA LeftRelease ==
  ASSUME NEW w \in Workers, NEW c \in Clients, c = job[w].client, Left(w, c)
  PROVE  /\ Orderly(job[w])'
         /\ PlaceInv(job[w], c)'
         /\ "delete" \in job[w].todo => HoldsDelete(job[w], c)'
         /\ HoldsDelete(job[w], c)' => HoldsDelete(job[w], c)
         /\ At(job[w], c, {"notify"})' => HoldsDelete(job[w], c)
<1>1. c # "none" BY ClientsAssumption
<1> QED BY <1>1 DEF Left, Orderly, PlaceInv, HoldsDelete, At, NoJob, ClosePlaces, EndPlaces

LEMMA StartRelease ==
  ASSUME TypeOK, NEW w \in Workers, NEW c \in Clients, c = job[w].client, Started(c),
         conn[c] \notin {"none", "accepted"}, Orderly(job[w]), ClientInv(job[w], c),
         StartClosing(w) \/ JoinClosing(w),
         UNCHANGED <<managerVars, sessionVars>>
  PROVE  Orderly(job[w])' /\ ClientInv(job[w], c)'
<1> USE DEF ClientInv, managerVars, sessionVars, operationVars
<1>1. /\ ConnectionTypes /\ JobTypes /\ job[w].at \in {"closing", "join"} /\ conn[c] # "deleted"
      /\ UNCHANGED operationVars /\ AfterClose(w)
  BY DEF TypeOK, StartClosing, JoinClosing, Uses, Does
<1>2. Left(w, c) BY <1>1, AfterCloseFields DEF Left
<1>3. /\ conn'[c] = "CLOSING" /\ UpgradeInv(c)' /\ ((conn[c] = "CLOSING" /\ Posted(c)) \/ StartClosing(w) => Posted(c)')
      /\ {job[w].cb} \ {"none"} \subseteq callbacks'[c]
      /\ callbacks[c] \subseteq callbacks'[c]
      /\ "delete" \in callbacks'[c] => "delete" \in callbacks[c] \/ job[w].cb = "delete"
      /\ JoinClosing(w) => conn[c] = "CLOSING" /\ strand'[c] = strand[c]
  <2>1. CASE StartClosing(w)
    <3>1. Post(c, "close") /\ callbacks' = callbacks /\ conn'[c] = "CLOSING"
      BY <1>1, <2>1 DEF StartClosing, ConnectionTypes
    <3>2. Posted(c)' /\ UpgradeInv(c)' BY <1>1, <3>1, PostedStays DEF Handlers
    <3>3. job[w].at = "closing" BY <2>1 DEF StartClosing, Uses, Does
    <3>4. {job[w].cb} \ {"none"} \subseteq callbacks[c] BY <1>1, <3>3 DEF PlaceInv, At
    <3> QED BY <3>1, <3>2, <3>3, <3>4 DEF JoinClosing, Uses, Does
  <2>2. CASE JoinClosing(w)
    <3>1. conn[c] = "CLOSING" BY <1>1, <2>2 DEF JoinClosing, Uses, Does, PlaceInv, At
    <3>2. UNCHANGED <<conn, strand>> BY <2>2 DEF JoinClosing
    <3>3. callbacks'[c] = callbacks[c] \cup ({job[w].cb} \ {"none"})
      BY <1>1, <2>2 DEF ConnectionTypes, JoinClosing, Given
    <3>4. UpgradeInv(c)' /\ (Posted(c) => Posted(c)') BY <1>1, <3>2, StrandStays
    <3>5. ~StartClosing(w) BY <2>2 DEF StartClosing, JoinClosing, Uses, Does
    <3> QED BY <3>1, <3>2, <3>3, <3>4, <3>5
  <2> QED BY <2>1, <2>2
<1>4. Orderly(job[w])' /\ PlaceInv(job[w], c)' BY <1>2, LeftRelease
<1>5. ClosingInv(job[w], c)'
  <2>1. EndComes(job[w], c)'
    <3>1. CASE StartClosing(w) BY <1>3, <3>1 DEF EndComes
    <3>2. CASE JoinClosing(w)
      <4>1. EndComes(job[w], c) /\ ~At(job[w], c, {"handshaken", "refused", "announce"})
        BY <1>1, <1>3, <3>2 DEF ClosingInv, At
      <4>2. Posted(c) => Posted(c)' BY <1>3, <3>2
      <4> QED BY <1>1, <4>1, <4>2 DEF EndComes, GateClosed
    <3> QED BY <3>1, <3>2
  <2> QED BY <1>3, <2>1 DEF ClosingInv
<1>6. DeletionInv(job[w], c)'
  <2>1. c \notin released => ~HoldsDelete(job[w], c) BY DEF DeletionInv
  <2>2. c \in released => "delete" \in callbacks'[c] \/ HoldsDelete(job[w], c)'
    BY <1>1, <1>2, <1>3, LeftRelease DEF DeletionInv, HoldsDelete
  <2>3. c \notin released => "delete" \notin callbacks'[c]
    BY <1>3, <2>1 DEF DeletionInv, HoldsDelete
  <2> QED BY <1>2, <1>3, <2>1, <2>2, <2>3, LeftRelease DEF DeletionInv
<1>7. SessionInv(c)' BY <1>3, SessionStays DEF Started
<1> QED BY <1>3, <1>4, <1>5, <1>6, <1>7

LEMMA EndedRelease ==
  ASSUME TypeOK, NEW w \in Workers, NEW c \in Clients, c = job[w].client, Started(c),
         conn[c] \notin {"none", "accepted"}, Orderly(job[w]), ClientInv(job[w], c),
         CloseEnded(w),
         UNCHANGED <<managerVars, sessionVars>>
  PROVE  Orderly(job[w])' /\ ClientInv(job[w], c)'
<1> USE DEF ClientInv, managerVars, sessionVars, connectionVars, operationVars
<1>1. ConnectionTypes /\ JobTypes /\ job[w].at = "ended" /\ conn[c] # "deleted"
  BY DEF TypeOK, CloseEnded, Uses, Does
<1>2. CASE Go(w, "waiting") /\ UNCHANGED connectionVars /\ conn[c] # "CLOSED"
  <2>1. /\ job'[w].at = "waiting" /\ job'[w].client = c
        /\ job'[w].cb = job[w].cb /\ job'[w].todo = job[w].todo
    BY <1>1, <1>2, GoFields
  <2>2. conn[c] = "CLOSING" BY <1>1, <1>2 DEF PlaceInv, At
  <2>3. Orderly(job[w])' BY <2>1 DEF Orderly, ClosePlaces, EndPlaces
  <2>4. PlaceInv(job[w], c)' BY <1>2, <2>1, <2>2 DEF PlaceInv, At
  <2>5. UpgradeInv(c)' BY <1>2, StrandStays
  <2>6. ClosingInv(job[w], c)'
    BY <1>1, <1>2, <2>1, <2>2 DEF ClosingInv, EndComes, Posted, GateClosed, At
  <2>7. DeletionInv(job[w], c)' BY <1>1, <1>2, <2>1 DEF DeletionInv, At, HoldsDelete
  <2>8. SessionInv(c)' BY <1>2 DEF SessionInv
  <2> QED BY <2>3, <2>4, <2>5, <2>6, <2>7, <2>8
<1>3. CASE /\ Left(w, c) /\ job[w].cb # "delete" /\ UNCHANGED connectionVars
  <2>1. Orderly(job[w])' /\ PlaceInv(job[w], c)' BY <1>3, LeftRelease
  <2>2. UpgradeInv(c)' BY <1>3, StrandStays
  <2>3. ClosingInv(job[w], c)'
    BY <1>1, <1>3 DEF ClosingInv, EndComes, Posted, GateClosed, At
  <2>4. DeletionInv(job[w], c)'
    BY <1>3, LeftRelease DEF DeletionInv, HoldsDelete
  <2>5. SessionInv(c)' BY <1>3 DEF SessionInv
  <2> QED BY <2>1, <2>2, <2>3, <2>4, <2>5
<1>4. CASE Left(w, c) /\ job[w].cb = "delete" /\ Delete(c) /\ UNCHANGED <<callbacks, strand>>
  <2>1. Orderly(job[w])' /\ PlaceInv(job[w], c)' BY <1>4, LeftRelease
  <2>2. conn'[c] = "deleted" BY <1>1, <1>4 DEF Delete, ConnectionTypes
  <2>3. UpgradeInv(c)'
    BY <1>1, <1>4, StrandStays, AbortEnds DEF Delete, ConnectionTypes
  <2>4. ClosingInv(job[w], c)' BY <2>2 DEF ClosingInv
  <2>5. c \in released BY <1>4 DEF DeletionInv, HoldsDelete
  <2>6. DeletionInv(job[w], c)' BY <2>2, <2>5 DEF DeletionInv
  <2>7. SessionInv(c)' BY <2>2, SessionStays DEF Started
  <2> QED BY <2>1, <2>3, <2>4, <2>6, <2>7
<1>5. CASE Return(w) /\ job[w].cb = "none" /\ UNCHANGED connectionVars
  <2>1. Left(w, c) BY <1>1, <1>5, ReturnFields DEF Left
  <2> QED BY <1>3, <1>5, <2>1
<1>6. CASE /\ job' = [job EXCEPT ![w].at = "aborted", ![w].cb = "none"]
           /\ job[w].cb = "read" /\ UNCHANGED connectionVars
  <2>1. Left(w, c) BY <1>1, <1>6 DEF Left, JobTypes, Jobs
  <2> QED BY <1>3, <1>6, <2>1
<1>7. CASE AfterClose(w) /\ job[w].cb = "delete" /\ Delete(c) /\ UNCHANGED <<callbacks, strand>>
  <2>1. Left(w, c) BY <1>1, <1>7, AfterCloseFields DEF Left
  <2> QED BY <1>4, <1>7, <2>1
<1> QED BY <1>2, <1>5, <1>6, <1>7 DEF CloseEnded

LEMMA CloseRelease ==
  ASSUME TypeOK, NEW w \in Workers, NEW c \in Clients, c = job[w].client, Started(c),
         conn[c] \notin {"none", "accepted"}, Orderly(job[w]), ClientInv(job[w], c),
         CloseStep(w)
  PROVE  Orderly(job[w])' /\ ClientInv(job[w], c)'
  BY CheckRelease, PushRelease, StartRelease, EndedRelease DEF CloseStep

-----------------------------------------------------------------------------
(* The handlers that start when a thread is free. *)
FreshJob(w, c, places) ==
  \/ job'[w] = NoJob
  \/ /\ job'[w].at \in places \ {"idle"} /\ job'[w].client = c /\ job'[w].todo = {}
     /\ job'[w].cb \in {"none", "read"} /\ (job'[w].at \notin ClosePlaces => job'[w].cb = "none")

LEMMA FreshRelease ==
  ASSUME NEW w \in Workers, NEW c \in Clients, job[w] = NoJob, ClientInv(job[w], c), Started(c),
         conn[c] \notin {"none", "accepted"},
         UNCHANGED <<conn, callbacks, managerVars, sessionVars>>,
         FreshJob(w, c, {"aborted", "received", "close", "handshaken", "refused", "announce"}),
         UpgradeInv(c)',
         conn[c] = "CLOSING" => EndComes(job[w], c)'
  PROVE  Orderly(job[w])' /\ ClientInv(job[w], c)'
<1> USE DEF ClientInv, FreshJob, At, HoldsDelete, managerVars, sessionVars
<1>1. c # "none" BY ClientsAssumption
<1>2. Orderly(job[w])' BY DEF Orderly, NoJob, ClosePlaces, EndPlaces
<1>3. PlaceInv(job[w], c)' BY <1>1 DEF PlaceInv, NoJob
<1>4. ClosingInv(job[w], c)' BY <1>1 DEF ClosingInv, NoJob
<1>5. DeletionInv(job[w], c)' BY <1>1 DEF DeletionInv, NoJob
<1>6. SessionInv(c)' BY DEF SessionInv
<1> QED BY <1>2, <1>3, <1>4, <1>5, <1>6

LEMMA StartsRelease ==
  ASSUME TypeOK, NEW w \in Workers, NEW c \in Clients, ClientInv(job[w], c), Started(c),
         conn[c] \notin {"none", "accepted"}, StartsFor(w, c),
         UNCHANGED <<managerVars, sessionVars>>
  PROVE  Orderly(job[w])' /\ ClientInv(job[w], c)'
<1> USE DEF ClientInv, TypeOK, TakeFromStrand
<1> DEFINE Conclusion == /\ UpgradeInv(c)'
                         /\ FreshJob(w, c, {"aborted", "received", "close", "handshaken",
                                            "refused", "announce"})
                         /\ conn[c] = "CLOSING" => EndComes(job[w], c)'
<1>1. /\ job[w] = NoJob /\ UNCHANGED <<conn, callbacks>> /\ c # "none"
      /\ conn[c] = "CLOSING" => EndComes(job[w], c)
      /\ ~At(job[w], c, {"handshaken", "refused", "announce"})
  BY ClientsAssumption DEF StartsFor, ClosingInv, NoJob, At
<1>2. CASE /\ TakeFromStrand(w, c, "read")
           /\ UNCHANGED job \/ StartOnStrand(w, "aborted", c)
           /\ UNCHANGED <<handshake, tlsClosing, tlsClosed>>
  <2>1. FreshJob(w, c, {"aborted"}) BY <1>1, <1>2, StartFields DEF FreshJob, ClosePlaces
  <2>2. UpgradeInv(c)' /\ (Posted(c) => Posted(c)') BY <1>2, TakenFromStrand
  <2>3. Conclusion BY <1>1, <1>2, <2>1, <2>2 DEF EndComes, GateClosed, FreshJob
  <2> QED BY <1>1, <2>3, FreshRelease
<1>3. CASE /\ TakeFromStrand(w, c, "upgrade")
           /\ handshake' = [handshake EXCEPT ![c] = IF conn[c] = "INSECURE" THEN "inflight" ELSE "none"]
           /\ UNCHANGED <<tlsClosing, tlsClosed, job>>
  <2>1. /\ UpgradeInv(c)' /\ (Posted(c) => Posted(c)')
        /\ handshake[c] = "posted"
    BY <1>3, TakenFromStrand
  <2>2. Conclusion BY <1>1, <1>3, <2>1 DEF EndComes, GateClosed, FreshJob
  <2> QED BY <1>1, <2>2, FreshRelease
<1>4. CASE TakeFromStrand(w, c, "close") /\ GateClosed(c) /\ AbortOperations(c) /\ UNCHANGED job
  <2>1. GateClosed(c)' /\ UpgradeInv(c)' BY <1>4, AbortEnds, TakenFromStrand DEF ConnectionTypes
  <2>2. Conclusion BY <1>1, <1>4, <2>1 DEF EndComes, FreshJob
  <2> QED BY <1>1, <2>2, FreshRelease
<1>5. CASE /\ TakeFromStrand(w, c, "close")
           /\ tlsClosing' = [tlsClosing EXCEPT ![c] = 1]
           /\ tlsClosed' = [tlsClosed EXCEPT ![c] = @ + tlsClosing[c]]
           /\ UNCHANGED <<handshake, job>>
  <2>1. tlsClosing'[c] + tlsClosed'[c] > 0
    BY <1>5 DEF ConnectionTypes, OperationTypes
  <2>2. UpgradeInv(c)' BY <1>5, TakenFromStrand
  <2>3. Conclusion BY <1>1, <1>5, <2>1, <2>2 DEF EndComes, FreshJob
  <2> QED BY <1>1, <2>3, FreshRelease
<1>6. CASE /\ TakeFromStrand(w, c, "close")
           /\ AbortOperations(c) \/ UNCHANGED operationVars
           /\ StartOnStrand(w, "announce", c)
  <2>1. /\ job'[w].at = "announce" /\ job'[w].client = c
        /\ job'[w].cb = "none" /\ job'[w].todo = {}
    BY <1>6, StartFields
  <2>2. handshake'[c] = handshake[c] \/ handshake[c] # "posted"
    BY <1>6, AbortEnds DEF ConnectionTypes, operationVars
  <2>3. UpgradeInv(c)' BY <1>6, <2>2, TakenFromStrand
  <2>4. Conclusion BY <2>1, <2>3 DEF EndComes, FreshJob, At, ClosePlaces
  <2> QED BY <1>1, <2>4, FreshRelease
<1>7. CASE /\ Start(w, "received", c) \/ CallClose(w, c, "read") \/ CallClose(w, c, "none")
           /\ UNCHANGED <<strand, handshake, tlsClosing, tlsClosed>>
  <2>1. FreshJob(w, c, {"received", "close"})
    BY <1>7, StartFields, CallCloseFields DEF FreshJob, ClosePlaces
  <2>2. UpgradeInv(c)' /\ (Posted(c) => Posted(c)') BY <1>7, StrandStays
  <2>3. Conclusion BY <1>1, <1>7, <2>1, <2>2 DEF EndComes, GateClosed, FreshJob
  <2> QED BY <1>1, <2>3, FreshRelease
<1>8. CASE /\ GateClosed(c) /\ handshake' = [handshake EXCEPT ![c] = "done"]
           /\ Start(w, "handshaken", c) \/ Start(w, "refused", c)
           /\ UNCHANGED <<strand, tlsClosing, tlsClosed>>
  <2>1. /\ job'[w].at \in {"handshaken", "refused"} /\ job'[w].client = c
        /\ job'[w].cb = "none" /\ job'[w].todo = {}
    BY <1>8, StartFields
  <2>2. UpgradeInv(c)' BY <1>8, StrandStays DEF GateClosed
  <2>3. Conclusion BY <2>1, <2>2 DEF EndComes, FreshJob, At, ClosePlaces
  <2> QED BY <1>1, <2>3, FreshRelease
<1>9. CASE Start(w, "announce", c) /\ UNCHANGED <<strand, handshake>>
  <2>1. /\ job'[w].at = "announce" /\ job'[w].client = c
        /\ job'[w].cb = "none" /\ job'[w].todo = {}
    BY <1>9, StartFields
  <2>2. UpgradeInv(c)' BY <1>9, StrandStays
  <2>3. Conclusion BY <2>1, <2>2 DEF EndComes, FreshJob, At, ClosePlaces
  <2> QED BY <1>1, <2>3, FreshRelease
<1> QED BY <1>2, <1>3, <1>4, <1>5, <1>6, <1>7, <1>8, <1>9 DEF StartsFor

-----------------------------------------------------------------------------
(* The steps that end a handshake or a close. *)
LEMMA EndingRelease ==
  ASSUME TypeOK, NEW w \in Workers, NEW c \in Clients, c = job[w].client, Started(c),
         conn[c] \notin {"none", "accepted"}, conn'[c] \notin {"none", "accepted"},
         Orderly(job[w]), ClientInv(job[w], c),
         UNCHANGED <<callbacks, strand>>, ConnectionTypes', conn[c] # "deleted",
         AbortOperations(c) \/ UNCHANGED operationVars,
         job[w].at \in EndPlaces \ {"collect"}, job[w].at = "observe" => Go(w, "collect"),
         \/ /\ Go(w, "announce") /\ conn' = conn
         \/ /\ Go(w, "close") /\ conn' = conn /\ conn[c] # "CLOSING"
         \/ /\ Go(w, "secure") /\ conn' = conn /\ conn[c] # "CLOSING"
         \/ /\ Go(w, "observe") /\ conn'[c] = "CLOSED"
         \/ /\ Go(w, "collect") /\ conn' = conn /\ job[w].at = "observe",
         registry \cup leaving \subseteq registry' \cup leaving',
         UNCHANGED <<session, released, silent>>
  PROVE  Orderly(job[w])' /\ ClientInv(job[w], c)'
<1> USE DEF ClientInv
<1>1. JobTypes /\ OperationTypes BY DEF TypeOK, ConnectionTypes
<1>2. PICK place \in {"announce", "close", "secure", "observe", "collect"} :
        /\ Go(w, place)
        /\ place = "observe" => conn'[c] = "CLOSED"
        /\ place # "observe" => conn' = conn
        /\ place \in {"close", "secure"} => conn[c] # "CLOSING"
        /\ place = "collect" => job[w].at = "observe"
  OBVIOUS
<1>3. /\ job'[w].at = place /\ job'[w].client = c /\ job'[w].cb = "none" /\ job'[w].todo = {}
      /\ job[w].cb = "none" /\ job[w].todo = {}
      /\ job[w].at = "observe" => place = "collect"
  BY <1>1, <1>2, GoFields DEF Orderly, EndPlaces, ClosePlaces
<1>4. Orderly(job[w])' BY <1>2, <1>3 DEF Orderly, ClosePlaces
<1>5. PlaceInv(job[w], c)' BY <1>2, <1>3 DEF PlaceInv, At
<1>6. UpgradeInv(c)' BY <1>1, StrandStays, AbortEnds DEF operationVars
<1>7. ClosingInv(job[w], c)'
  <2>1. /\ Posted(c) => Posted(c)'
        /\ GateClosed(c)' <=> GateClosed(c)
        /\ tlsClosing'[c] + tlsClosed'[c] = tlsClosing[c] + tlsClosed[c]
    BY <1>1, StrandStays, AbortEnds DEF operationVars, GateClosed
  <2>2. ASSUME conn'[c] = "CLOSING" PROVE EndComes(job[w], c)'
    <3>1. place \in {"announce", "collect"} /\ conn[c] = "CLOSING" BY <1>2, <2>2
    <3>2. CASE place = "announce" BY <1>3, <3>2 DEF EndComes, At
    <3>3. CASE place = "collect"
      BY <1>2, <2>1, <3>1, <3>3 DEF ClosingInv, EndComes, At
    <3> QED BY <3>1, <3>2, <3>3
  <2>3. ASSUME callbacks[c] # {}
        PROVE  conn'[c] = "CLOSING" \/ place \in {"observe", "collect"}
    <3>1. conn[c] = "CLOSING" \/ job[w].at \in {"observe", "collect"}
      BY <2>3 DEF ClosingInv, At, EndPlaces
    <3> QED BY <1>2, <1>3, <3>1
  <2> QED BY <1>3, <2>2, <2>3 DEF ClosingInv, At
<1>8. DeletionInv(job[w], c)'
  <2>1. conn'[c] # "deleted" BY <1>2
  <2> QED BY <1>2, <1>3, <2>1 DEF DeletionInv, HoldsDelete, At
<1>9. SessionInv(c)' BY SessionStays DEF Started
<1> QED BY <1>4, <1>5, <1>6, <1>7, <1>8, <1>9

(* The callbacks of a close are called when it has ended. *)
LEMMA CallbacksRelease ==
  ASSUME TypeOK, NEW w \in Workers, NEW c \in Clients, c = job[w].client, Started(c),
         conn[c] \notin {"none", "accepted"}, conn'[c] \notin {"none", "accepted"},
         Orderly(job[w]), ClientInv(job[w], c),
         BecomeSecure(w) \/ Collect(w) \/ Dispatch(w),
         UNCHANGED <<managerVars, sessionVars>>
  PROVE  Orderly(job[w])' /\ ClientInv(job[w], c)'
<1> USE DEF ClientInv, managerVars, sessionVars
<1>1. JobTypes /\ ConnectionTypes /\ OperationTypes /\ c # "none" /\ job[w] \in Jobs
  BY ClientsAssumption DEF TypeOK, ConnectionTypes, JobTypes
<1>2. SessionInv(c)' BY SessionStays DEF Started
<1>3. CASE BecomeSecure(w)
  <2>1. /\ job[w].at = "secure" /\ conn[c] # "deleted" /\ conn'[c] = "SECURE"
        /\ job[w].cb = "none" /\ job[w].todo = {}
        /\ UNCHANGED <<callbacks, strand, operationVars>>
    BY <1>1, <1>3 DEF BecomeSecure, Uses, Does, ConnectionTypes, Orderly, EndPlaces, ClosePlaces
  <2>2. job'[w] = NoJob BY <1>1, <1>3, <2>1, ReturnFields DEF BecomeSecure
  <2>3. callbacks[c] = {} BY <2>1 DEF PlaceInv, ClosingInv, At
  <2>4. c \notin released BY <2>1, <2>3 DEF DeletionInv, HoldsDelete
  <2>5. Orderly(job[w])' BY <2>2 DEF Orderly, NoJob, ClosePlaces, EndPlaces
  <2>6. PlaceInv(job[w], c)' BY <1>1, <2>2 DEF PlaceInv, At, NoJob
  <2>7. UpgradeInv(c)' BY <2>1, StrandStays DEF operationVars
  <2>8. ClosingInv(job[w], c)' BY <2>1, <2>3 DEF ClosingInv
  <2>9. DeletionInv(job[w], c)'
    BY <1>1, <2>1, <2>2, <2>3, <2>4 DEF DeletionInv, At, HoldsDelete, NoJob
  <2> QED BY <1>2, <2>5, <2>6, <2>7, <2>8, <2>9
<1>4. CASE Collect(w)
  <2>1. /\ job[w].at = "collect" /\ conn[c] # "deleted" /\ callbacks'[c] = {}
        /\ job[w].cb = "none" /\ job[w].todo = {}
        /\ UNCHANGED <<conn, strand, operationVars>>
    BY <1>1, <1>4 DEF Collect, Uses, Does, ConnectionTypes, Orderly, EndPlaces, ClosePlaces
  <2>2. \/ callbacks[c] = {} /\ job'[w] = NoJob
        \/ /\ job'[w].at = "dispatch" /\ job'[w].client = c
           /\ job'[w].cb = "none" /\ job'[w].todo = callbacks[c]
    <3>1. CASE callbacks[c] = {}
      <4>1. job' = [job EXCEPT ![w] = NoJob] BY <1>4, <3>1 DEF Collect
      <4> QED BY <1>1, <3>1, <4>1 DEF JobTypes
    <3>2. CASE callbacks[c] # {}
      <4>1. job' = [job EXCEPT ![w] = [job[w] EXCEPT !.at = "dispatch", !.todo = callbacks[c]]]
        BY <1>4, <3>2 DEF Collect
      <4> QED BY <1>1, <2>1, <4>1 DEF JobTypes, Jobs
    <3> QED BY <3>1, <3>2
  <2>3. Orderly(job[w])' BY <2>2 DEF Orderly, NoJob, ClosePlaces, EndPlaces
  <2>4. PlaceInv(job[w], c)' BY <1>1, <2>2 DEF PlaceInv, At, NoJob
  <2>5. UpgradeInv(c)' BY <2>1, StrandStays DEF operationVars
  <2>6. ClosingInv(job[w], c)'
    BY <2>1 DEF ClosingInv, EndComes, Posted, GateClosed, operationVars, At
  <2>7. DeletionInv(job[w], c)'
    BY <1>1, <2>1, <2>2 DEF DeletionInv, At, HoldsDelete, NoJob
  <2> QED BY <1>2, <2>3, <2>4, <2>5, <2>6, <2>7
<1>5. CASE Dispatch(w)
  <2>1. /\ job[w].at = "dispatch" /\ job[w].cb = "none" /\ UNCHANGED <<callbacks, strand>>
    BY <1>5 DEF Dispatch, Does, Orderly, ClosePlaces
  <2>2. CASE /\ "read" \in job[w].todo
             /\ job' = [job EXCEPT ![w].at = "aborted", ![w].todo = @ \ {"read"}]
             /\ UNCHANGED <<conn, operationVars>>
    <3>1. /\ job'[w].at = "aborted" /\ job'[w].client = c
          /\ job'[w].cb = "none" /\ job'[w].todo = job[w].todo \ {"read"}
      BY <1>1, <2>1, <2>2 DEF JobTypes, Jobs
    <3>2. Orderly(job[w])' BY <3>1 DEF Orderly, ClosePlaces, EndPlaces
    <3>3. PlaceInv(job[w], c)' BY <3>1 DEF PlaceInv, At
    <3>4. UpgradeInv(c)' BY <2>1, <2>2, StrandStays DEF operationVars
    <3>5. ClosingInv(job[w], c)'
      BY <2>1, <2>2 DEF ClosingInv, EndComes, Posted, GateClosed, operationVars, At
    <3>6. DeletionInv(job[w], c)'
      BY <2>1, <2>2, <3>1 DEF DeletionInv, At, HoldsDelete
    <3> QED BY <1>2, <3>2, <3>3, <3>4, <3>5, <3>6
  <2>3. CASE /\ "delete" \in job[w].todo
             /\ Delete(c)
             /\ job' = [job EXCEPT ![w] = IF @.todo = {"delete"} THEN NoJob
                          ELSE [@ EXCEPT !.todo = {"read"}]]
    <3>1. c \in released BY <2>3 DEF DeletionInv, HoldsDelete
    <3>2. conn'[c] = "deleted" BY <1>1, <2>3 DEF Delete, ConnectionTypes
    <3>3. \/ job'[w] = NoJob
          \/ job'[w].at = "dispatch" /\ job'[w].cb = "none" /\ job'[w].client = c
      <4>1. CASE job[w].todo = {"delete"} BY <1>1, <2>3, <4>1 DEF JobTypes
      <4>2. CASE job[w].todo # {"delete"}
        <5>1. job' = [job EXCEPT ![w] = [job[w] EXCEPT !.todo = {"read"}]] BY <2>3, <4>2
        <5> QED BY <1>1, <2>1, <5>1 DEF JobTypes, Jobs
      <4> QED BY <4>1, <4>2
    <3>4. Orderly(job[w])' BY <3>3 DEF Orderly, NoJob, ClosePlaces, EndPlaces
    <3>5. PlaceInv(job[w], c)' BY <3>2 DEF PlaceInv
    <3>6. UpgradeInv(c)' BY <1>1, <2>1, <2>3, StrandStays, AbortEnds DEF Delete
    <3>7. ClosingInv(job[w], c)' BY <3>2 DEF ClosingInv
    <3>8. DeletionInv(job[w], c)' BY <3>1, <3>2 DEF DeletionInv
    <3> QED BY <1>2, <3>4, <3>5, <3>6, <3>7, <3>8
  <2> QED BY <1>5, <2>2, <2>3 DEF Dispatch
<1> QED BY <1>3, <1>4, <1>5

LEMMA LaterRelease ==
  ASSUME Inv, TypeOK', NEW w \in Workers, NEW c \in Clients, c = job[w].client, Started(c),
         conn[c] \notin {"none", "accepted"}, conn'[c] \notin {"none", "accepted"},
         Orderly(job[w]), ClientInv(job[w], c),
         \/ HandshakeEnded(w) \/ BecomeSecure(w) \/ Announce(w) \/ Collect(w) \/ Dispatch(w)
         \/ Observe(w),
         UNCHANGED <<managerVars, session, released, silent>>,
         Observe(w) \/ UNCHANGED sessionVars
  PROVE  Orderly(job[w])' /\ ClientInv(job[w], c)'
<1> USE DEF Inv, TypeOK, managerVars
<1>1. CASE HandshakeEnded(w)
  <2>1. /\ conn[c] # "deleted" /\ UNCHANGED <<conn, callbacks, strand>>
        /\ job[w].at \in {"handshaken", "refused"}
        /\ AbortOperations(c) \/ UNCHANGED operationVars
        /\ \/ Go(w, "announce")
           \/ (Go(w, "close") \/ Go(w, "secure")) /\ conn[c] # "CLOSING"
    BY <1>1 DEF HandshakeEnded, Uses, Does
  <2> QED BY <2>1, EndingRelease DEF EndPlaces
<1>2. CASE Announce(w)
  <2>1. /\ conn[c] # "deleted" /\ conn'[c] = "CLOSED" /\ job[w].at = "announce"
        /\ Go(w, "observe") /\ UNCHANGED <<callbacks, strand, operationVars>>
    BY <1>2 DEF Announce, Uses, Does, ConnectionTypes
  <2> QED BY <2>1, EndingRelease DEF EndPlaces
<1>3. CASE Observe(w)
  <2>1. /\ conn[c] # "deleted" /\ job[w].at = "observe" /\ Go(w, "collect")
        /\ UNCHANGED <<conn, callbacks, strand, operationVars>>
    BY <1>3 DEF Observe, Uses, Does, connectionVars
  <2> QED BY <2>1, EndingRelease DEF EndPlaces
<1>4. CASE BecomeSecure(w) \/ Collect(w) \/ Dispatch(w)
  <2>1. ~Observe(w)
    BY <1>4 DEF Observe, BecomeSecure, Collect, Dispatch, Uses, Does
  <2> QED BY <1>4, <2>1, CallbacksRelease
<1> QED BY <1>1, <1>2, <1>3, <1>4

(* On a deleted connection, only the callback of a call of close() is lost.  *)
LEMMA DeletedRelease ==
  ASSUME Inv, NEW w \in Workers, NEW c \in Clients, Started(c),
         UNCHANGED <<conn, callbacks, managerVars, sessionVars>>,
         Orderly(job[w]), ClientInv(job[w], c),
         GoesOnFor(w, c)
  PROVE  Orderly(job[w])' /\ ClientInv(job[w], c)'
<1> USE DEF ClientInv, GoesOnFor, Free, managerVars, sessionVars
<1>1. JobTypes /\ ConnectionTypes BY DEF Inv, TypeOK
<1>2. UpgradeInv(c)' BY <1>1, StrandStays, TakenFromStrand DEF GateClosed
<1>3. PlaceInv(job[w], c)' /\ ClosingInv(job[w], c)' BY DEF PlaceInv, ClosingInv
<1>4. SessionInv(c)' BY DEF SessionInv
<1>5. c \in released BY DEF DeletionInv, Started
<1>6. DeletionInv(job[w], c)' BY <1>5 DEF DeletionInv
<1>7. Orderly(job[w])'
  <2>1. CASE UNCHANGED job BY <2>1 DEF Orderly
  <2>2. CASE job[w].client = c /\ AfterClose(w)
    <3>1. Left(w, c) BY <1>1, <2>2, AfterCloseFields DEF Left
    <3> QED BY <2>2, <3>1, LeftRelease
  <2> QED BY <2>1, <2>2
<1> QED BY <1>2, <1>3, <1>4, <1>6, <1>7

-----------------------------------------------------------------------------
(* The session's steps. *)

(* A thread in the session goes on, or calls close() to delete the connection *)
(* once it has let go of it.                                                 *)
LEMMA SessionRelease ==
  ASSUME TypeOK, NEW w \in Workers, NEW c \in Clients, c = job[w].client, Started(c),
         conn[c] \notin {"none", "accepted"}, Orderly(job[w]), ClientInv(job[w], c),
         job[w].at \in {"aborted", "received", "tokens", "notify"},
         UNCHANGED <<conn, callbacks, session, silent, tlsClosing, tlsClosed>>,
         Posted(c) => Posted(c)', UpgradeInv(c)', GateClosed(c) => GateClosed(c)',
         \/ /\ Left(w, c) /\ job'[w].at # "notify"
            /\ c \in released' <=> c \in released
         \/ /\ job'[w].at \in {"tokens", "aborted"} /\ job'[w].client = c
            /\ job'[w].cb = "none" /\ job'[w].todo = job[w].todo
            /\ c \in released' <=> c \in released
         \/ /\ job'[w].at = "close" /\ job'[w].client = c
            /\ job'[w].cb = "delete" /\ job'[w].todo = job[w].todo
            /\ c \in released',
         c \in registry \cup leaving => c \in registry' \cup leaving' \/ c \in released'
  PROVE  Orderly(job[w])' /\ ClientInv(job[w], c)'
<1> USE DEF ClientInv
<1>1. c # "none" /\ job[w].cb = "none"
  BY ClientsAssumption DEF Orderly, ClosePlaces
<1>2. Orderly(job[w])' BY LeftRelease DEF Orderly, ClosePlaces, EndPlaces
<1>3. PlaceInv(job[w], c)' BY LeftRelease DEF PlaceInv, At
<1>4. ClosingInv(job[w], c)' BY DEF ClosingInv, EndComes, At
<1>5. DeletionInv(job[w], c)'
  <2>1. c \in released => c \in released' OBVIOUS
  <2>2. ASSUME c \notin released'
        PROVE  "delete" \notin callbacks'[c] /\ ~HoldsDelete(job[w], c)' /\ ~At(job[w], c, {"notify"})'
    <3>1. c \notin released BY <2>1, <2>2
    <3> QED BY <2>2, <3>1, LeftRelease DEF DeletionInv, HoldsDelete, At
  <2>3. ASSUME c \in released'
        PROVE  conn'[c] = "deleted" \/ "delete" \in callbacks'[c] \/ HoldsDelete(job[w], c)'
    <3>1. CASE c \in released
      <4>1. conn[c] = "deleted" \/ "delete" \in callbacks[c] \/ "delete" \in job[w].todo
        BY <1>1, <3>1 DEF DeletionInv, HoldsDelete
      <4> QED BY <4>1, LeftRelease DEF HoldsDelete
    <3>2. CASE c \notin released BY <2>3, <3>2 DEF HoldsDelete
    <3> QED BY <3>1, <3>2
  <2> QED BY <2>1, <2>2, <2>3 DEF DeletionInv
<1>6. SessionInv(c)' BY SessionStays DEF Started
<1> QED BY <1>2, <1>3, <1>4, <1>5, <1>6

LEMMA GiveUpFields ==
  ASSUME JobTypes, NEW w \in Workers, GiveUp(w, job[w].client), job[w].cb = "none"
  PROVE  \/ /\ Left(w, job[w].client) /\ job'[w].at # "notify" /\ released' = released
         \/ /\ job'[w].at = "close" /\ job'[w].client = job[w].client
            /\ job'[w].cb = "delete" /\ job'[w].todo = job[w].todo
            /\ job[w].client \in released'
<1> DEFINE c == job[w].client
<1>1. CASE c \in released
  <2>1. Return(w) /\ released' = released BY <1>1 DEF GiveUp
  <2> QED BY <2>1, ReturnFields DEF Left, NoJob
<1>2. CASE c \notin released
  <2>1. job' = [job EXCEPT ![w] = [job[w] EXCEPT !.at = "close", !.cb = "delete"]]
        /\ released' = released \cup {c}
    BY <1>2 DEF GiveUp, LetGo
  <2> QED BY <2>1 DEF JobTypes, Jobs
<1> QED BY <1>1, <1>2

LEMMA ReadLoopRelease ==
  ASSUME TypeOK, NEW w \in Workers, NEW c \in Clients, c = job[w].client, Started(c),
         conn[c] \notin {"none", "accepted"}, Orderly(job[w]), ClientInv(job[w], c),
         \/ Aborted(w) \/ Received(w) \/ ShutdownOnToken(w) \/ Upgrade(w) \/ Process(w)
         \/ Notify(w)
  PROVE  Orderly(job[w])' /\ ClientInv(job[w], c)'
<1> USE DEF ClientInv, TypeOK, managerVars, connectionVars, operationVars
<1>1. /\ job[w].at \in {"aborted", "received", "tokens", "notify"} /\ job[w].cb = "none"
      /\ UNCHANGED <<conn, callbacks, session, silent, tlsClosing, tlsClosed, leaving>>
  BY DEF Aborted, Received, ShutdownOnToken, Upgrade, Process, Notify, Does, sessionVars,
         Orderly, ClosePlaces
<1>2. ASSUME UNCHANGED <<strand, handshake>>
      PROVE  (Posted(c) => Posted(c)') /\ UpgradeInv(c)' /\ (GateClosed(c) => GateClosed(c)')
  BY <1>2, StrandStays DEF GateClosed
<1>3. ASSUME Return(w) PROVE Left(w, c) /\ job'[w].at # "notify"
  BY <1>1, <1>3, ReturnFields DEF Left, NoJob
<1>4. CASE Aborted(w) \/ Received(w)
  <2>1. UNCHANGED <<strand, handshake, registry>> BY <1>4 DEF Aborted, Received
  <2>2. CASE GiveUp(w, c)
    <3>1. \/ /\ Left(w, c) /\ job'[w].at # "notify" /\ released' = released
          \/ /\ job'[w].at = "close" /\ job'[w].client = c
             /\ job'[w].cb = "delete" /\ job'[w].todo = job[w].todo
             /\ c \in released'
      BY <1>1, <2>2, GiveUpFields
    <3> QED BY <1>1, <1>2, <2>1, <3>1, SessionRelease
  <2>3. CASE Go(w, "tokens") /\ released' = released
    <3>1. /\ job'[w].at = "tokens" /\ job'[w].client = c
          /\ job'[w].cb = "none" /\ job'[w].todo = job[w].todo
      BY <1>1, <2>3, GoFields
    <3> QED BY <1>1, <1>2, <2>1, <2>3, <3>1, SessionRelease
  <2> QED BY <1>4, <2>2, <2>3 DEF Aborted, Received
<1>5. CASE ShutdownOnToken(w)
  <2>1. /\ job' = [job EXCEPT ![w] = [job[w] EXCEPT !.at = "close", !.cb = "delete", !.inTokens = TRUE]]
        /\ c \in released' /\ UNCHANGED <<strand, handshake, registry>>
    BY <1>5 DEF ShutdownOnToken, LetGo
  <2>2. /\ job'[w].at = "close" /\ job'[w].client = c
        /\ job'[w].cb = "delete" /\ job'[w].todo = job[w].todo
    BY <2>1 DEF JobTypes, Jobs
  <2> QED BY <1>1, <1>2, <2>1, <2>2, SessionRelease
<1>6. CASE Upgrade(w)
  <2>1. /\ handshake[c] = "none" /\ handshake'[c] = "posted" /\ Post(c, "upgrade")
        /\ UNCHANGED <<job, released, registry>>
    BY <1>6 DEF Upgrade, sessionVars, ConnectionTypes, OperationTypes
  <2>2. (Posted(c) => Posted(c)') /\ UpgradeInv(c)' BY <2>1, PostedStays DEF Handlers
  <2>3. ~GateClosed(c) BY <2>1 DEF GateClosed
  <2>4. job[w].at = "tokens" BY <1>6 DEF Upgrade, Does
  <2> QED BY <1>1, <2>1, <2>2, <2>3, <2>4, SessionRelease
<1>7. CASE Process(w)
  <2>1. /\ Post(c, "read") \/ UNCHANGED strand
        /\ Return(w) \/ Go(w, "aborted")
        /\ UNCHANGED <<handshake, released, registry>>
    BY <1>7 DEF Process, sessionVars
  <2>2. (Posted(c) => Posted(c)') /\ UpgradeInv(c)' /\ (GateClosed(c) => GateClosed(c)')
    BY <2>1, PostedStays, StrandStays DEF Handlers, GateClosed
  <2>3. CASE Return(w) BY <1>1, <1>3, <2>1, <2>2, <2>3, SessionRelease
  <2>4. CASE Go(w, "aborted")
    <3>1. /\ job'[w].at = "aborted" /\ job'[w].client = c
          /\ job'[w].cb = "none" /\ job'[w].todo = job[w].todo
      BY <1>1, <2>4, GoFields
    <3> QED BY <1>1, <2>1, <2>2, <3>1, SessionRelease
  <2> QED BY <2>1, <2>3, <2>4
<1>8. CASE Notify(w)
  <2>1. c \in released BY <1>8 DEF Notify, Does, DeletionInv, At
  <2>2. UNCHANGED <<strand, handshake, released>> BY <1>8 DEF Notify
  <2>3. \/ Return(w)
        \/ job' = [job EXCEPT ![w] = [job[w] EXCEPT !.at = "tokens", !.inTokens = FALSE]]
    BY <1>8 DEF Notify
  <2>4. CASE Return(w) BY <1>1, <1>2, <1>3, <2>1, <2>2, <2>4, SessionRelease
  <2>5. CASE job' = [job EXCEPT ![w] = [job[w] EXCEPT !.at = "tokens", !.inTokens = FALSE]]
    <3>1. /\ job'[w].at = "tokens" /\ job'[w].client = c
          /\ job'[w].cb = "none" /\ job'[w].todo = job[w].todo
      BY <1>1, <2>5 DEF JobTypes, Jobs
    <3> QED BY <1>1, <1>2, <2>1, <2>2, <3>1, SessionRelease
  <2> QED BY <2>3, <2>4, <2>5
<1> QED BY <1>4, <1>5, <1>6, <1>7, <1>8

-----------------------------------------------------------------------------
(* The steps of the threads. *)
LEMMA CallbacksOthers ==
  ASSUME Inv, NEW w \in Workers, NEW d \in Clients,
         CloseStep(w) \/ HandlerStep(w) \/ Observe(w) \/ UseAfterDelete(w),
         Free(w) \/ job[w].client # d
  PROVE  callbacks'[d] = callbacks[d]
<1>1. ConnectionTypes BY DEF Inv, TypeOK
<1>2. CASE UNCHANGED callbacks BY <1>2
<1>3. CASE PushCallback(w) \/ JoinClosing(w) \/ Collect(w)
  <2>1. job[w].client # d
    BY <1>3 DEF PushCallback, JoinClosing, Collect, Uses, Does, Free, NoJob
  <2> QED BY <1>1, <1>3, <2>1 DEF PushCallback, JoinClosing, Collect, ConnectionTypes
<1> QED BY <1>2, <1>3
        DEF CloseStep, HandlerStep, Observe, UseAfterDelete, CheckClosed, CheckClosing, StartClosing,
            CloseEnded, CloseWaits, StrandRead, StrandUpgrade, StrandClose, HandleData,
            HandleError, HandleFailedWrite, HandleHandshake, HandshakeEnded, BecomeSecure,
            HandleTlsShutdown, Announce, Dispatch, connectionVars

LEMMA ConnectionRelease ==
  ASSUME Inv, TypeOK', ReleaseInv, OneThread, NEW w \in Workers, ConnectionStep(w)
  PROVE  ReleaseInv'
<1>1. UNCHANGED <<phase, listenerVars, managerVars, session, released, silent>>
  BY DEF ConnectionStep, CloseStep, HandlerStep, Observe, UseAfterDelete, sessionVars
<1>2. ASSUME NEW c \in Clients, WorksFor(w, c),
             Free(w) \/ (job[w].at # "idle" /\ job[w].client = c),
             \A d \in Clients : d # c => callbacks'[d] = callbacks[d],
             Orderly(job[w])', ClientInv(job[w], c)'
      PROVE  ReleaseInv'
  <2>1. \A d \in Clients : d # c => SameForOwner(d)
    BY <1>1, <1>2 DEF SameForOwner, listenerVars, managerVars
  <2> QED BY <1>1, <1>2, <2>1, WorkerRelease DEF listenerVars, managerVars
<1>3. ASSUME Free(w) \/ job[w].at # "idle"
      PROVE  Orderly(job[w]) /\ \A c \in Clients : ClientInv(job[w], c)
  BY <1>3, RunsAlone DEF ReleaseInv
<1>4. ASSUME job[w].at # "idle"
      PROVE  /\ job[w].client \in Clients /\ Started(job[w].client)
             /\ conn[job[w].client] \notin {"none", "accepted"}
  BY <1>4, BusyStarted DEF Inv, AcceptedOnce
<1>5. CASE CloseStep(w)
  <2>1. job[w].at # "idle" /\ WorksFor(w, job[w].client) BY <1>5, CloseStepWorks
  <2>2. PICK c \in Clients : c = job[w].client BY <1>4, <2>1
  <2>3. Orderly(job[w])' /\ ClientInv(job[w], c)'
    BY <1>3, <1>4, <1>5, <2>1, <2>2, CloseRelease DEF Inv
  <2>4. \A d \in Clients : d # c => callbacks'[d] = callbacks[d]
    BY <1>5, <2>2, CallbacksOthers
  <2> QED BY <1>2, <2>1, <2>2, <2>3, <2>4
<1>6. ASSUME \/ HandshakeEnded(w) \/ BecomeSecure(w) \/ Announce(w) \/ Collect(w) \/ Dispatch(w)
             \/ Observe(w),
             Observe(w) \/ UNCHANGED sessionVars, HandlerStep(w) \/ Observe(w),
             job[w].at # "idle" /\ WorksFor(w, job[w].client)
      PROVE  ReleaseInv'
  <2>1. PICK c \in Clients : c = job[w].client BY <1>4, <1>6
  <2>2. conn'[c] \notin {"none", "accepted"} BY <1>6, <2>1 DEF WorksFor, IsStarted
  <2>3. Orderly(job[w])' /\ ClientInv(job[w], c)'
    BY <1>1, <1>3, <1>4, <1>6, <2>1, <2>2, LaterRelease
  <2>4. \A d \in Clients : d # c => callbacks'[d] = callbacks[d]
    BY <1>6, <2>1, CallbacksOthers
  <2> QED BY <1>2, <1>6, <2>1, <2>3, <2>4
<1>7. CASE HandlerStep(w)
  <2>1. UNCHANGED <<managerVars, sessionVars, served>> BY <1>7 DEF HandlerStep, sessionVars
  <2>2. CASE HandshakeEnded(w) \/ BecomeSecure(w) \/ Announce(w) \/ Collect(w) \/ Dispatch(w)
    BY <1>6, <1>7, <2>1, <2>2, LaterHandlerWorks
  <2>3. CASE \/ StrandRead(w) \/ StrandUpgrade(w) \/ StrandClose(w) \/ HandleData(w) \/ HandleError(w)
             \/ HandleFailedWrite(w) \/ HandleHandshake(w) \/ HandleTlsShutdown(w)
    <3>1. PICK c \in Clients : Started(c) /\ WorksFor(w, c) /\ StartsFor(w, c)
      BY <2>1, <2>3, StartedHandlerWorks
    <3>2. Free(w)
      BY <2>3 DEF StrandRead, StrandUpgrade, StrandClose, HandleData, HandleError,
                  HandleFailedWrite, HandleHandshake, HandleTlsShutdown, TakeFromStrand
    <3>3. conn[c] \notin {"none", "accepted"} BY <3>1 DEF Inv, AcceptedOnce
    <3>4. Orderly(job[w])' /\ ClientInv(job[w], c)'
      BY <1>3, <2>1, <3>1, <3>2, <3>3, StartsRelease DEF Inv
    <3>5. \A d \in Clients : d # c => callbacks'[d] = callbacks[d]
      BY <3>1 DEF StartsFor
    <3> QED BY <1>2, <3>1, <3>2, <3>4, <3>5
  <2> QED BY <1>7, <2>2, <2>3 DEF HandlerStep
<1>8. CASE Observe(w)
  <2>1. job[w].at # "idle" BY <1>8 DEF Observe, Uses, Does
  <2>2. WorksFor(w, job[w].client)
    BY <1>4, <1>8, <2>1, GoJob
    DEF Observe, WorksFor, Untouches, IsStarted, connectionVars, operationVars, Inv, TypeOK
  <2> QED BY <1>6, <1>8, <2>1, <2>2
<1>9. CASE UseAfterDelete(w)
  <2>1. PICK c \in Clients : Started(c) /\ WorksFor(w, c) /\ GoesOnFor(w, c)
    BY <1>9, UseAfterDeleteWorks
  <2>2. Free(w) \/ (job[w].at # "idle" /\ job[w].client = c) BY <2>1 DEF GoesOnFor
  <2>3. UNCHANGED <<conn, callbacks, managerVars, sessionVars>> BY <1>9 DEF UseAfterDelete
  <2>4. Orderly(job[w])' /\ ClientInv(job[w], c)'
    BY <1>3, <2>1, <2>2, <2>3, DeletedRelease
  <2> QED BY <1>2, <2>1, <2>2, <2>3, <2>4
<1> QED BY <1>5, <1>7, <1>8, <1>9 DEF ConnectionStep

LEMMA SessionStepRelease ==
  ASSUME Inv, TypeOK', ReleaseInv, OneThread, NEW w \in Workers, SessionStep(w)
  PROVE  ReleaseInv'
<1> USE DEF SameForOwner, listenerVars
<1>1. /\ TypeOK
      /\ \A c \in Clients : Started(c) => conn[c] \notin {"none", "accepted"}
  BY DEF Inv, AcceptedOnce
<1>2. CASE \/ Aborted(w) \/ Received(w) \/ ShutdownOnToken(w) \/ Upgrade(w) \/ Process(w)
           \/ Notify(w)
  <2>1. job[w].at # "idle" /\ WorksFor(w, job[w].client) BY <1>2, SessionStepWorks
  <2>2. PICK c \in Clients : c = job[w].client /\ Started(c) BY <2>1, BusyStarted
  <2>3. Orderly(job[w]) /\ ClientInv(job[w], c)
    BY <2>1, RunsAlone DEF ReleaseInv
  <2>4. Orderly(job[w])' /\ ClientInv(job[w], c)' BY <1>1, <1>2, <2>2, <2>3, ReadLoopRelease
  <2>5. /\ UNCHANGED <<phase, shuttingDown, listenerVars, leaving, silent, session, callbacks>>
        /\ registry' = registry \/ registry' = registry \ {c}
        /\ released' = released \/ released' = released \cup {c}
    BY <1>2, <2>2
    DEF Aborted, Received, ShutdownOnToken, Upgrade, Process, Notify, GiveUp, LetGo, Unregister,
        managerVars, sessionVars, connectionVars
  <2>6. \A d \in Clients : d # c => SameForOwner(d) BY <2>5
  <2> QED BY <2>1, <2>2, <2>4, <2>5, <2>6, WorkerRelease
<1>3. CASE DeleteSession(w)
  <2>1. PICK c \in Clients :
          /\ deletions[c] > 0
          /\ session' = [session EXCEPT ![c] = "deleted"]
    BY <1>3 DEF DeleteSession
  <2>2. /\ UNCHANGED <<phase, listenerVars, shuttingDown, registry, leaving, released, silent,
                       served, connectionVars, operationVars, job>>
        /\ Free(w)
    BY <1>3 DEF DeleteSession, connectionVars
  <2>3. session[c] = "live" /\ session'[c] = "deleted" /\ Started(c)
    BY <1>1, <2>1 DEF Inv, OwnedOnce, TypeOK, ManagerTypes, SessionTypes, Started
  <2>4. \A d \in Clients : Untouches(d)
    BY <2>2 DEF Untouches, connectionVars, operationVars
  <2>5. WorksFor(w, c)
    BY <1>1, <2>2, <2>3, <2>4 DEF WorksFor, IsStarted, Untouches, Free, NoJob
  <2>6. \A d \in Clients : d # c => SameForOwner(d)
    BY <1>1, <2>1, <2>2 DEF TypeOK, SessionTypes, connectionVars
  <2>7. Orderly(job[w]) /\ ClientInv(job[w], c) BY <2>2, RunsAlone DEF ReleaseInv
  <2>8. Orderly(job[w])' BY <2>2, <2>7 DEF Orderly
  <2>9. ClientInv(job[w], c)'
    BY <2>2, <2>3, <2>7
    DEF ClientInv, PlaceInv, UpgradeInv, ClosingInv, EndComes, Posted, GateClosed, DeletionInv,
        SessionInv, At, HoldsDelete, IsOpen, connectionVars, operationVars
  <2> QED BY <2>2, <2>5, <2>6, <2>8, <2>9, WorkerRelease
<1> QED BY <1>2, <1>3 DEF SessionStep

(* A client that is accepted gets a connection whose owner is in the registry. *)
LEMMA AcceptRelease ==
  ASSUME Inv, TypeOK', ReleaseInv, OneThread, NEW w \in Workers, HandleAccept(w)
  PROVE  ReleaseInv'
<1> USE DEF TypeOK, ListenerTypes
<1>1. /\ Free(w) /\ TypeOK
      /\ UNCHANGED <<phase, listening, observed, shuttingDown, leaving, released, silent, served,
                     callbacks, operationVars, job>>
  BY DEF HandleAccept, Inv
<1>2. PICK a \in Acceptors :
        /\ AcceptAgain(a)
        /\ \/ /\ accept[a] \in {"failed", "aborted"}
              /\ UNCHANGED <<registry, session, conn, strand>>
           \/ accept[a] \in Clients /\ StartSession(accept[a]) /\ observed
           \/ /\ accept[a] \in Clients
              /\ conn' = [conn EXCEPT ![accept[a]] = "deleted"]
              /\ UNCHANGED <<registry, session, strand>>
  BY DEF HandleAccept
<1>3. /\ \A b \in Acceptors : b # a => accept'[b] = accept[b]
      /\ accept'[a] = "pending" => listening
      /\ accept'[a] \notin Clients
  BY <1>1, <1>2, ClientsAssumption DEF AcceptAgain
<1>4. \A b \in Acceptors : accept'[b] = "pending" => accept[b] = "pending" \/ listening
  BY <1>3
<1>5. /\ Orderly(job[w]) /\ \A d \in Clients : ClientInv(job[w], d)
  BY <1>1, RunsAlone DEF ReleaseInv
<1>6. Orderly(job[w])' BY <1>1, <1>5 DEF Orderly
<1>7. CASE accept[a] \in {"failed", "aborted"}
  <2>1. UNCHANGED <<registry, session, conn, strand>> BY <1>2, <1>7, ClientsAssumption
  <2>2. PhaseInv'
    BY <1>1, <1>4, <2>1, WorkerPhase DEF ReleaseInv
  <2>3. \A d \in Clients, b \in Acceptors : accept[b] = d => accept'[b] = d
    BY <1>3, <1>7, ClientsAssumption
  <2>4. \A d \in Clients : Untouches(d) /\ SameForOwner(d)
    BY <1>1, <2>1, <2>3 DEF Untouches, SameForOwner, operationVars
  <2>5. ASSUME NEW v \in Workers, Alone(v), NEW d \in Clients PROVE ClientInv(job[v], d)'
    <3>1. ClientInv(job[v], d) /\ SessionInv(d) BY <2>5 DEF ReleaseInv, ClientInv
    <3>2. SessionInv(d)' BY <2>4, <3>1 DEF SessionInv, Untouches, SameForOwner
    <3> QED BY <1>1, <2>1, <3>1, <3>2
            DEF ClientInv, PlaceInv, UpgradeInv, ClosingInv, EndComes, Posted, GateClosed,
                DeletionInv, At, HoldsDelete, IsOpen, operationVars
  <2> QED BY <1>1, <2>2, <2>5 DEF ReleaseInv, Alone, Orderly
<1>8. CASE accept[a] \in Clients
  <2>1. PICK c \in Clients : c = accept[a] BY <1>8
  <2>2. conn[c] = "accepted" /\ session[c] = "none" /\ Untouched(c)
        /\ \A b \in Acceptors : b # a => accept[b] # c
    BY <1>1, <2>1 DEF Inv, AcceptedOnce, StartedFirst, Started, SessionTypes
  <2>3. \/ /\ session' = [session EXCEPT ![c] = "live"] /\ registry' = registry \cup {c} /\ observed
           /\ conn' = [conn EXCEPT ![c] = "INSECURE"] /\ Post(c, "read")
        \/ /\ conn' = [conn EXCEPT ![c] = "deleted"]
           /\ UNCHANGED <<registry, session, strand>>
    BY <1>2, <2>1, ClientsAssumption DEF StartSession
  <2>4. WorksFor(w, c)
    <3>1. conn'[c] \notin {"none", "accepted"} BY <1>1, <2>3 DEF ConnectionTypes
    <3>2. \A d \in Clients : d # c => strand'[d] = strand[d]
      BY <1>1, <2>3, PostOthers
    <3>3. \A d \in Clients : d # c => Untouches(d)
      BY <1>1, <2>3, <3>2 DEF Untouches, ConnectionTypes, operationVars
    <3> QED BY <1>1, <3>1, <3>3 DEF WorksFor, IsStarted, Free, NoJob
  <2>5. \A d \in Clients : d # c => SameForOwner(d)
    <3>1. \A d \in Clients : d # c => \A b \in Acceptors : accept[b] = d => accept'[b] = d
      BY <1>3, <2>1
    <3> QED BY <1>1, <2>3, <3>1 DEF SameForOwner, SessionTypes
  <2>6. callbacks[c] = {} /\ c \notin released /\ c \notin silent
    BY <1>5, <2>2 DEF ClientInv, SessionInv
  <2>7. job[w].client # c /\ job[w] = NoJob
    BY <1>1, ClientsAssumption DEF Free, NoJob
  <2>8. ClientInv(job[w], c)'
    <3>1. UpgradeInv(c)'
      <4>1. UpgradeInv(c) BY <1>5 DEF ClientInv
      <4> QED BY <1>1, <2>3, <4>1, PostedStays, StrandStays DEF Handlers, operationVars
    <3>2. conn'[c] \in {"INSECURE", "deleted"} BY <1>1, <2>3 DEF ConnectionTypes
    <3>3. PlaceInv(job[w], c)' BY <1>1, <2>7 DEF PlaceInv, At
    <3>4. ClosingInv(job[w], c)' BY <1>1, <2>6, <3>2 DEF ClosingInv
    <3>5. DeletionInv(job[w], c)'
      <4>1. conn'[c] = "deleted" => session'[c] = "none"
        BY <1>1, <2>2, <2>3 DEF ConnectionTypes
      <4> QED BY <1>1, <2>6, <2>7, <4>1 DEF DeletionInv, At, HoldsDelete
    <3>6. SessionInv(c)'
      <4>1. \/ session'[c] = "live" /\ c \in registry'
            \/ session'[c] = "none" /\ conn'[c] = "deleted"
        BY <1>1, <2>2, <2>3 DEF ConnectionTypes, SessionTypes
      <4> QED BY <1>1, <2>6, <3>2, <4>1 DEF SessionInv
    <3> QED BY <3>1, <3>3, <3>4, <3>5, <3>6 DEF ClientInv
  <2>9. registry' \subseteq registry \/ observed BY <2>3
  <2> QED BY <1>1, <1>4, <1>6, <2>4, <2>5, <2>8, <2>9, WorkerRelease
<1> QED BY <1>2, <1>7, <1>8

-----------------------------------------------------------------------------
(* The steps of the main thread. *)
LEMMA ClientKept ==
  ASSUME NEW v \in Workers, NEW d \in Clients, ClientInv(job[v], d), Untouches(d), SameForOwner(d),
         job'[v] = job[v]
  PROVE  ClientInv(job[v], d)'
<1> USE DEF ClientInv, Untouches, SameForOwner, At, HoldsDelete
<1>1. PlaceInv(job[v], d)' BY DEF PlaceInv, IsOpen
<1>2. UpgradeInv(d)' BY DEF UpgradeInv
<1>3. ClosingInv(job[v], d)' BY DEF ClosingInv, EndComes, Posted, GateClosed
<1>4. DeletionInv(job[v], d)' BY DEF DeletionInv
<1>5. SessionInv(d)' BY DEF SessionInv
<1> QED BY <1>1, <1>2, <1>3, <1>4, <1>5

LEMMA ReleaseKept ==
  ASSUME ReleaseInv, PhaseInv', UNCHANGED job,
         \A d \in Clients : Untouches(d) /\ SameForOwner(d)
  PROVE  ReleaseInv'
<1>1. ASSUME NEW v \in Workers, Alone(v), NEW d \in Clients PROVE ClientInv(job[v], d)'
  BY <1>1, ClientKept DEF ReleaseInv
<1> QED BY <1>1 DEF ReleaseInv, Alone, Orderly

(* shutdown() in the destructor, when no thread runs. *)
LEMMA CloseForGoodRelease ==
  ASSUME TypeOK, NEW c \in Clients, Started(c), conn[c] \notin {"none", "accepted"},
         conn'[c] \notin {"none", "accepted"},
         ClientInv(NoJob, c), c \notin released, conn[c] # "deleted",
         CloseForGood(c), c \in released', UNCHANGED <<session, registry, leaving>>
  PROVE  ClientInv(NoJob, c)'
<1> USE DEF ClientInv
<1>1. ConnectionTypes /\ OperationTypes /\ NoJob' = NoJob /\ c # "none"
  BY ClientsAssumption DEF TypeOK, ConnectionTypes, NoJob
<1>2. PlaceInv(NoJob, c)' BY <1>1 DEF PlaceInv, At, NoJob
<1>3. SessionInv(c)' BY DEF SessionInv, Started
<1>4. CASE conn[c] = "CLOSED" /\ Delete(c) /\ UNCHANGED <<callbacks, strand>>
  <2>1. conn'[c] = "deleted" BY <1>1, <1>4 DEF Delete, ConnectionTypes
  <2>2. UpgradeInv(c)' BY <1>1, <1>4, StrandStays, AbortEnds DEF Delete
  <2> QED BY <1>2, <1>3, <2>1, <2>2 DEF ClosingInv, DeletionInv
<1>5. CASE /\ conn[c] # "CLOSED"
           /\ callbacks' = [callbacks EXCEPT ![c] = @ \cup {"delete"}]
           /\ conn' = [conn EXCEPT ![c] = "CLOSING"]
           /\ IF IsOpen(c) THEN Post(c, "close") ELSE UNCHANGED strand
           /\ UNCHANGED operationVars
  <2>1. conn'[c] = "CLOSING" /\ "delete" \in callbacks'[c] BY <1>1, <1>5 DEF ConnectionTypes
  <2>2. conn[c] = "CLOSING" \/ IsOpen(c) BY <1>1, <1>5 DEF ConnectionTypes, IsOpen
  <2>3. UpgradeInv(c)' /\ (Posted(c) \/ IsOpen(c) => Posted(c)')
    BY <1>1, <1>5, PostedStays, StrandStays DEF Handlers, operationVars
  <2>4. EndComes(NoJob, c)'
    <3>1. CASE IsOpen(c) BY <2>3, <3>1 DEF EndComes
    <3>2. CASE conn[c] = "CLOSING"
      <4>1. EndComes(NoJob, c) /\ ~At(NoJob, c, {"handshaken", "refused", "announce"})
        BY <3>2 DEF ClosingInv, At, NoJob
      <4> QED BY <1>5, <2>3, <4>1 DEF EndComes, GateClosed, operationVars
    <3> QED BY <2>2, <3>1, <3>2
  <2>5. ClosingInv(NoJob, c)' BY <1>1, <2>1, <2>4 DEF ClosingInv
  <2>6. DeletionInv(NoJob, c)' BY <2>1 DEF DeletionInv
  <2> QED BY <1>2, <1>3, <2>3, <2>5, <2>6
<1> QED BY <1>4, <1>5 DEF CloseForGood

(* When nothing is left to run, nothing is left to delete. *)
LEMMA DrainedRelease ==
  ASSUME Inv, ReleaseInv, phase = "draining", Drained, NEW c \in Clients
  PROVE  /\ conn[c] \in {"none", "deleted"}
         /\ session[c] = "live" => c \in leaving
         /\ c \in leaving => c \in released
<1>1. ClientInv(job[main], c) /\ job[main] = NoJob
  BY MainAssumption DEF ReleaseInv, PhaseInv, Alone, Workers, Drained
<1>2. registry = {} /\ leaving \subseteq silent BY DEF ReleaseInv, PhaseInv
<1>3. c \in leaving => c \in released BY <1>1, <1>2 DEF ClientInv, SessionInv
<1>4. session[c] = "live" => c \in leaving BY <1>2 DEF Inv, OwnedOnce, Drained
<1>5. conn[c] \in {"none", "deleted"}
  <2>1. SUFFICES ASSUME conn[c] \notin {"none", "deleted"} PROVE FALSE OBVIOUS
  <2>2. conn[c] # "accepted"
    BY <1>1, ClientsAssumption DEF ClientInv, SessionInv, Drained
  <2>3. c \in released
    BY <1>1, <1>2, <1>3, <2>1, <2>2 DEF ClientInv, SessionInv
  <2>4. callbacks[c] # {}
    BY <1>1, <2>1, <2>3, ClientsAssumption DEF ClientInv, DeletionInv, HoldsDelete, NoJob
  <2>5. EndComes(job[main], c)
    BY <1>1, <2>1, <2>4, ClientsAssumption DEF ClientInv, ClosingInv, At, NoJob
  <2>6. ~Posted(c)
    <3>1. strand[c] = <<>> BY DEF Drained
    <3> QED BY <3>1 DEF Posted
  <2> QED BY <1>1, <2>5, <2>6, ClientsAssumption DEF EndComes, Drained, At, NoJob
<1> QED BY <1>3, <1>4, <1>5

LEMMA MainRelease ==
  ASSUME Inv, TypeOK', ReleaseInv, Stop \/ Destroy \/ ShutdownNext \/ Restart \/ Finish
  PROVE  ReleaseInv'
<1> USE DEF listenerVars, managerVars, sessionVars, connectionVars, operationVars
<1>1. TypeOK BY DEF Inv
<1>2. CASE Stop \/ Restart
  <2>1. PhaseInv' BY <1>2 DEF Stop, Restart, ReleaseInv, PhaseInv
  <2>2. UNCHANGED <<listenerVars, managerVars, sessionVars, connectionVars, job>>
    BY <1>2 DEF Stop, Restart
  <2> QED BY <2>1, <2>2, ReleaseKept DEF Untouches, SameForOwner
<1>3. CASE Destroy
  <2>1. PhaseInv'
    <3>1. \A a \in Acceptors : accept'[a] # "pending" BY <1>3 DEF Destroy
    <3> QED BY <1>3, <3>1 DEF Destroy, ReleaseInv, PhaseInv
  <2>2. leaving = {} BY <1>3 DEF Inv, TakenOver, Destroy
  <2>3. \A d \in Clients, a \in Acceptors : accept[a] = d => accept'[a] = d
    BY <1>3, ClientsAssumption DEF Destroy
  <2> QED BY <1>3, <2>1, <2>2, <2>3, ReleaseKept DEF Destroy, Untouches, SameForOwner
<1>4. CASE ShutdownNext
  <2>1. PICK c \in leaving \ silent : silent' = silent \cup {c} /\ ShutdownSession(c)
    BY <1>4 DEF ShutdownNext
  <2>2. /\ c \in Clients /\ session[c] = "live" /\ Started(c) /\ phase = "closing"
        /\ conn[c] \notin {"none", "accepted"}
    BY <1>1, <1>4, <2>1
    DEF TypeOK, ManagerTypes, Inv, OwnedOnce, AcceptedOnce, Started, ShutdownNext
  <2>3. /\ UNCHANGED <<phase, listenerVars, managerVars, session, served, job>>
        /\ released' = released \/ released' = released \cup {c}
    BY <1>4, <2>1 DEF ShutdownNext, ShutdownSession, LetGo
  <2>4. PhaseInv' BY <2>2, <2>3 DEF ReleaseInv, PhaseInv
  <2>5. \A v \in Workers : job[v] = NoJob
    BY <2>2 DEF ReleaseInv, PhaseInv, Workers
  <2>6. ClientInv(NoJob, c) BY <2>2, <2>5 DEF ReleaseInv, Alone, Workers
  <2>7. ClientInv(NoJob, c)' /\ \A d \in Clients : d # c => Untouches(d) /\ SameForOwner(d)
    <3>1. CASE c \in released
      <4>1. UNCHANGED <<stopped, released, connectionVars>> BY <2>1, <3>1 DEF ShutdownSession
      <4>2. ClientInv(NoJob, c)'
        BY <2>1, <2>3, <2>6, <3>1, <4>1
        DEF ClientInv, PlaceInv, UpgradeInv, ClosingInv, EndComes, Posted, GateClosed, DeletionInv,
            SessionInv, At, HoldsDelete, IsOpen, NoJob
      <4> QED BY <2>1, <2>3, <4>1, <4>2 DEF Untouches, SameForOwner
    <3>2. CASE c \notin released
      <4>1. CloseForGood(c) /\ c \in released' BY <2>1, <3>2 DEF ShutdownSession, LetGo
      <4>2. IsStarted(c) /\ \A d \in Clients : d # c => Untouches(d)
        BY <1>1, <2>2, <2>3, <4>1, CloseForGoodOthers DEF TypeOK
      <4>3. \A d \in Clients : d # c => callbacks'[d] = callbacks[d]
        BY <1>1, <4>1 DEF CloseForGood, TypeOK, ConnectionTypes
      <4>4. \A d \in Clients : d # c => SameForOwner(d)
        BY <2>1, <2>3, <4>3 DEF SameForOwner
      <4>5. conn[c] # "deleted" BY <2>2, <2>6, <3>2 DEF ClientInv, DeletionInv
      <4>6. ClientInv(NoJob, c)'
        BY <1>1, <2>2, <2>3, <2>6, <3>2, <4>1, <4>2, <4>5, CloseForGoodRelease DEF IsStarted
      <4> QED BY <4>2, <4>4, <4>6
    <3> QED BY <3>1, <3>2
  <2>8. ASSUME NEW v \in Workers, NEW d \in Clients PROVE ClientInv(job[v], d)'
    <3>1. CASE d = c
      <4>1. job'[v] = NoJob BY <2>3, <2>5
      <4> QED BY <2>7, <3>1, <4>1
              DEF ClientInv, PlaceInv, ClosingInv, EndComes, DeletionInv, At, HoldsDelete, NoJob
    <3>2. CASE d # c
      <4>1. ClientInv(job[v], d) BY <2>5 DEF ReleaseInv, Alone
      <4> QED BY <2>3, <2>7, <3>2, <4>1, ClientKept
    <3> QED BY <3>1, <3>2
  <2>9. \A v \in Workers : Orderly(job[v])' BY <2>3 DEF ReleaseInv, Orderly
  <2> QED BY <2>4, <2>8, <2>9 DEF ReleaseInv
<1>5. CASE Finish
  <2>1. \A c \in Clients : /\ conn[c] \in {"none", "deleted"}
                           /\ session[c] = "live" => c \in leaving
                           /\ c \in leaving => c \in released
    BY <1>5, DrainedRelease DEF Finish
  <2>2. /\ UNCHANGED <<listenerVars, shuttingDown, registry, released, silent, served,
                       connectionVars, job>>
        /\ leaving' = {} /\ phase' = "done" /\ phase = "draining"
        /\ \A c \in Clients : session'[c] = IF c \in leaving THEN "deleted" ELSE session[c]
        /\ Drained
    BY <1>5 DEF Finish
  <2>3. \A c \in Clients : c \in leaving => session[c] = "live"
    BY <1>1 DEF Inv, OwnedOnce
  <2>4. PhaseInv'
    <3>1. \A c \in Clients : session'[c] # "live" /\ conn'[c] \in {"none", "deleted"}
      BY <2>1, <2>2
    <3> QED BY <2>2, <3>1 DEF PhaseInv, ReleaseInv, Drained
  <2>5. ASSUME NEW v \in Workers, Alone(v), NEW c \in Clients PROVE ClientInv(job[v], c)'
    <3>1. ClientInv(job[v], c) BY <2>5 DEF ReleaseInv
    <3>2. SessionInv(c)'
      BY <2>1, <2>2, <2>3, <3>1 DEF ClientInv, SessionInv
    <3>3. DeletionInv(job[v], c)'
      BY <2>1, <2>2, <2>3, <3>1 DEF ClientInv, DeletionInv, At, HoldsDelete
    <3> QED BY <2>2, <3>1, <3>2, <3>3
            DEF ClientInv, PlaceInv, UpgradeInv, ClosingInv, EndComes, Posted, GateClosed, At, IsOpen
  <2> QED BY <2>2, <2>4, <2>5 DEF ReleaseInv, Alone, Orderly
<1> QED BY <1>2, <1>3, <1>4, <1>5

(* The clients and the network answer what is pending. *)
LEMMA ClientRelease ==
  ASSUME Inv, TypeOK', ReleaseInv, ClientStep
  PROVE  ReleaseInv'
<1>1. /\ TypeOK /\ ConnectionTypes /\ OperationTypes /\ ListenerTypes
      /\ UNCHANGED <<phase, listening, observed, managerVars, sessionVars, job>>
  BY DEF ClientStep, Inv, TypeOK, ConnectionTypes
<1>2. ASSUME \A a \in Acceptors : accept'[a] = "pending" => accept[a] = "pending",
             \A c \in Clients : conn[c] \in {"none", "deleted"} => conn'[c] = conn[c]
                                                                   \/ \E a \in Acceptors : accept[a] = "pending"
      PROVE  PhaseInv'
  BY <1>1, <1>2 DEF ReleaseInv, PhaseInv, managerVars, sessionVars
<1>3. CASE Connect
  <2>1. PICK a \in Acceptors, c \in Clients :
          /\ accept[a] = "pending" /\ conn[c] = "none"
          /\ accept' = [accept EXCEPT ![a] = c]
          /\ conn' = [conn EXCEPT ![c] = "accepted"]
          /\ UNCHANGED <<callbacks, strand, operationVars>>
    BY <1>3 DEF Connect
  <2>2. /\ accept'[a] = c /\ conn'[c] = "accepted" /\ c \notin {"none", "pending"}
        /\ \A b \in Acceptors : b # a => accept'[b] = accept[b]
        /\ \A d \in Clients : d # c => conn'[d] = conn[d]
    BY <1>1, <2>1, ClientsAssumption DEF ListenerTypes, ConnectionTypes
  <2>3. PhaseInv' BY <1>2, <2>1, <2>2
  <2>4. ASSUME NEW v \in Workers, Alone(v), NEW d \in Clients PROVE ClientInv(job[v], d)'
    <3>1. ClientInv(job[v], d) BY <2>4 DEF ReleaseInv
    <3>2. CASE d # c
      <4>1. \A b \in Acceptors : accept[b] = d => accept'[b] = d
        BY <2>1, <2>2, <3>2, ClientsAssumption
      <4> QED BY <1>1, <2>1, <2>2, <3>1, <3>2, <4>1, ClientKept
              DEF Untouches, SameForOwner, operationVars, managerVars, sessionVars
    <3>3. CASE d = c
      <4>1. job[v].client # c
        <5>1. CASE job[v].at = "idle"
          BY <2>2, <2>4, <5>1 DEF ReleaseInv, Orderly, NoJob
        <5>2. CASE job[v].at # "idle" BY <2>1, <5>2, BusyStarted DEF Inv, AcceptedOnce
        <5> QED BY <5>1, <5>2
      <4>2. session[c] = "none" BY <2>1 DEF Inv, AcceptedOnce, Started
      <4>3. SessionInv(c)'
        BY <1>1, <2>1, <2>2, <3>1, <3>3, <4>2
        DEF ClientInv, SessionInv, managerVars, sessionVars
      <4>4. callbacks[c] = {} BY <3>1, <3>3, <4>2 DEF ClientInv, SessionInv
      <4>5. PlaceInv(job[v], c)' /\ ClosingInv(job[v], c)'
        BY <1>1, <2>1, <2>2, <4>1, <4>4 DEF PlaceInv, ClosingInv, At
      <4>6. UpgradeInv(c)' BY <2>1, <3>1, <3>3, StrandStays DEF ClientInv, operationVars
      <4>7. DeletionInv(job[v], c)'
        BY <1>1, <2>1, <2>2, <3>1, <3>3, <4>1, <4>4
        DEF ClientInv, DeletionInv, At, HoldsDelete, managerVars, sessionVars
      <4> QED BY <3>3, <4>3, <4>5, <4>6, <4>7 DEF ClientInv
    <3> QED BY <3>2, <3>3
  <2> QED BY <1>1, <2>3, <2>4 DEF ReleaseInv, Alone, Orderly
<1>4. CASE AcceptFails
  <2>1. PICK a \in Acceptors :
          /\ accept[a] = "pending" /\ accept' = [accept EXCEPT ![a] = "failed"]
          /\ UNCHANGED connectionVars
    BY <1>4 DEF AcceptFails
  <2>2. PhaseInv' BY <1>1, <1>2, <2>1 DEF connectionVars
  <2>3. \A d \in Clients, b \in Acceptors : accept[b] = d => accept'[b] = d
    BY <1>1, <2>1, ClientsAssumption DEF ListenerTypes
  <2>4. \A d \in Clients : Untouches(d) /\ SameForOwner(d)
    BY <1>1, <2>1, <2>3
    DEF Untouches, SameForOwner, connectionVars, operationVars, managerVars, sessionVars
  <2> QED BY <1>1, <2>2, <2>4, ReleaseKept
<1>5. CASE ReadEnds \/ HandshakeEnds \/ TlsShutdownEnds
  <2>1. UNCHANGED <<accept, conn, callbacks, strand>>
    BY <1>5 DEF ReadEnds, HandshakeEnds, TlsShutdownEnds
  <2>2. PhaseInv' BY <1>1, <1>2, <2>1
  <2>3. ASSUME NEW d \in Clients
        PROVE  /\ GateClosed(d)' <=> GateClosed(d)
               /\ handshake'[d] = handshake[d] \/ handshake[d] # "posted"
               /\ tlsClosing'[d] + tlsClosed'[d] = tlsClosing[d] + tlsClosed[d]
    <3>1. CASE ReadEnds BY <3>1 DEF ReadEnds, GateClosed
    <3>2. CASE HandshakeEnds BY <1>1, <3>2 DEF HandshakeEnds, GateClosed, OperationTypes
    <3>3. CASE TlsShutdownEnds BY <1>1, <3>3 DEF TlsShutdownEnds, GateClosed, OperationTypes
    <3> QED BY <1>5, <3>1, <3>2, <3>3
  <2>4. ASSUME NEW v \in Workers, Alone(v), NEW d \in Clients PROVE ClientInv(job[v], d)'
    <3>1. ClientInv(job[v], d) BY <2>4 DEF ReleaseInv
    <3>2. UpgradeInv(d)' /\ (Posted(d) => Posted(d)')
      BY <2>1, <2>3, <3>1, StrandStays DEF ClientInv
    <3>3. ClosingInv(job[v], d)'
      BY <1>1, <2>1, <2>3, <3>1, <3>2 DEF ClientInv, ClosingInv, EndComes, At
    <3> QED BY <1>1, <2>1, <3>1, <3>2, <3>3
            DEF ClientInv, PlaceInv, DeletionInv, SessionInv, At, HoldsDelete, IsOpen,
                managerVars, sessionVars
  <2> QED BY <1>1, <2>2, <2>4 DEF ReleaseInv, Alone, Orderly
<1> QED BY <1>3, <1>4, <1>5 DEF ClientStep

-----------------------------------------------------------------------------
LEMMA ReleaseInit == Init => ReleaseInv
<1> SUFFICES ASSUME Init PROVE ReleaseInv OBVIOUS
<1>1. PhaseInv BY DEF Init, PhaseInv, Workers
<1>2. \A w \in Workers : Orderly(job[w]) BY DEF Init, Orderly, NoJob, ClosePlaces, EndPlaces
<1>3. ASSUME NEW w \in Workers, NEW c \in Clients PROVE ClientInv(job[w], c)
  <2>1. job[w] = NoJob /\ c # "none" BY <1>3, ClientsAssumption DEF Init
  <2>2. PlaceInv(job[w], c) BY <2>1 DEF PlaceInv, At, NoJob
  <2>3. UpgradeInv(c) BY DEF Init, UpgradeInv
  <2>4. ClosingInv(job[w], c) BY DEF Init, ClosingInv
  <2>5. DeletionInv(job[w], c) BY <2>1 DEF Init, DeletionInv, At, HoldsDelete, NoJob
  <2>6. SessionInv(c) BY DEF Init, SessionInv
  <2> QED BY <2>2, <2>3, <2>4, <2>5, <2>6 DEF ClientInv
<1> QED BY <1>1, <1>2, <1>3 DEF ReleaseInv

LEMMA ReleaseStep ==
  ASSUME OneThread, Inv, ReleaseInv, [Next]_vars
  PROVE  ReleaseInv'
<1>1. TypeOK' BY InvStep DEF Inv
<1>2. ASSUME NEW w \in Workers, WorkerStep(w) PROVE ReleaseInv'
  BY <1>1, <1>2, AcceptRelease, ConnectionRelease, SessionStepRelease DEF WorkerStep
<1>3. CASE UNCHANGED vars
  <2>1. UNCHANGED <<phase, listenerVars, managerVars, sessionVars, connectionVars, job>>
    BY <1>3 DEF vars
  <2>2. PhaseInv'
    BY <2>1 DEF ReleaseInv, PhaseInv, listenerVars, managerVars, sessionVars, connectionVars
  <2> QED BY <2>1, <2>2, ReleaseKept
          DEF Untouches, SameForOwner, listenerVars, managerVars, sessionVars, connectionVars,
              operationVars
<1> QED BY <1>1, <1>2, <1>3, ClientRelease, MainRelease DEF Next, MainStep, Workers

(* With one io thread, when the manager is gone, so are all sessions and      *)
(* connections, whatever was in progress when the context was stopped.  With  *)
(* more threads a close can lose the callback that deletes the connection     *)
(* (TcpConnection.cpp:164-165 against 203-204)                                *)
(* (ClientConnectionManager.cpp:14-49, main.cpp:139-146).                     *)
THEOREM ManagerReleasesEverything ==
  ASSUME OneThread PROVE Spec => []ReleasesEverything
<1>1. Init => ReleaseInv BY ReleaseInit
<1>2. Inv /\ ReleaseInv /\ [Next]_vars => ReleaseInv' BY ReleaseStep
<1>3. ReleaseInv => ReleasesEverything BY DEF ReleaseInv, PhaseInv, ReleasesEverything
<1> QED BY <1>1, <1>2, <1>3, InvCorrect, PTL DEF Spec
=============================================================================
