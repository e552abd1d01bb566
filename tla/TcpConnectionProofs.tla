------------------------- MODULE TcpConnectionProofs -------------------------
(* Proofs about TcpConnection, for every set of threads and every bound: its *)
(* types, and that a read is answered and the connection deleted at most     *)
(* once.  Then, when one thread runs the handlers and the owner upgrades the *)
(* connection at most once, for every number of reads and writes: no close   *)
(* outruns a handshake, nothing throws, nothing is forgotten, and every step *)
(* is one that ConnectionContract allows.                                    *)
EXTENDS TcpConnection, TLAPS

-----------------------------------------------------------------------------
(* Type correctness.                                                        *)

LEMMA TypeInit == Init => TypeOK
<1> SUFFICES ASSUME Init PROVE TypeOK
  OBVIOUS
<1>1. ConnectionTypes
  <2>1. closeCallbacks \in Seq(Callbacks)
    BY DEF Init
  <2>2. state \in States /\ streams \in Nat
    BY DEF Init, States
  <2> QED
    BY <2>1, <2>2 DEF Init, ConnectionTypes
<1>2. OperationTypes
  BY DEF Init, OperationTypes
<1>3. ThreadTypes
  <2>1. PICK t \in Threads : pc = [u \in Threads |-> IF u = t THEN "process" ELSE "idle"]
    BY DEF Init
  <2>2. pc \in [Threads -> Places]
    BY <2>1 DEF Places
  <2> QED
    BY <2>2 DEF Init, ThreadTypes
<1>4. OwnerTypes
  BY DEF Init, OwnerTypes
<1>5. strand \in Seq(Handlers) /\ fault \in Faults
  BY DEF Init, Faults
<1> QED
  BY <1>1, <1>2, <1>3, <1>4, <1>5 DEF TypeOK

(* What is left alone keeps its type. *)

LEMMA ConnectionKept == ConnectionTypes /\ UNCHANGED connectionVars => ConnectionTypes'
  BY DEF ConnectionTypes, connectionVars

LEMMA OperationsKept == OperationTypes /\ UNCHANGED operationVars => OperationTypes'
  BY DEF OperationTypes, operationVars

LEMMA ThreadsKept == ThreadTypes /\ UNCHANGED threadVars => ThreadTypes'
  BY DEF ThreadTypes, threadVars

LEMMA OwnerKept == OwnerTypes /\ UNCHANGED ownerVars => OwnerTypes'
  BY DEF OwnerTypes, ownerVars

(* So do the operators the actions are built from. *)

LEMMA PostTypes ==
  ASSUME TypeOK, NEW handler \in Handlers, Post(handler)
  PROVE  strand' \in Seq(Handlers)
  BY DEF TypeOK, Post

LEMMA GoTypes ==
  ASSUME ThreadTypes, NEW t \in Threads, NEW place \in Places, Go(t, place)
  PROVE  ThreadTypes'
  BY DEF ThreadTypes, Go

LEMMA CloseTypes ==
  ASSUME ThreadTypes, NEW t \in Threads, NEW callback \in Callbacks \cup {"none"},
         Close(t, callback)
  PROVE  ThreadTypes'
  BY DEF ThreadTypes, Close, Places

LEMMA ReturnTypes ==
  ASSUME ThreadTypes, NEW t \in Threads, NEW rest \in Seq(Callbacks), Return(t, rest)
  PROVE  ThreadTypes'
  BY DEF ThreadTypes, Return, Places

LEMMA TodoTypes ==
  ASSUME ThreadTypes, NEW t \in Threads
  PROVE  todo[t] \in Seq(Callbacks) /\ cb[t] \in Callbacks \cup {"none"}
  BY DEF ThreadTypes

LEMMA AbortTypes == OperationTypes /\ AbortOperations => OperationTypes'
  BY DEF OperationTypes, AbortOperations

LEMMA FailTypes ==
  ASSUME TypeOK, NEW kind \in Faults, Fail(kind)
  PROVE  TypeOK'
  BY ConnectionKept, OperationsKept, ThreadsKept, OwnerKept DEF TypeOK, Fail

LEMMA IdleTypes ==
  ASSUME TypeOK, NEW t \in Threads, Idle(t)
  PROVE  TypeOK'
  BY ConnectionKept, OperationsKept, ReturnTypes, TodoTypes, OwnerKept DEF TypeOK, Idle

LEMMA ShutdownTypes ==
  ASSUME TypeOK, NEW t \in Threads, Shutdown(t)
  PROVE  TypeOK'
<1>1. ConnectionTypes' /\ OperationTypes' /\ fault' \in Faults
  BY ConnectionKept, OperationsKept DEF TypeOK, Shutdown
<1>2. ThreadTypes'
  BY CloseTypes DEF TypeOK, Shutdown, Callbacks
<1>3. OwnerTypes'
  BY DEF TypeOK, Shutdown, OwnerTypes
<1>4. strand' \in Seq(Handlers)
  BY PostTypes DEF TypeOK, Shutdown, Handlers
<1> QED
  BY <1>1, <1>2, <1>3, <1>4 DEF TypeOK

LEMMA CallTypes ==
  ASSUME TypeOK, NEW t \in Threads, NEW callback, NEW rest \in Seq(Callbacks),
         Call(t, callback, rest)
  PROVE  TypeOK'
<1>1. CASE callback = "read"
  <2>1. ConnectionTypes' /\ OperationTypes' /\ fault' \in Faults /\ strand' \in Seq(Handlers)
    BY <1>1, ConnectionKept, OperationsKept DEF TypeOK, Call
  <2>2. ThreadTypes'
    BY <1>1 DEF TypeOK, Call, ThreadTypes, Places
  <2>3. OwnerTypes'
    BY <1>1 DEF TypeOK, Call, OwnerTypes
  <2> QED
    BY <2>1, <2>2, <2>3 DEF TypeOK
<1>2. CASE callback = "delete"
  <2>1. ConnectionTypes'
    BY <1>2 DEF TypeOK, Call, ConnectionTypes
  <2>2. OperationTypes' /\ OwnerTypes' /\ ThreadTypes'
    BY <1>2, AbortTypes, OwnerKept, ReturnTypes DEF TypeOK, Call
  <2>3. strand' \in Seq(Handlers) /\ fault' \in Faults
    BY <1>2 DEF TypeOK, Call, Faults
  <2> QED
    BY <2>1, <2>2, <2>3 DEF TypeOK
<1> QED
  BY <1>1, <1>2 DEF Call

LEMMA AppendTypes ==
  ASSUME TypeOK, NEW callback \in Callbacks \cup {"none"}, callback # "none"
  PROVE  Append(closeCallbacks, callback) \in Seq(Callbacks)
  BY DEF TypeOK, ConnectionTypes

(* Every step of a thread. *)

LEMMA OwnerStepTypes ==
  ASSUME TypeOK, NEW t \in Threads, OwnerStep(t)
  PROVE  TypeOK'
<1>1. CASE Aborted(t)
  BY <1>1, IdleTypes, ShutdownTypes DEF Aborted, GiveUp
<1>2. CASE Received(t)
  <2>1. CASE stopped
    BY <1>2, <2>1, IdleTypes, ShutdownTypes DEF Received, GiveUp
  <2>2. CASE ~stopped
    BY <1>2, <2>2, ConnectionKept, OperationsKept, OwnerKept, GoTypes DEF TypeOK, Received, Places
  <2> QED
    BY <2>1, <2>2
<1>3. CASE Write(t)
  <2>1. ConnectionTypes' /\ OperationTypes' /\ ThreadTypes'
    BY <1>3, ConnectionKept, OperationsKept, ThreadsKept DEF TypeOK, Write
  <2>2. OwnerTypes'
    BY <1>3 DEF TypeOK, Write, OwnerTypes
  <2>3. strand' \in Seq(Handlers) /\ fault' \in Faults
    BY <1>3, PostTypes DEF TypeOK, Write, Handlers
  <2> QED
    BY <2>1, <2>2, <2>3 DEF TypeOK
<1>4. CASE Upgrade(t)
  <2>1. ConnectionTypes' /\ OperationTypes' /\ ThreadTypes'
    BY <1>4, ConnectionKept, OperationsKept, ThreadsKept DEF TypeOK, Upgrade
  <2>2. OwnerTypes'
    BY <1>4 DEF TypeOK, Upgrade, OwnerTypes
  <2>3. strand' \in Seq(Handlers) /\ fault' \in Faults
    BY <1>4, PostTypes DEF TypeOK, Upgrade, Handlers
  <2> QED
    BY <2>1, <2>2, <2>3 DEF TypeOK
<1>5. CASE ShutdownOnToken(t)
  BY <1>5, ShutdownTypes DEF ShutdownOnToken
<1>6. CASE TokensProcessed(t)
  BY <1>6, ConnectionKept, OperationsKept, OwnerKept, GoTypes DEF TypeOK, TokensProcessed, Places
<1>7. CASE Process(t)
  <2>1. CASE stopped
    BY <1>7, <2>1, IdleTypes DEF Process
  <2>2. CASE ~stopped
    <3>1. ConnectionTypes' /\ OperationTypes' /\ strand' \in Seq(Handlers) /\ fault' \in Faults
      BY <1>7, <2>2, ConnectionKept, OperationsKept DEF TypeOK, Process
    <3>2. ThreadTypes'
      BY <1>7, <2>2, GoTypes DEF TypeOK, Process, Places
    <3>3. OwnerTypes'
      BY <1>7, <2>2 DEF TypeOK, Process, OwnerTypes
    <3> QED
      BY <3>1, <3>2, <3>3 DEF TypeOK
  <2> QED
    BY <2>1, <2>2
<1>8. CASE Read(t)
  <2>1. todo[t] \in Seq(Callbacks)
    BY TodoTypes DEF TypeOK
  <2>2. CASE IsOpen
    BY <1>8, <2>1, <2>2, ConnectionKept, OperationsKept, OwnerKept, ReturnTypes, PostTypes
       DEF TypeOK, Read, Handlers
  <2>3. CASE ~IsOpen
    BY <1>8, <2>1, <2>3, CallTypes DEF Read
  <2> QED
    BY <2>2, <2>3
<1> QED
  BY <1>1, <1>2, <1>3, <1>4, <1>5, <1>6, <1>7, <1>8 DEF OwnerStep

LEMMA CloseStepTypes ==
  ASSUME TypeOK, NEW t \in Threads, CloseStep(t)
  PROVE  TypeOK'
<1>1. todo[t] \in Seq(Callbacks) /\ cb[t] \in Callbacks \cup {"none"}
  BY TodoTypes DEF TypeOK
<1>2. CASE CheckClosed(t)
  BY <1>2, ConnectionKept, OperationsKept, OwnerKept, GoTypes DEF TypeOK, CheckClosed, Places
<1>3. CASE CheckClosing(t)
  BY <1>3, ConnectionKept, OperationsKept, OwnerKept, GoTypes DEF TypeOK, CheckClosing, Places
<1>4. CASE PushCallback(t)
  <2>1. ConnectionTypes'
    BY <1>1, <1>4, AppendTypes DEF TypeOK, PushCallback, ConnectionTypes
  <2>2. ThreadTypes'
    BY <1>4 DEF TypeOK, PushCallback, ThreadTypes, Places
  <2> QED
    BY <1>4, <2>1, <2>2, OperationsKept, OwnerKept DEF TypeOK, PushCallback
<1>5. CASE StartClosing(t)
  <2>1. ConnectionTypes'
    BY <1>5 DEF TypeOK, StartClosing, ConnectionTypes, States
  <2> QED
    BY <1>1, <1>5, <2>1, OperationsKept, OwnerKept, ReturnTypes, PostTypes
       DEF TypeOK, StartClosing, Handlers
<1>6. CASE CloseEnded(t)
  <2>1. CASE Idle(t)
    BY <2>1, IdleTypes
  <2>2. CASE Call(t, cb[t], todo[t])
    BY <1>1, <2>2, CallTypes
  <2>3. CASE /\ Go(t, "waiting")
             /\ UNCHANGED <<connectionVars, strand, operationVars, ownerVars, fault>>
    BY <2>3, ConnectionKept, OperationsKept, OwnerKept, GoTypes DEF TypeOK, Places
  <2> QED
    BY <1>6, <2>1, <2>2, <2>3 DEF CloseEnded
<1>7. CASE CloseWaits(t)
  <2>1. CASE Idle(t)
    BY <2>1, IdleTypes
  <2>2. CASE /\ Go(t, "join")
             /\ UNCHANGED <<connectionVars, strand, operationVars, ownerVars, fault>>
    BY <2>2, ConnectionKept, OperationsKept, OwnerKept, GoTypes DEF TypeOK, Places
  <2> QED
    BY <1>7, <2>1, <2>2 DEF CloseWaits
<1>11. CASE JoinClosing(t)
  <2>1. ConnectionTypes'
    BY <1>1, <1>11, AppendTypes DEF TypeOK, JoinClosing, ConnectionTypes
  <2> QED
    BY <1>1, <1>11, <2>1, OperationsKept, OwnerKept, ReturnTypes DEF TypeOK, JoinClosing
<1>8. CASE AnnounceClosed(t)
  <2>1. ConnectionTypes' /\ OwnerTypes'
    BY <1>8 DEF TypeOK, AnnounceClosed, ConnectionTypes, OwnerTypes, States
  <2>2. strand' \in Seq(Handlers)
    BY <1>8, PostTypes DEF TypeOK, AnnounceClosed, Handlers
  <2> QED
    BY <1>8, <2>1, <2>2, OperationsKept, GoTypes DEF TypeOK, AnnounceClosed, Places
<1>9. CASE CollectCallbacks(t)
  <2>1. closeCallbacks \in Seq(Callbacks)
    BY DEF TypeOK, ConnectionTypes
  <2>2. ConnectionTypes'
    <3>1. closeCallbacks' \in Seq(Callbacks)
      BY <1>9 DEF CollectCallbacks
    <3> QED
      BY <1>9, <3>1 DEF TypeOK, CollectCallbacks, ConnectionTypes
  <2> QED
    BY <1>9, <2>1, <2>2, OperationsKept, OwnerKept, ReturnTypes DEF TypeOK, CollectCallbacks
<1>10. CASE CallNext(t)
  <2>1. Tail(todo[t]) \in Seq(Callbacks)
    BY <1>1, <1>10 DEF CallNext
  <2> QED
    BY <1>10, <2>1, CallTypes DEF CallNext
<1> QED
  BY <1>2, <1>3, <1>4, <1>5, <1>6, <1>7, <1>8, <1>9, <1>10, <1>11 DEF CloseStep

LEMMA StrandStepTypes ==
  ASSUME TypeOK, NEW t \in Threads, StrandStep(t)
  PROVE  TypeOK'
<1>1. ASSUME NEW handler \in Handlers, TakeFromStrand(t, handler)
      PROVE  strand' \in Seq(Handlers)
  BY <1>1 DEF TypeOK, TakeFromStrand
<1>2. CASE StrandUpgrade(t)
  <2>1. strand' \in Seq(Handlers)
    BY <1>1, <1>2 DEF StrandUpgrade, Handlers
  <2>2. ConnectionTypes'
    <3>1. streams' \in Nat
      BY <1>2 DEF TypeOK, StrandUpgrade, ConnectionTypes
    <3>2. handshaking' \in BOOLEAN
      BY <1>2 DEF TypeOK, StrandUpgrade, ConnectionTypes
    <3> QED
      BY <1>2, <3>1, <3>2 DEF TypeOK, StrandUpgrade, ConnectionTypes
  <2>3. OperationTypes'
    <3>1. CASE UNCHANGED operationVars
      BY <3>1, OperationsKept DEF TypeOK
    <3>2. CASE ~UNCHANGED operationVars
      BY <1>2, <3>2 DEF TypeOK, StrandUpgrade, OperationTypes
    <3> QED
      BY <3>1, <3>2
  <2>4. fault' \in Faults
    BY <1>2 DEF TypeOK, StrandUpgrade, Faults
  <2> QED
    BY <1>2, <2>1, <2>2, <2>3, <2>4, ThreadsKept, OwnerKept DEF TypeOK, StrandUpgrade
<1>3. CASE StrandRead(t)
  <2>1. strand' \in Seq(Handlers)
    BY <1>1, <1>3 DEF StrandRead, Handlers
  <2>2. OperationTypes'
    BY <1>3 DEF TypeOK, StrandRead, OperationTypes
  <2>3. ThreadTypes'
    BY <1>3 DEF TypeOK, StrandRead, ThreadTypes, Places
  <2>4. OwnerTypes'
    BY <1>3 DEF TypeOK, StrandRead, OwnerTypes
  <2> QED
    BY <1>3, <2>1, <2>2, <2>3, <2>4, ConnectionKept DEF TypeOK, StrandRead
<1>4. CASE StrandCancel(t)
  <2>1. strand' \in Seq(Handlers)
    BY <1>1, <1>4 DEF StrandCancel, Handlers
  <2>2. OperationTypes' /\ fault' \in Faults
    BY <1>4, OperationsKept, AbortTypes DEF TypeOK, StrandCancel, Faults
  <2> QED
    BY <1>4, <2>1, <2>2, ConnectionKept, ThreadsKept, OwnerKept DEF TypeOK, StrandCancel
<1>5. CASE StrandWrite(t)
  <2>1. strand' \in Seq(Handlers)
    BY <1>1, <1>5 DEF StrandWrite, Handlers
  <2>2. OperationTypes'
    BY <1>5 DEF TypeOK, StrandWrite, OperationTypes
  <2> QED
    BY <1>5, <2>1, <2>2, ConnectionKept, ThreadsKept, OwnerKept DEF TypeOK, StrandWrite
<1>6. CASE StrandClose(t)
  <2>1. strand' \in Seq(Handlers)
    BY <1>1, <1>6 DEF StrandClose, Handlers
  <2>2. ConnectionTypes' /\ fault' \in Faults
    BY <1>6 DEF TypeOK, StrandClose, ConnectionTypes, Faults
  <2>3. OperationTypes'
    <3>1. CASE UNCHANGED operationVars \/ AbortOperations
      BY <3>1, OperationsKept, AbortTypes DEF TypeOK
    <3>2. CASE ~(UNCHANGED operationVars \/ AbortOperations)
      BY <1>6, <3>2 DEF TypeOK, StrandClose, OperationTypes
    <3> QED
      BY <3>1, <3>2
  <2>4. ThreadTypes'
    <3>1. CASE UNCHANGED threadVars
      BY <3>1, ThreadsKept DEF TypeOK
    <3>2. CASE ~UNCHANGED threadVars
      BY <1>6, <3>2 DEF TypeOK, StrandClose, ThreadTypes, Places
    <3> QED
      BY <3>1, <3>2
  <2> QED
    BY <1>6, <2>1, <2>2, <2>3, <2>4, OwnerKept DEF TypeOK, StrandClose
<1> QED
  BY <1>2, <1>3, <1>4, <1>5, <1>6 DEF StrandStep

LEMMA HandlerStepTypes ==
  ASSUME TypeOK, NEW t \in Threads, HandlerStep(t)
  PROVE  TypeOK'
<1>1. CASE HandleRead(t)
  <2>1. OperationTypes'
    BY <1>1 DEF TypeOK, HandleRead, OperationTypes
  <2>2. ThreadTypes'
    BY <1>1, GoTypes, CloseTypes DEF TypeOK, HandleRead, Places, Callbacks
  <2>3. OwnerTypes'
    BY <1>1 DEF TypeOK, HandleRead, OwnerTypes
  <2> QED
    BY <1>1, <2>1, <2>2, <2>3, ConnectionKept DEF TypeOK, HandleRead
<1>2. CASE HandleFailedWrite(t)
  <2>1. OperationTypes'
    BY <1>2 DEF TypeOK, HandleFailedWrite, OperationTypes
  <2> QED
    BY <1>2, <2>1, CloseTypes, ConnectionKept, OwnerKept DEF TypeOK, HandleFailedWrite
<1>3. CASE HandleHandshake(t)
  <2>1. OperationTypes'
    BY <1>3 DEF TypeOK, HandleHandshake, OperationTypes
  <2>2. ConnectionTypes'
    BY <1>3 DEF TypeOK, HandleHandshake, ConnectionTypes
  <2>3. ThreadTypes'
    BY <1>3, GoTypes DEF TypeOK, HandleHandshake, Places
  <2> QED
    BY <1>3, <2>1, <2>2, <2>3, OwnerKept DEF TypeOK, HandleHandshake
<1>4. CASE HandshakeEnded(t)
  <2>1. OperationTypes'
    BY <1>4, AbortTypes, OperationsKept DEF TypeOK, HandshakeEnded
  <2>2. ConnectionTypes'
    BY <1>4 DEF TypeOK, HandshakeEnded, ConnectionTypes
  <2>3. ThreadTypes'
    BY <1>4, GoTypes, CloseTypes DEF TypeOK, HandshakeEnded, Places
  <2> QED
    BY <1>4, <2>1, <2>2, <2>3, OwnerKept DEF TypeOK, HandshakeEnded
<1>5. CASE BecomeSecure(t)
  <2>1. ConnectionTypes'
    BY <1>5 DEF TypeOK, BecomeSecure, ConnectionTypes, States
  <2>2. todo[t] \in Seq(Callbacks)
    BY TodoTypes DEF TypeOK
  <2> QED
    BY <1>5, <2>1, <2>2, ReturnTypes, OperationsKept, OwnerKept DEF TypeOK, BecomeSecure
<1>6. CASE HandleTlsShutdown(t)
  <2>1. CASE Fail("exception")
    BY <2>1, FailTypes DEF Faults
  <2>2. CASE ~Fail("exception")
    <3>1. OperationTypes'
      BY <1>6, <2>2 DEF TypeOK, HandleTlsShutdown, OperationTypes
    <3>2. ConnectionTypes'
      BY <1>6, <2>2 DEF TypeOK, HandleTlsShutdown, ConnectionTypes
    <3> QED
      BY <1>6, <2>2, <3>1, <3>2, GoTypes, OwnerKept DEF TypeOK, HandleTlsShutdown, Places
  <2> QED
    BY <2>1, <2>2
<1>7. CASE UseAfterDelete(t)
  BY <1>7, FailTypes DEF UseAfterDelete, Faults
<1> QED
  BY <1>1, <1>2, <1>3, <1>4, <1>5, <1>6, <1>7 DEF HandlerStep

LEMMA NetworkStepTypes == TypeOK /\ NetworkStep => TypeOK'
<1> SUFFICES ASSUME TypeOK, NetworkStep PROVE TypeOK'
  OBVIOUS
<1>1. OperationTypes'
  BY DEF TypeOK, NetworkStep, ReadEnds, WriteEnds, HandshakeEnds, TlsShutdownEnds, OperationTypes
<1> QED
  BY <1>1, ConnectionKept, ThreadsKept, OwnerKept DEF TypeOK, NetworkStep

LEMMA TypeStep == TypeOK /\ [Next]_vars => TypeOK'
<1> SUFFICES ASSUME TypeOK, [Next]_vars PROVE TypeOK'
  OBVIOUS
<1>1. CASE NetworkStep
  BY <1>1, NetworkStepTypes
<1>2. ASSUME NEW t \in Threads, ThreadStep(t) PROVE TypeOK'
  BY <1>2, OwnerStepTypes, CloseStepTypes, StrandStepTypes, HandlerStepTypes DEF ThreadStep
<1>3. CASE UNCHANGED vars
  BY <1>3, ConnectionKept, OperationsKept, ThreadsKept, OwnerKept DEF TypeOK, vars
<1> QED
  BY <1>1, <1>2, <1>3 DEF Next

(* Every variable keeps its type, whatever the number of threads: each        *)
(* thread is at a place of the code, each queue holds what is posted to it,  *)
(* no operation is completed more often than it was started                  *)
(* (TcpConnection.cpp).                                                      *)
THEOREM TypeCorrect == Spec => []TypeOK
<1>1. Init => TypeOK
  BY TypeInit
<1>2. TypeOK /\ [Next]_vars => TypeOK'
  BY TypeStep
<1> QED
  BY <1>1, <1>2, PTL DEF Spec

-----------------------------------------------------------------------------
(* What Append, Head and Tail do to the elements of a queue.                *)

LEMMA HasAppend ==
  ASSUME NEW S, NEW s \in Seq(S), NEW e \in S, NEW x
  PROVE  Has(Append(s, e), x) <=> Has(s, x) \/ e = x
<1>1. ASSUME Has(Append(s, e), x) PROVE Has(s, x) \/ e = x
  BY <1>1 DEF Has
<1>2. ASSUME Has(s, x) PROVE Has(Append(s, e), x)
  BY <1>2 DEF Has
<1>3. ASSUME e = x PROVE Has(Append(s, e), x)
  <2>1. /\ Len(Append(s, e)) = Len(s) + 1
        /\ Append(s, e)[Len(s) + 1] = e
        /\ Len(s) + 1 \in 1 .. Len(Append(s, e))
    OBVIOUS
  <2> QED
    BY <1>3, <2>1 DEF Has
<1> QED
  BY <1>1, <1>2, <1>3

LEMMA OnceAppend ==
  ASSUME NEW S, NEW s \in Seq(S), NEW e \in S, NEW x, Once(s, x), ~(e = x /\ Has(s, x))
  PROVE  Once(Append(s, e), x)
  BY DEF Has, Once

LEMMA HasEmpty == ASSUME NEW x PROVE ~Has(<<>>, x) /\ Once(<<>>, x)
  BY DEF Has, Once

LEMMA HasHead ==
  ASSUME NEW S, NEW s \in Seq(S), s # <<>>
  PROVE  Has(s, Head(s))
<1>1. Head(s) = s[1] /\ 1 \in 1 .. Len(s)
  OBVIOUS
<1> QED
  BY <1>1 DEF Has

LEMMA TailFewer ==
  ASSUME NEW S, NEW s \in Seq(S), s # <<>>, NEW x, Once(s, x)
  PROVE  /\ Has(Tail(s), x) => Has(s, x)
         /\ Once(Tail(s), x)
         /\ Head(s) = x => ~Has(Tail(s), x)
<1>1. /\ Len(Tail(s)) = Len(s) - 1
      /\ \A i \in 1 .. Len(Tail(s)) : Tail(s)[i] = s[i + 1] /\ i + 1 \in 1 .. Len(s)
      /\ Head(s) = s[1] /\ 1 \in 1 .. Len(s)
      /\ Len(s) \in Nat
  OBVIOUS
<1>2. Has(Tail(s), x) => Has(s, x)
  BY <1>1 DEF Has
<1>3. Once(Tail(s), x)
  <2> SUFFICES ASSUME NEW i \in 1 .. Len(Tail(s)), NEW j \in 1 .. Len(Tail(s)),
                      Tail(s)[i] = x, Tail(s)[j] = x
               PROVE  i = j
    BY DEF Once
  <2>1. i + 1 = j + 1
    BY <1>1 DEF Once
  <2> QED
    BY <1>1, <2>1
<1>4. ASSUME Head(s) = x, Has(Tail(s), x) PROVE FALSE
  <2>1. PICK i \in 1 .. Len(Tail(s)) : Tail(s)[i] = x
    BY <1>4 DEF Has
  <2>2. i + 1 = 1
    BY <1>1, <1>4, <2>1 DEF Once
  <2> QED
    BY <1>1, <2>2
<1> QED
  BY <1>2, <1>3, <1>4

-----------------------------------------------------------------------------
(* How the places of one callback c change.                                 *)

(* No thread gets it, the close callbacks stay. *)
SameCallbacks(c) ==
  /\ closeCallbacks' = closeCallbacks
  /\ \A u \in Threads : todo'[u] = todo[u] /\ (cb'[u] = c => cb[u] = c)

LEMMA KeptSame ==
  ASSUME NEW c, KeptOnce(c), SameCallbacks(c)
  PROVE  /\ KeptOnce(c)'
         /\ \A u \in Threads : InThread(u, c)' => InThread(u, c)
         /\ Has(closeCallbacks, c)' <=> Has(closeCallbacks, c)
<1>1. \A u \in Threads : InThread(u, c)' => InThread(u, c)
  BY DEF SameCallbacks, InThread
<1>2. /\ Has(closeCallbacks, c)' <=> Has(closeCallbacks, c)
      /\ Once(closeCallbacks, c)'
      /\ \A u \in Threads : Once(todo[u], c)' /\ ~(cb[u] = c /\ Has(todo[u], c))'
  BY DEF SameCallbacks, KeptOnce
<1> QED
  BY <1>1, <1>2 DEF KeptOnce

(* A thread in close() adds its callback to the others'. *)
AddsCallback(t) ==
  /\ closeCallbacks' = closeCallbacks \/ (cb[t] # "none" /\ closeCallbacks' = Append(closeCallbacks, cb[t]))
  /\ cb' = [cb EXCEPT ![t] = "none"]
  /\ \A u \in Threads : todo'[u] = todo[u]

LEMMA KeptAdd ==
  ASSUME TypeOK, NEW c \in Callbacks, KeptOnce(c), NEW t \in Threads, AddsCallback(t)
  PROVE  /\ KeptOnce(c)'
         /\ \A u \in Threads : InThread(u, c)' => InThread(u, c)
         /\ Has(closeCallbacks, c)' => Has(closeCallbacks, c) \/ InThread(t, c)
<1>1. /\ closeCallbacks \in Seq(Callbacks) /\ c # "none"
      /\ cb[t] \in Callbacks \cup {"none"}
      /\ \A u \in Threads : cb'[u] = IF u = t THEN "none" ELSE cb[u]
  BY DEF TypeOK, ConnectionTypes, ThreadTypes, AddsCallback, Callbacks
<1>2. \A u \in Threads : InThread(u, c)' => InThread(u, c)
  BY <1>1 DEF AddsCallback, InThread
<1>3. Once(closeCallbacks, c)'
  <2>1. CASE closeCallbacks' = closeCallbacks
    BY <2>1 DEF KeptOnce
  <2>2. CASE cb[t] # "none" /\ closeCallbacks' = Append(closeCallbacks, cb[t])
    <3>1. cb[t] = c => ~Has(closeCallbacks, c)
      BY DEF KeptOnce, InThread
    <3> QED
      BY <1>1, <2>2, <3>1, OnceAppend DEF KeptOnce
  <2> QED
    BY <2>1, <2>2 DEF AddsCallback
<1>4. Has(closeCallbacks, c)' => Has(closeCallbacks, c) \/ cb[t] = c
  <2>1. CASE closeCallbacks' = closeCallbacks
    BY <2>1
  <2>2. CASE cb[t] # "none" /\ closeCallbacks' = Append(closeCallbacks, cb[t])
    BY <1>1, <2>2, HasAppend
  <2> QED
    BY <2>1, <2>2 DEF AddsCallback
<1>5. \A u \in Threads : InThread(u, c)' => u # t \/ Has(todo[u], c)
  BY <1>1 DEF AddsCallback, InThread
<1>6. cb[t] = c => \A u \in Threads : ~InThread(u, c)'
  BY <1>2, <1>5 DEF KeptOnce, InThread
<1>7. Has(closeCallbacks, c)' => \A u \in Threads : ~InThread(u, c)'
  BY <1>2, <1>4, <1>6 DEF KeptOnce
<1>8. \A u \in Threads : Once(todo[u], c)' /\ ~(cb[u] = c /\ Has(todo[u], c))'
  BY <1>1 DEF AddsCallback, KeptOnce
<1> QED
  BY <1>2, <1>3, <1>4, <1>6, <1>7, <1>8 DEF KeptOnce, InThread

(* A thread takes all the close callbacks. *)
TakesCallbacks(t) ==
  /\ closeCallbacks' = <<>>
  /\ todo' = [todo EXCEPT ![t] = closeCallbacks]
  /\ cb' = [cb EXCEPT ![t] = "none"]

LEMMA KeptTake ==
  ASSUME TypeOK, NEW c \in Callbacks, KeptOnce(c), NEW t \in Threads, TakesCallbacks(t)
  PROVE  /\ KeptOnce(c)'
         /\ \A u \in Threads : InThread(u, c)' => InThread(u, c) \/ Has(closeCallbacks, c)
         /\ ~Has(closeCallbacks, c)'
<1>1. /\ c # "none"
      /\ \A u \in Threads : cb'[u] = IF u = t THEN "none" ELSE cb[u]
      /\ \A u \in Threads : todo'[u] = IF u = t THEN closeCallbacks ELSE todo[u]
  BY DEF TypeOK, ThreadTypes, TakesCallbacks, Callbacks
<1>2. ~Has(closeCallbacks, c)' /\ Once(closeCallbacks, c)'
  BY HasEmpty DEF TakesCallbacks
<1>3. \A u \in Threads : InThread(u, c)' => IF u = t THEN Has(closeCallbacks, c) ELSE InThread(u, c)
  BY <1>1 DEF InThread
<1>4. \A u \in Threads : Once(todo[u], c)' /\ ~(cb[u] = c /\ Has(todo[u], c))'
  BY <1>1 DEF KeptOnce
<1>5. \A u, v \in Threads : InThread(u, c)' /\ InThread(v, c)' => u = v
  BY <1>3 DEF KeptOnce
<1> QED
  BY <1>2, <1>3, <1>4, <1>5 DEF KeptOnce

(* A thread calls a callback: the one close() was given, or the next of those *)
(* it has taken.                                                             *)
CallsCallback(t, callback, rest) ==
  /\ \/ cb[t] = callback /\ rest = todo[t]
     \/ todo[t] # <<>> /\ callback = Head(todo[t]) /\ rest = Tail(todo[t])
  /\ closeCallbacks' = closeCallbacks
  /\ todo' = [todo EXCEPT ![t] = rest]
  /\ cb' = [cb EXCEPT ![t] = "none"]

LEMMA KeptCall ==
  ASSUME TypeOK, NEW c \in Callbacks, KeptOnce(c), NEW t \in Threads,
         NEW callback, NEW rest, CallsCallback(t, callback, rest)
  PROVE  /\ KeptOnce(c)'
         /\ \A u \in Threads : InThread(u, c)' => InThread(u, c)
         /\ Has(closeCallbacks, c)' <=> Has(closeCallbacks, c)
         /\ callback = c => /\ InThread(t, c)
                            /\ \A u \in Threads : ~InThread(u, c)'
<1>1. /\ c # "none"
      /\ todo[t] \in Seq(Callbacks)
      /\ \A u \in Threads : cb'[u] = IF u = t THEN "none" ELSE cb[u]
      /\ \A u \in Threads : todo'[u] = IF u = t THEN rest ELSE todo[u]
  BY DEF TypeOK, ThreadTypes, CallsCallback, Callbacks
<1>2. Once(todo[t], c) /\ ~(cb[t] = c /\ Has(todo[t], c))
  BY DEF KeptOnce
<1>3. /\ Has(rest, c) => Has(todo[t], c)
      /\ Once(rest, c)
      /\ callback = c => InThread(t, c) /\ ~Has(rest, c)
  <2>1. CASE cb[t] = callback /\ rest = todo[t]
    BY <1>2, <2>1 DEF InThread
  <2>2. CASE todo[t] # <<>> /\ callback = Head(todo[t]) /\ rest = Tail(todo[t])
    BY <1>1, <1>2, <2>2, TailFewer, HasHead DEF InThread
  <2> QED
    BY <2>1, <2>2 DEF CallsCallback
<1>4. \A u \in Threads : InThread(u, c)' => IF u = t THEN Has(rest, c) ELSE InThread(u, c)
  BY <1>1 DEF InThread
<1>5. \A u \in Threads : InThread(u, c)' => InThread(u, c)
  BY <1>3, <1>4 DEF InThread
<1>6. \A u \in Threads : Once(todo[u], c)' /\ ~(cb[u] = c /\ Has(todo[u], c))'
  BY <1>1, <1>3 DEF KeptOnce
<1>7. closeCallbacks' = closeCallbacks
  BY DEF CallsCallback
<1>8. KeptOnce(c)'
  BY <1>5, <1>6, <1>7 DEF KeptOnce
<1>9. callback = c => \A u \in Threads : ~InThread(u, c)'
  BY <1>3, <1>4 DEF KeptOnce
<1> QED
  BY <1>3, <1>5, <1>7, <1>8, <1>9

-----------------------------------------------------------------------------
(* A step in which callbacks only move and no read is issued or answered.   *)

CallbacksMove(c, t) ==
  /\ KeptOnce(c)'
  /\ \A u \in Threads : InThread(u, c)' => InThread(u, c) \/ Has(closeCallbacks, c)
  /\ Has(closeCallbacks, c)' => Has(closeCallbacks, c) \/ InThread(t, c)

ReadsStay ==
  /\ Once(strand, "read")'
  /\ Has(strand, "read")' => Has(strand, "read")
  /\ readOp' # "none" => readOp # "none"
  /\ \A u \in Threads : /\ OwnerRuns(u)' => OwnerRuns(u)
                        /\ pc'[u] = "read" => pc[u] = "read"
  /\ UNCHANGED <<issued, answered>>

LEMMA ReadMoves ==
  ASSUME ReadOnce, NEW t \in Threads, CallbacksMove("read", t), ReadsStay
  PROVE  ReadOnce'
<1>1. \A u \in Threads : ~(InThread(u, "read")' /\ (pc'[u] = "read" \/ OwnerRuns(u)'))
  BY DEF ReadOnce, CallbacksMove, ReadsStay, HasRead
<1>2. \A u \in Threads :
        HasRead(u)' => HasRead(u) \/ (Has(closeCallbacks, "read") /\ InThread(u, "read")')
  BY DEF CallbacksMove, ReadsStay, HasRead
<1>3. \A u, v \in Threads :
        (OwnerRuns(u) \/ HasRead(u))' /\ (OwnerRuns(v) \/ HasRead(v))' => u = v
  <2>1. CASE Has(closeCallbacks, "read")
    BY <1>2, <2>1 DEF ReadOnce, CallbacksMove, ReadsStay, KeptOnce
  <2>2. CASE ~Has(closeCallbacks, "read")
    BY <1>2, <2>2 DEF ReadOnce, ReadsStay
  <2> QED
    BY <2>1, <2>2
<1>4. Has(strand, "read")' \/ readOp' # "none" =>
        /\ ~Has(closeCallbacks, "read")'
        /\ \A u \in Threads : ~(OwnerRuns(u) \/ HasRead(u))'
        /\ issued' = answered' + 1
  BY <1>2 DEF ReadOnce, CallbacksMove, ReadsStay, HasRead
<1>5. Has(strand, "read")' => readOp' = "none"
  BY DEF ReadOnce, ReadsStay
<1>6. Has(closeCallbacks, "read")' =>
        /\ \A u \in Threads : ~(OwnerRuns(u) \/ HasRead(u))'
        /\ issued' = answered' + 1
  <2>1. CASE Has(closeCallbacks, "read")
    BY <1>2, <2>1 DEF ReadOnce, CallbacksMove, ReadsStay, KeptOnce
  <2>2. CASE InThread(t, "read") /\ ~Has(closeCallbacks, "read")
    <3>1. /\ HasRead(t) /\ ~OwnerRuns(t) /\ pc[t] # "read"
          /\ \A u \in Threads : u # t => ~(OwnerRuns(u) \/ HasRead(u))
      BY <2>2 DEF ReadOnce, HasRead
    <3>2. issued' = answered' + 1
      BY <3>1 DEF ReadOnce, ReadsStay
    <3>3. ASSUME Has(closeCallbacks, "read")', NEW u \in Threads
          PROVE  ~(OwnerRuns(u) \/ HasRead(u))'
      BY <2>2, <3>1, <3>3 DEF CallbacksMove, ReadsStay, KeptOnce, HasRead
    <3> QED
      BY <3>2, <3>3
  <2> QED
    BY <2>1, <2>2 DEF CallbacksMove
<1>7. \A u \in Threads : /\ HasRead(u)' => issued' = answered' + 1
                         /\ OwnerRuns(u)' => issued' = answered'
  BY <1>2 DEF ReadOnce, ReadsStay
<1>8. AnsweredAtMostOnce'
  BY DEF ReadOnce, AnsweredAtMostOnce, ReadsStay
<1> QED
  BY <1>1, <1>3, <1>4, <1>5, <1>6, <1>7, <1>8 DEF ReadOnce, CallbacksMove, ReadsStay

(* A step in which thread t calls the callback of the pending read. *)
LEMMA ReadAnswered ==
  ASSUME TypeOK, NEW t \in Threads,
         KeptOnce("read")', Once(strand, "read")',
         ~Has(strand, "read")', readOp' = "none", ~Has(closeCallbacks, "read")',
         \A u \in Threads : ~InThread(u, "read")',
         \A u \in Threads \ {t} : ~OwnerRuns(u)' /\ pc'[u] # "read",
         pc'[t] # "read",
         issued = answered + 1, answered' = answered + 1, issued' = issued
  PROVE  ReadOnce'
<1>1. \A u \in Threads : ~HasRead(u)' /\ (OwnerRuns(u)' => u = t)
  BY DEF HasRead
<1>2. issued' = answered'
  OBVIOUS
<1> QED
  BY <1>1, <1>2 DEF ReadOnce, AnsweredAtMostOnce

LEMMA DeleteMoves ==
  ASSUME DeleteOnce, NEW t \in Threads, CallbacksMove("delete", t),
         deleted' = deleted, released => released', NeverDeletedTwice'
  PROVE  DeleteOnce'
<1>1. deleted' \/ Has(closeCallbacks, "delete")' => released'
  BY DEF DeleteOnce, CallbacksMove
<1>2. \A u \in Threads : InThread(u, "delete")' => released'
  BY DEF DeleteOnce, CallbacksMove
<1>3. deleted' => /\ ~Has(closeCallbacks, "delete")'
                  /\ \A u \in Threads : ~InThread(u, "delete")'
  BY DEF DeleteOnce, CallbacksMove
<1> QED
  BY <1>1, <1>2, <1>3 DEF DeleteOnce, CallbacksMove

-----------------------------------------------------------------------------
(* A step that moves no callback and no read.                               *)

ThreadsStay(t) ==
  \A u \in Threads : /\ todo'[u] = todo[u]
                     /\ cb'[u] # "none" => cb'[u] = cb[u]
                     /\ u # t => pc'[u] = pc[u]

StrandStays ==
  /\ Once(strand, "read")'
  /\ Has(strand, "read")' => Has(strand, "read")

QuietStep(t) ==
  /\ ThreadsStay(t) /\ StrandStays
  /\ OwnerRuns(t)' => OwnerRuns(t)
  /\ pc'[t] = "read" => pc[t] = "read"
  /\ readOp' # "none" => readOp # "none"
  /\ UNCHANGED <<closeCallbacks, issued, answered, deleted, released>>
  /\ NeverDeletedTwice'

LEMMA SameMoves ==
  ASSUME NEW t \in Threads, NEW c \in Callbacks, KeptOnce(c), SameCallbacks(c)
  PROVE  CallbacksMove(c, t)
  BY KeptSame DEF CallbacksMove

LEMMA QuietStepKeeps ==
  ASSUME ReadOnce, DeleteOnce, NEW t \in Threads, QuietStep(t)
  PROVE  ReadOnce' /\ DeleteOnce'
<1>1. ASSUME NEW c \in Callbacks PROVE SameCallbacks(c)
  BY DEF QuietStep, ThreadsStay, SameCallbacks, Callbacks
<1>2. CallbacksMove("read", t) /\ CallbacksMove("delete", t)
  BY <1>1, SameMoves DEF ReadOnce, DeleteOnce, Callbacks
<1>3. ReadsStay
  BY DEF QuietStep, ThreadsStay, StrandStays, ReadsStay, OwnerRuns
<1>4. ReadOnce'
  BY <1>2, <1>3, ReadMoves
<1>5. DeleteOnce'
  BY <1>2, DeleteMoves DEF QuietStep
<1> QED
  BY <1>4, <1>5

LEMMA PostStays ==
  ASSUME TypeOK, ReadOnce, NEW handler \in Handlers, handler # "read", Post(handler)
  PROVE  StrandStays
<1>1. strand \in Seq(Handlers) /\ Once(strand, "read")
  BY DEF TypeOK, ReadOnce
<1> QED
  BY <1>1, HasAppend, OnceAppend DEF Post, StrandStays

LEMMA TakeStays ==
  ASSUME TypeOK, ReadOnce, NEW t \in Threads, NEW handler \in Handlers,
         TakeFromStrand(t, handler)
  PROVE  /\ StrandStays
         /\ handler = "read" => Has(strand, "read") /\ ~Has(strand, "read")'
<1>1. strand \in Seq(Handlers) /\ Once(strand, "read")
  BY DEF TypeOK, ReadOnce
<1>2. strand # <<>> /\ Head(strand) = handler /\ strand' = Tail(strand)
  BY DEF TakeFromStrand
<1> QED
  BY <1>1, <1>2, TailFewer, HasHead DEF StrandStays

LEMMA StrandKept == ReadOnce /\ UNCHANGED strand => StrandStays
  BY DEF ReadOnce, StrandStays

LEMMA ThreadsKeptStay ==
  ASSUME NEW t \in Threads, UNCHANGED threadVars
  PROVE  ThreadsStay(t) /\ (OwnerRuns(t)' => OwnerRuns(t)) /\ pc'[t] = pc[t]
  BY DEF threadVars, ThreadsStay, OwnerRuns

LEMMA GoStays ==
  ASSUME TypeOK, NEW t \in Threads, NEW place, Go(t, place)
  PROVE  ThreadsStay(t) /\ pc'[t] = place
  BY DEF TypeOK, ThreadTypes, Go, ThreadsStay

LEMMA CloseStays ==
  ASSUME TypeOK, NEW t \in Threads, NEW callback, Close(t, callback)
  PROVE  /\ pc'[t] = "close"
         /\ cb'[t] = callback
         /\ \A u \in Threads : /\ todo'[u] = todo[u]
                               /\ u # t => cb'[u] = cb[u] /\ pc'[u] = pc[u]
  BY DEF TypeOK, ThreadTypes, Close

LEMMA ReturnStays ==
  ASSUME TypeOK, NEW t \in Threads, Return(t, todo[t])
  PROVE  ThreadsStay(t) /\ pc'[t] \in {"idle", "dispatch"} /\ cb'[t] = "none"
  BY DEF TypeOK, ThreadTypes, Return, ThreadsStay

LEMMA FailKeeps ==
  ASSUME ReadOnce, DeleteOnce, NEW t \in Threads, NEW kind, kind # "double_delete", Fail(kind)
  PROVE  ReadOnce' /\ DeleteOnce'
  BY QuietStepKeeps, StrandKept, ThreadsKeptStay
     DEF Fail, QuietStep, connectionVars, operationVars, ownerVars, NeverDeletedTwice

LEMMA IdleKeeps ==
  ASSUME TypeOK, ReadOnce, DeleteOnce, NEW t \in Threads, Idle(t)
  PROVE  ReadOnce' /\ DeleteOnce'
  BY QuietStepKeeps, StrandKept, ReturnStays
     DEF Idle, QuietStep, OwnerRuns, connectionVars, operationVars, ownerVars,
         DeleteOnce, NeverDeletedTwice

-----------------------------------------------------------------------------
(* The steps that release the connection or call a callback.                *)

LEMMA ShutdownKeeps ==
  ASSUME TypeOK, ReadOnce, DeleteOnce, NEW t \in Threads, ~released, Shutdown(t)
  PROVE  ReadOnce' /\ DeleteOnce'
<1>1. /\ pc'[t] = "close" /\ cb'[t] = "delete"
      /\ \A u \in Threads : /\ todo'[u] = todo[u]
                            /\ u # t => cb'[u] = cb[u] /\ pc'[u] = pc[u]
  BY CloseStays DEF Shutdown
<1>2. StrandStays
  BY PostStays, StrandKept DEF Shutdown, Handlers
<1>3. ReadOnce'
  <2>1. SameCallbacks("read")
    BY <1>1 DEF Shutdown, SameCallbacks, connectionVars
  <2>2. ReadsStay
    BY <1>1, <1>2 DEF Shutdown, ReadsStay, StrandStays, OwnerRuns, operationVars
  <2> QED
    BY <2>1, <2>2, SameMoves, ReadMoves DEF ReadOnce, Callbacks
<1>4. DeleteOnce'
  <2>1. /\ ~deleted /\ ~Has(closeCallbacks, "delete")
        /\ \A u \in Threads : ~InThread(u, "delete")
    BY DEF DeleteOnce
  <2>2. \A u \in Threads : /\ Once(todo[u], "delete")' /\ ~Has(todo[u], "delete")'
                           /\ InThread(u, "delete")' => u = t
    BY <1>1, <2>1 DEF DeleteOnce, KeptOnce, InThread
  <2>3. UNCHANGED <<closeCallbacks, deleted, fault>> /\ released'
    BY DEF Shutdown, connectionVars
  <2>4. KeptOnce("delete")'
    BY <2>1, <2>2, <2>3 DEF DeleteOnce, KeptOnce
  <2> QED
    BY <2>1, <2>3, <2>4 DEF DeleteOnce, NeverDeletedTwice
<1> QED
  BY <1>3, <1>4

LEMMA CallKeeps ==
  ASSUME TypeOK, ReadOnce, DeleteOnce, NEW t \in Threads, NEW callback, NEW rest,
         \/ cb[t] = callback /\ rest = todo[t]
         \/ todo[t] # <<>> /\ callback = Head(todo[t]) /\ rest = Tail(todo[t]),
         Call(t, callback, rest)
  PROVE  ReadOnce' /\ DeleteOnce'
<1>1. CallsCallback(t, callback, rest)
  BY DEF Call, Return, CallsCallback, connectionVars
<1>2. KeptOnce("read") /\ KeptOnce("delete")
  BY DEF ReadOnce, DeleteOnce
<1>3. ASSUME NEW c \in Callbacks, KeptOnce(c)
      PROVE  /\ CallbacksMove(c, t)
             /\ Has(closeCallbacks, c)' <=> Has(closeCallbacks, c)
             /\ callback = c => InThread(t, c) /\ \A u \in Threads : ~InThread(u, c)'
  BY <1>1, <1>3, KeptCall DEF CallbacksMove
<1>4. CASE callback = "read"
  <2>1. InThread(t, "read") /\ \A u \in Threads : ~InThread(u, "read")'
    BY <1>2, <1>3, <1>4 DEF Callbacks
  <2>2. /\ ~Has(strand, "read") /\ readOp = "none" /\ ~Has(closeCallbacks, "read")
        /\ issued = answered + 1
        /\ \A u \in Threads \ {t} : ~OwnerRuns(u) /\ pc[u] # "read"
    BY <2>1 DEF ReadOnce, KeptOnce, HasRead
  <2>3. /\ UNCHANGED <<closeCallbacks, strand, readOp, issued, deleted, released, fault>>
        /\ answered' = answered + 1
        /\ pc' = [pc EXCEPT ![t] = "aborted"]
    BY <1>4 DEF Call, connectionVars, operationVars
  <2>4. ReadOnce'
    <3>1. pc'[t] # "read" /\ \A u \in Threads \ {t} : ~OwnerRuns(u)' /\ pc'[u] # "read"
      BY <2>2, <2>3 DEF TypeOK, ThreadTypes, OwnerRuns
    <3>2. KeptOnce("read")' /\ Once(strand, "read")' /\ ~Has(strand, "read")'
      BY <1>2, <1>3, <2>2, <2>3 DEF ReadOnce, CallbacksMove, Callbacks
    <3> QED
      BY <2>1, <2>2, <2>3, <3>1, <3>2, ReadAnswered
  <2>5. DeleteOnce'
    BY <1>2, <1>3, <2>3, DeleteMoves DEF DeleteOnce, NeverDeletedTwice, Callbacks
  <2> QED
    BY <2>4, <2>5
<1>5. CASE callback = "delete"
  <2>1. InThread(t, "delete") /\ \A u \in Threads : ~InThread(u, "delete")'
    BY <1>2, <1>3, <1>5 DEF Callbacks
  <2>2. released /\ ~deleted /\ ~Has(closeCallbacks, "delete")
    BY <2>1 DEF DeleteOnce, KeptOnce
  <2>3. /\ UNCHANGED <<closeCallbacks, strand, issued, answered, released>>
        /\ fault' = fault
        /\ readOp' # "none" => readOp # "none"
    BY <1>5, <2>2 DEF Call, AbortOperations, ownerVars
  <2>4. DeleteOnce'
    <3>1. KeptOnce("delete")' /\ ~Has(closeCallbacks, "delete")'
      BY <1>2, <1>3, <2>2 DEF CallbacksMove, Callbacks
    <3> QED
      BY <2>1, <2>2, <2>3, <3>1 DEF DeleteOnce, NeverDeletedTwice
  <2>5. ReadOnce'
    <3>1. \A u \in Threads : pc'[u] = pc[u] \/ pc'[u] \in {"idle", "dispatch"}
      BY <1>5 DEF TypeOK, ThreadTypes, Call, Return
    <3>2. ReadsStay
      BY <2>3, <3>1, StrandKept DEF ReadsStay, StrandStays, OwnerRuns
    <3> QED
      BY <1>2, <1>3, <3>2, ReadMoves DEF Callbacks
  <2> QED
    BY <2>4, <2>5
<1> QED
  BY <1>4, <1>5 DEF Call

-----------------------------------------------------------------------------
(* Each step keeps both invariants.                                         *)

LEMMA GiveUpKeeps ==
  ASSUME TypeOK, ReadOnce, DeleteOnce, NEW t \in Threads, GiveUp(t)
  PROVE  ReadOnce' /\ DeleteOnce'
  BY IdleKeeps, ShutdownKeeps DEF GiveUp

(* process() issues the next read: the last one is answered.                *)
LEMMA ProcessKeeps ==
  ASSUME TypeOK, ReadOnce, DeleteOnce, NEW t \in Threads, Process(t)
  PROVE  ReadOnce' /\ DeleteOnce'
<1>1. CASE stopped
  BY <1>1, IdleKeeps DEF Process
<1>2. CASE ~stopped
  <2>1. /\ issued' = issued + 1 /\ Go(t, "read") /\ pc[t] = "process"
        /\ UNCHANGED <<closeCallbacks, strand, readOp, answered, deleted, released, fault>>
    BY <1>2 DEF Process, At, connectionVars, operationVars
  <2>2. /\ ThreadsStay(t) /\ pc'[t] = "read"
        /\ cb' = cb /\ todo' = todo
    BY <2>1, GoStays DEF Go
  <2>3. OwnerRuns(t) /\ issued = answered /\ issued \in Nat
    BY <2>1 DEF OwnerRuns, ReadOnce, TypeOK, OwnerTypes
  <2>4. /\ ~Has(strand, "read") /\ readOp = "none" /\ ~Has(closeCallbacks, "read")
        /\ \A u \in Threads : ~InThread(u, "read")
        /\ \A u \in Threads \ {t} : ~OwnerRuns(u) /\ pc[u] # "read"
    BY <2>3 DEF ReadOnce, HasRead
  <2>5. \A u \in Threads : InThread(u, "read")' <=> InThread(u, "read")
    BY <2>2 DEF InThread
  <2>6. /\ ~OwnerRuns(t)'
        /\ \A u \in Threads \ {t} : ~OwnerRuns(u)' /\ ~HasRead(u)'
    BY <2>2, <2>4, <2>5 DEF ThreadsStay, OwnerRuns, HasRead
  <2>7. KeptOnce("read")' /\ KeptOnce("delete")'
    <3>1. SameCallbacks("read") /\ SameCallbacks("delete")
      BY <2>1, <2>2 DEF SameCallbacks
    <3> QED
      BY <3>1, KeptSame DEF ReadOnce, DeleteOnce
  <2>8. Once(strand, "read")' /\ ~Has(strand, "read")' /\ readOp' = "none" /\ ~Has(closeCallbacks, "read")'
    BY <2>1, <2>4 DEF ReadOnce
  <2>9. issued' = answered' + 1 /\ AnsweredAtMostOnce'
    BY <2>1, <2>3 DEF AnsweredAtMostOnce
  <2>10. ReadOnce'
    BY <2>4, <2>5, <2>6, <2>7, <2>8, <2>9 DEF ReadOnce
  <2>11. DeleteOnce'
    <3>1. SameCallbacks("delete")
      BY <2>1, <2>2 DEF SameCallbacks
    <3>2. CallbacksMove("delete", t)
      BY <3>1, SameMoves DEF DeleteOnce, Callbacks
    <3> QED
      BY <2>1, <3>2, DeleteMoves DEF DeleteOnce, NeverDeletedTwice
  <2> QED
    BY <2>10, <2>11
<1> QED
  BY <1>1, <1>2

(* read() posts the read it was called for, or calls its callback.          *)
LEMMA ReadKeeps ==
  ASSUME TypeOK, ReadOnce, DeleteOnce, NEW t \in Threads, Read(t)
  PROVE  ReadOnce' /\ DeleteOnce'
<1>1. pc[t] = "read" /\ HasRead(t)
  BY DEF Read, Uses, HasRead
<1>2. /\ ~Has(strand, "read") /\ readOp = "none" /\ ~Has(closeCallbacks, "read")
      /\ issued = answered + 1
      /\ \A u \in Threads : ~InThread(u, "read")
      /\ \A u \in Threads \ {t} : ~OwnerRuns(u) /\ pc[u] # "read"
  BY <1>1 DEF ReadOnce, HasRead
<1>3. CASE IsOpen
  <2>1. /\ Post("read") /\ Return(t, todo[t])
        /\ UNCHANGED <<closeCallbacks, readOp, issued, answered, deleted, released, fault>>
    BY <1>3 DEF Read, connectionVars, operationVars, ownerVars
  <2>2. ThreadsStay(t) /\ pc'[t] \in {"idle", "dispatch"} /\ cb'[t] = "none"
    BY <2>1, ReturnStays
  <2>3. SameCallbacks("read") /\ SameCallbacks("delete")
    BY <2>1, <2>2 DEF ThreadsStay, SameCallbacks
  <2>4. /\ KeptOnce("read")' /\ ~Has(closeCallbacks, "read")'
        /\ \A u \in Threads : ~InThread(u, "read")'
    BY <1>2, <2>3, KeptSame DEF ReadOnce
  <2>5. Once(strand, "read")'
    BY <1>2, <2>1, OnceAppend DEF TypeOK, ReadOnce, Post, Handlers
  <2>6. \A u \in Threads : ~OwnerRuns(u)' /\ ~HasRead(u)'
    BY <1>2, <2>2, <2>4 DEF ThreadsStay, OwnerRuns, HasRead
  <2>7. issued' = answered' + 1 /\ readOp' = "none" /\ AnsweredAtMostOnce'
    BY <1>2, <2>1 DEF ReadOnce, AnsweredAtMostOnce
  <2>8. ReadOnce'
    BY <2>4, <2>5, <2>6, <2>7 DEF ReadOnce, HasRead
  <2>9. DeleteOnce'
    <3>1. CallbacksMove("delete", t)
      BY <2>3, SameMoves DEF DeleteOnce, Callbacks
    <3> QED
      BY <2>1, <3>1, DeleteMoves DEF DeleteOnce, NeverDeletedTwice
  <2> QED
    BY <2>8, <2>9
<1>4. CASE ~IsOpen
  <2>1. /\ answered' = answered + 1
        /\ pc' = [pc EXCEPT ![t] = "aborted"]
        /\ cb' = [cb EXCEPT ![t] = "none"]
        /\ todo' = [todo EXCEPT ![t] = todo[t]]
        /\ UNCHANGED <<closeCallbacks, strand, readOp, issued, deleted, released, fault>>
    BY <1>4 DEF Read, Call, connectionVars, operationVars
  <2>2. /\ pc'[t] = "aborted" /\ cb'[t] = "none"
        /\ \A u \in Threads : todo'[u] = todo[u]
        /\ \A u \in Threads \ {t} : pc'[u] = pc[u] /\ cb'[u] = cb[u]
    BY <2>1 DEF TypeOK, ThreadTypes
  <2>3. SameCallbacks("read") /\ SameCallbacks("delete")
    BY <2>1, <2>2 DEF SameCallbacks
  <2>4. /\ KeptOnce("read")' /\ ~Has(closeCallbacks, "read")'
        /\ \A u \in Threads : ~InThread(u, "read")'
    BY <1>2, <2>3, KeptSame DEF ReadOnce
  <2>5. \A u \in Threads \ {t} : ~OwnerRuns(u)' /\ pc'[u] # "read"
    BY <1>2, <2>2 DEF OwnerRuns
  <2>6. Once(strand, "read")' /\ ~Has(strand, "read")' /\ readOp' = "none"
    BY <1>2, <2>1 DEF ReadOnce
  <2>7. ReadOnce'
    BY <1>2, <2>1, <2>2, <2>4, <2>5, <2>6, ReadAnswered
  <2>8. DeleteOnce'
    <3>1. CallbacksMove("delete", t)
      BY <2>3, SameMoves DEF DeleteOnce, Callbacks
    <3> QED
      BY <2>1, <3>1, DeleteMoves DEF DeleteOnce, NeverDeletedTwice
  <2> QED
    BY <2>7, <2>8
<1> QED
  BY <1>3, <1>4

LEMMA OwnerStepKeeps ==
  ASSUME TypeOK, ReadOnce, DeleteOnce, NEW t \in Threads, OwnerStep(t)
  PROVE  ReadOnce' /\ DeleteOnce'
<1>1. CASE Aborted(t)
  BY <1>1, GiveUpKeeps DEF Aborted
<1>2. CASE Received(t)
  <2>1. CASE stopped
    BY <1>2, <2>1, GiveUpKeeps DEF Received
  <2>2. CASE ~stopped
    <3>1. Go(t, "tokens") /\ pc[t] = "received"
      BY <1>2, <2>2 DEF Received, At
    <3>2. ThreadsStay(t) /\ pc'[t] = "tokens"
      BY <3>1, GoStays
    <3> QED
      BY <1>2, <2>2, <3>1, <3>2, QuietStepKeeps, StrandKept
         DEF Received, QuietStep, OwnerRuns, connectionVars, operationVars, ownerVars,
             DeleteOnce, NeverDeletedTwice
  <2> QED
    BY <2>1, <2>2
<1>3. CASE Write(t)
  <2>1. StrandStays
    BY <1>3, PostStays, StrandKept DEF Write, Handlers
  <2> QED
    BY <1>3, <2>1, QuietStepKeeps, ThreadsKeptStay
       DEF Write, QuietStep, connectionVars, operationVars, DeleteOnce, NeverDeletedTwice
<1>4. CASE Upgrade(t)
  <2>1. StrandStays
    BY <1>4, PostStays, StrandKept DEF Upgrade, Handlers
  <2> QED
    BY <1>4, <2>1, QuietStepKeeps, ThreadsKeptStay
       DEF Upgrade, QuietStep, connectionVars, operationVars, DeleteOnce, NeverDeletedTwice
<1>5. CASE ShutdownOnToken(t)
  BY <1>5, ShutdownKeeps DEF ShutdownOnToken
<1>6. CASE TokensProcessed(t)
  <2>1. ThreadsStay(t) /\ pc'[t] = "process" /\ pc[t] = "tokens"
    BY <1>6, GoStays DEF TokensProcessed, At
  <2> QED
    BY <1>6, <2>1, QuietStepKeeps, StrandKept
       DEF TokensProcessed, QuietStep, OwnerRuns, connectionVars, operationVars, ownerVars,
           DeleteOnce, NeverDeletedTwice
<1>7. CASE Process(t)
  BY <1>7, ProcessKeeps
<1>8. CASE Read(t)
  BY <1>8, ReadKeeps
<1> QED
  BY <1>1, <1>2, <1>3, <1>4, <1>5, <1>6, <1>7, <1>8 DEF OwnerStep

(* A step of close() that only moves on. *)
LEMMA MoveKeeps ==
  ASSUME TypeOK, ReadOnce, DeleteOnce, NEW t \in Threads, NEW place \in Places,
         Go(t, place), ~(place \in {"received", "tokens", "process", "aborted", "read"}),
         StrandStays, readOp' # "none" => readOp # "none",
         UNCHANGED <<closeCallbacks, issued, answered, deleted, released, fault>>
  PROVE  ReadOnce' /\ DeleteOnce'
<1>1. ThreadsStay(t) /\ pc'[t] = place
  BY GoStays
<1> QED
  BY <1>1, QuietStepKeeps DEF QuietStep, OwnerRuns, DeleteOnce, NeverDeletedTwice

LEMMA AddKeeps ==
  ASSUME TypeOK, ReadOnce, DeleteOnce, NEW t \in Threads, AddsCallback(t),
         \A u \in Threads : pc'[u] = pc[u] \/ pc'[u] \in {"closing", "idle", "dispatch"},
         UNCHANGED <<strand, readOp, issued, answered, deleted, released, fault>>
  PROVE  ReadOnce' /\ DeleteOnce'
<1>1. CallbacksMove("read", t) /\ CallbacksMove("delete", t)
  BY KeptAdd DEF ReadOnce, DeleteOnce, CallbacksMove, Callbacks
<1>2. ReadsStay
  BY DEF ReadOnce, ReadsStay, OwnerRuns
<1> QED
  BY <1>1, <1>2, ReadMoves, DeleteMoves DEF DeleteOnce, NeverDeletedTwice

LEMMA CloseStepKeeps ==
  ASSUME TypeOK, ReadOnce, DeleteOnce, NEW t \in Threads, CloseStep(t)
  PROVE  ReadOnce' /\ DeleteOnce'
<1>1. CASE CheckClosed(t)
  <2>1. PICK place \in {"ended", "stillOpen"} : Go(t, place)
    BY <1>1 DEF CheckClosed
  <2> QED
    BY <1>1, <2>1, MoveKeeps, StrandKept
       DEF CheckClosed, Places, connectionVars, operationVars, ownerVars
<1>2. CASE CheckClosing(t)
  <2>1. PICK place \in {"ended", "push"} : Go(t, place)
    BY <1>2 DEF CheckClosing
  <2> QED
    BY <1>2, <2>1, MoveKeeps, StrandKept
       DEF CheckClosing, Places, connectionVars, operationVars, ownerVars
<1>3. CASE PushCallback(t)
  <2>1. AddsCallback(t)
    BY <1>3 DEF PushCallback, AddsCallback
  <2>2. \A u \in Threads : pc'[u] = pc[u] \/ pc'[u] = "closing"
    BY <1>3 DEF PushCallback, TypeOK, ThreadTypes
  <2> QED
    BY <1>3, <2>1, <2>2, AddKeeps DEF PushCallback, operationVars, ownerVars
<1>4. CASE StartClosing(t)
  <2>1. StrandStays
    BY <1>4, PostStays DEF StartClosing, Handlers
  <2>2. ThreadsStay(t) /\ pc'[t] \in {"idle", "dispatch"}
    BY <1>4, ReturnStays DEF StartClosing
  <2> QED
    BY <1>4, <2>1, <2>2, QuietStepKeeps
       DEF StartClosing, QuietStep, OwnerRuns, operationVars, ownerVars,
           DeleteOnce, NeverDeletedTwice
<1>5. CASE CloseEnded(t)
  <2>1. CASE Idle(t)
    BY <2>1, IdleKeeps
  <2>2. CASE Call(t, cb[t], todo[t])
    BY <2>2, CallKeeps
  <2>3. CASE Go(t, "waiting") /\ UNCHANGED <<connectionVars, strand, operationVars, ownerVars, fault>>
    BY <2>3, MoveKeeps, StrandKept DEF Places, connectionVars, operationVars, ownerVars
  <2> QED
    BY <1>5, <2>1, <2>2, <2>3 DEF CloseEnded
<1>6. CASE CloseWaits(t)
  <2>1. CASE Idle(t)
    BY <2>1, IdleKeeps
  <2>2. CASE Go(t, "join") /\ UNCHANGED <<connectionVars, strand, operationVars, ownerVars, fault>>
    BY <2>2, MoveKeeps, StrandKept DEF Places, connectionVars, operationVars, ownerVars
  <2> QED
    BY <1>6, <2>1, <2>2 DEF CloseWaits
<1>10. CASE JoinClosing(t)
  <2>1. ThreadsStay(t) /\ pc'[t] \in {"idle", "dispatch"} /\ cb' = [cb EXCEPT ![t] = "none"]
    BY <1>10, ReturnStays DEF JoinClosing, Return
  <2>2. AddsCallback(t)
    BY <1>10, <2>1 DEF JoinClosing, AddsCallback, ThreadsStay
  <2> QED
    BY <1>10, <2>1, <2>2, AddKeeps DEF JoinClosing, ThreadsStay, operationVars, ownerVars
<1>7. CASE AnnounceClosed(t)
  <2>1. StrandStays
    BY <1>7, PostStays, StrandKept DEF AnnounceClosed, Handlers
  <2> QED
    BY <1>7, <2>1, MoveKeeps DEF AnnounceClosed, Places, operationVars
<1>8. CASE CollectCallbacks(t)
  <2>1. TakesCallbacks(t)
    BY <1>8 DEF CollectCallbacks, Return, TakesCallbacks
  <2>2. CallbacksMove("read", t) /\ CallbacksMove("delete", t)
    BY <2>1, KeptTake DEF ReadOnce, DeleteOnce, CallbacksMove, Callbacks
  <2>3. \A u \in Threads : pc'[u] = pc[u] \/ pc'[u] \in {"idle", "dispatch"}
    BY <1>8 DEF CollectCallbacks, Return, TypeOK, ThreadTypes
  <2>4. ReadsStay
    BY <1>8, <2>3 DEF CollectCallbacks, ReadOnce, ReadsStay, OwnerRuns, operationVars, ownerVars
  <2> QED
    BY <1>8, <2>2, <2>4, ReadMoves, DeleteMoves
       DEF CollectCallbacks, DeleteOnce, NeverDeletedTwice, ownerVars
<1>9. CASE CallNext(t)
  BY <1>9, CallKeeps DEF CallNext
<1> QED
  BY <1>1, <1>2, <1>3, <1>4, <1>5, <1>6, <1>7, <1>8, <1>9, <1>10 DEF CloseStep

(* The strand handler of a read starts it, or calls its callback.           *)
LEMMA StrandReadKeeps ==
  ASSUME TypeOK, ReadOnce, DeleteOnce, NEW t \in Threads, StrandRead(t)
  PROVE  ReadOnce' /\ DeleteOnce'
<1>1. Has(strand, "read") /\ ~Has(strand, "read")' /\ Once(strand, "read")'
  BY TakeStays DEF StrandRead, Handlers, StrandStays
<1>2. /\ readOp = "none" /\ ~Has(closeCallbacks, "read")
      /\ issued = answered + 1
      /\ \A u \in Threads : ~OwnerRuns(u) /\ ~HasRead(u)
  BY <1>1 DEF ReadOnce
<1>3. UNCHANGED <<closeCallbacks, cb, todo, issued, deleted, released, fault>>
  BY DEF StrandRead, connectionVars
<1>4. SameCallbacks("read") /\ SameCallbacks("delete")
  BY <1>3 DEF SameCallbacks
<1>5. /\ KeptOnce("read")' /\ ~Has(closeCallbacks, "read")'
      /\ \A u \in Threads : ~InThread(u, "read")'
  BY <1>2, <1>4, KeptSame DEF ReadOnce, HasRead
<1>6. DeleteOnce'
  <2>1. CallbacksMove("delete", t)
    BY <1>4, SameMoves DEF DeleteOnce, Callbacks
  <2> QED
    BY <1>3, <2>1, DeleteMoves DEF DeleteOnce, NeverDeletedTwice
<1>7. CASE IsOpen
  <2>1. UNCHANGED <<pc, answered>>
    BY <1>7 DEF StrandRead
  <2>2. \A u \in Threads : ~OwnerRuns(u)' /\ ~HasRead(u)'
    BY <1>2, <1>5, <2>1 DEF OwnerRuns, HasRead
  <2>3. issued' = answered' + 1 /\ AnsweredAtMostOnce'
    BY <1>2, <1>3, <2>1 DEF ReadOnce, AnsweredAtMostOnce
  <2>4. ReadOnce'
    BY <1>1, <1>5, <2>2, <2>3 DEF ReadOnce, HasRead
  <2> QED
    BY <1>6, <2>4
<1>8. CASE ~IsOpen
  <2>1. answered' = answered + 1 /\ readOp' = readOp /\ pc' = [pc EXCEPT ![t] = "aborted"]
    BY <1>8 DEF StrandRead
  <2>2. /\ pc'[t] # "read"
        /\ \A u \in Threads \ {t} : ~OwnerRuns(u)' /\ pc'[u] # "read"
    BY <1>2, <2>1 DEF TypeOK, ThreadTypes, OwnerRuns, HasRead
  <2>3. ReadOnce'
    BY <1>1, <1>2, <1>3, <1>5, <2>1, <2>2, ReadAnswered
  <2> QED
    BY <1>6, <2>3
<1> QED
  BY <1>7, <1>8

LEMMA StrandStepKeeps ==
  ASSUME TypeOK, ReadOnce, DeleteOnce, NEW t \in Threads, StrandStep(t)
  PROVE  ReadOnce' /\ DeleteOnce'
<1>1. CASE StrandUpgrade(t)
  <2>1. StrandStays
    BY <1>1, TakeStays DEF StrandUpgrade, Handlers
  <2>2. UNCHANGED <<threadVars, closeCallbacks, issued, answered, deleted, released>>
    BY <1>1 DEF StrandUpgrade, ownerVars
  <2>3. readOp' = readOp
    BY <1>1 DEF StrandUpgrade, operationVars
  <2>4. NeverDeletedTwice'
    BY <1>1 DEF StrandUpgrade, DeleteOnce, NeverDeletedTwice
  <2> QED
    BY <2>1, <2>2, <2>3, <2>4, ThreadsKeptStay, QuietStepKeeps DEF QuietStep
<1>2. CASE StrandRead(t)
  BY <1>2, StrandReadKeeps
<1>3. CASE StrandCancel(t)
  <2>1. StrandStays
    BY <1>3, TakeStays DEF StrandCancel, Handlers
  <2>2. UNCHANGED <<threadVars, closeCallbacks, issued, answered, deleted, released>>
    BY <1>3 DEF StrandCancel, connectionVars, ownerVars
  <2>3. readOp' # "none" => readOp # "none"
    BY <1>3 DEF StrandCancel, AbortOperations, operationVars
  <2>4. NeverDeletedTwice'
    BY <1>3 DEF StrandCancel, DeleteOnce, NeverDeletedTwice
  <2> QED
    BY <2>1, <2>2, <2>3, <2>4, ThreadsKeptStay, QuietStepKeeps DEF QuietStep
<1>4. CASE StrandWrite(t)
  <2>1. StrandStays
    BY <1>4, TakeStays DEF StrandWrite, Handlers
  <2> QED
    BY <1>4, <2>1, ThreadsKeptStay, QuietStepKeeps
       DEF StrandWrite, QuietStep, connectionVars, ownerVars, DeleteOnce, NeverDeletedTwice
<1>5. CASE StrandClose(t)
  <2>1. StrandStays
    BY <1>5, TakeStays DEF StrandClose, Handlers
  <2>2. UNCHANGED <<closeCallbacks, cb, todo, issued, answered, deleted, released>>
    BY <1>5 DEF StrandClose, threadVars, ownerVars
  <2>3. pc' = pc \/ pc' = [pc EXCEPT ![t] = "announce"]
    BY <1>5 DEF StrandClose, threadVars
  <2>4. ThreadsStay(t) /\ (OwnerRuns(t)' => OwnerRuns(t)) /\ (pc'[t] = "read" => pc[t] = "read")
    BY <2>2, <2>3 DEF TypeOK, ThreadTypes, ThreadsStay, OwnerRuns
  <2>5. readOp' # "none" => readOp # "none"
    BY <1>5 DEF StrandClose, AbortOperations, operationVars
  <2>6. NeverDeletedTwice'
    BY <1>5 DEF StrandClose, DeleteOnce, NeverDeletedTwice
  <2> QED
    BY <2>1, <2>2, <2>4, <2>5, <2>6, QuietStepKeeps DEF QuietStep
<1> QED
  BY <1>1, <1>2, <1>3, <1>4, <1>5 DEF StrandStep

(* The handler of a read hands its data over, or closes with its callback.  *)
LEMMA HandleReadKeeps ==
  ASSUME TypeOK, ReadOnce, DeleteOnce, NEW t \in Threads, HandleRead(t)
  PROVE  ReadOnce' /\ DeleteOnce'
<1>1. readOp # "none" /\ readOp' = "none"
  BY DEF HandleRead
<1>2. /\ ~Has(strand, "read") /\ ~Has(closeCallbacks, "read")
      /\ issued = answered + 1
      /\ \A u \in Threads : ~OwnerRuns(u) /\ ~HasRead(u)
  BY <1>1 DEF ReadOnce
<1>3. /\ UNCHANGED <<closeCallbacks, strand, issued, deleted, released, fault>>
      /\ Once(strand, "read")' /\ ~Has(strand, "read")' /\ ~Has(closeCallbacks, "read")'
  BY <1>2 DEF HandleRead, connectionVars, ReadOnce
<1>4. CASE answered' = answered + 1 /\ Go(t, "received")
  <2>1. ThreadsStay(t) /\ pc'[t] = "received" /\ UNCHANGED <<cb, todo>>
    BY <1>4, GoStays DEF Go
  <2>2. SameCallbacks("read") /\ SameCallbacks("delete")
    BY <1>3, <2>1 DEF SameCallbacks
  <2>3. KeptOnce("read")' /\ \A u \in Threads : ~InThread(u, "read")'
    BY <1>2, <2>2, KeptSame DEF ReadOnce, HasRead
  <2>4. \A u \in Threads \ {t} : ~OwnerRuns(u)' /\ pc'[u] # "read"
    BY <1>2, <2>1 DEF ThreadsStay, OwnerRuns, HasRead
  <2>5. ReadOnce'
    BY <1>1, <1>2, <1>3, <1>4, <2>1, <2>3, <2>4, ReadAnswered
  <2>6. CallbacksMove("delete", t)
    BY <2>2, SameMoves DEF DeleteOnce, Callbacks
  <2>7. DeleteOnce'
    BY <1>3, <2>6, DeleteMoves DEF DeleteOnce, NeverDeletedTwice
  <2> QED
    BY <2>5, <2>7
<1>5. CASE Close(t, "read") /\ answered' = answered
  <2>1. /\ pc'[t] = "close" /\ cb'[t] = "read"
        /\ \A u \in Threads : /\ todo'[u] = todo[u]
                              /\ u # t => cb'[u] = cb[u] /\ pc'[u] = pc[u]
    BY <1>5, CloseStays
  <2>2. \A u \in Threads : /\ ~InThread(u, "read") /\ ~Has(todo[u], "read")'
                           /\ InThread(u, "read")' => u = t
    BY <1>2, <2>1 DEF HasRead, InThread
  <2>3. KeptOnce("read")'
    <3>1. \A u \in Threads : Once(todo[u], "read")'
      BY <2>1 DEF ReadOnce, KeptOnce
    <3>2. Once(closeCallbacks, "read")'
      BY <1>3 DEF ReadOnce, KeptOnce
    <3> QED
      BY <1>3, <2>2, <3>1, <3>2 DEF KeptOnce
  <2>4. \A u \in Threads : /\ ~OwnerRuns(u)' /\ pc'[u] # "read"
                           /\ HasRead(u)' => u = t
    BY <1>2, <2>1, <2>2 DEF OwnerRuns, HasRead
  <2>5. issued' = answered' + 1 /\ AnsweredAtMostOnce'
    BY <1>2, <1>3, <1>5 DEF ReadOnce, AnsweredAtMostOnce
  <2>6. ReadOnce'
    BY <1>1, <1>3, <2>3, <2>4, <2>5 DEF ReadOnce
  <2>7. SameCallbacks("delete")
    BY <1>3, <2>1 DEF SameCallbacks
  <2>8. CallbacksMove("delete", t)
    BY <2>7, SameMoves DEF DeleteOnce, Callbacks
  <2>9. DeleteOnce'
    BY <1>3, <2>8, DeleteMoves DEF DeleteOnce, NeverDeletedTwice
  <2> QED
    BY <2>6, <2>9
<1> QED
  BY <1>4, <1>5 DEF HandleRead

LEMMA HandlerStepKeeps ==
  ASSUME TypeOK, ReadOnce, DeleteOnce, NEW t \in Threads, HandlerStep(t)
  PROVE  ReadOnce' /\ DeleteOnce'
<1>1. CASE HandleRead(t)
  BY <1>1, HandleReadKeeps
<1>2. ASSUME Close(t, "none") PROVE ThreadsStay(t) /\ pc'[t] = "close"
  BY <1>2, CloseStays DEF ThreadsStay
<1>3. CASE HandleFailedWrite(t)
  <2>1. ThreadsStay(t) /\ pc'[t] = "close"
    BY <1>2, <1>3 DEF HandleFailedWrite
  <2> QED
    BY <1>3, <2>1, StrandKept, QuietStepKeeps
       DEF HandleFailedWrite, QuietStep, OwnerRuns, connectionVars, ownerVars,
           DeleteOnce, NeverDeletedTwice
<1>4. CASE HandleHandshake(t)
  <2>1. PICK place \in {"handshaken", "refused"} : Go(t, place)
    BY <1>4 DEF HandleHandshake
  <2> QED
    BY <1>4, <2>1, StrandKept, MoveKeeps DEF HandleHandshake, Places, ownerVars
<1>5. CASE HandshakeEnded(t)
  <2>1. PICK place \in {"announce", "close", "secure"} : ThreadsStay(t) /\ pc'[t] = place
    BY <1>2, <1>5, GoStays DEF HandshakeEnded
  <2>2. readOp' # "none" => readOp # "none"
    BY <1>5 DEF HandshakeEnded, AbortOperations, operationVars
  <2> QED
    BY <1>5, <2>1, <2>2, StrandKept, QuietStepKeeps
       DEF HandshakeEnded, QuietStep, OwnerRuns, ownerVars, DeleteOnce, NeverDeletedTwice
<1>6. CASE BecomeSecure(t)
  <2>1. ThreadsStay(t) /\ pc'[t] \in {"idle", "dispatch"}
    BY <1>6, ReturnStays DEF BecomeSecure
  <2> QED
    BY <1>6, <2>1, StrandKept, QuietStepKeeps
       DEF BecomeSecure, QuietStep, OwnerRuns, operationVars, ownerVars,
           DeleteOnce, NeverDeletedTwice
<1>7. CASE HandleTlsShutdown(t)
  <2>1. CASE Fail("exception")
    BY <2>1, FailKeeps
  <2>2. CASE ~Fail("exception")
    BY <1>7, <2>2, StrandKept, MoveKeeps DEF HandleTlsShutdown, Places, ownerVars
  <2> QED
    BY <2>1, <2>2
<1>8. CASE UseAfterDelete(t)
  BY <1>8, FailKeeps DEF UseAfterDelete
<1> QED
  BY <1>1, <1>3, <1>4, <1>5, <1>6, <1>7, <1>8 DEF HandlerStep

LEMMA StillKeeps ==
  ASSUME ReadOnce, DeleteOnce, readOp' # "none" => readOp # "none",
         UNCHANGED <<connectionVars, strand, threadVars, ownerVars, fault>>
  PROVE  ReadOnce' /\ DeleteOnce'
<1>1. PICK t \in Threads : TRUE
  BY ThreadsAssumption
<1> QED
  BY <1>1, StrandKept, ThreadsKeptStay, QuietStepKeeps
     DEF QuietStep, connectionVars, ownerVars, DeleteOnce, NeverDeletedTwice

LEMMA NetworkStepKeeps ==
  ASSUME ReadOnce, DeleteOnce, NetworkStep
  PROVE  ReadOnce' /\ DeleteOnce'
<1>1. readOp' # "none" => readOp # "none"
  BY DEF NetworkStep, ReadEnds, WriteEnds, HandshakeEnds, TlsShutdownEnds
<1> QED
  BY <1>1, StillKeeps DEF NetworkStep

-----------------------------------------------------------------------------
(* The invariant, and what follows from it.                                 *)

LEMMA InvInit == Init => Inv
<1> SUFFICES ASSUME Init PROVE Inv
  OBVIOUS
<1>1. /\ closeCallbacks = <<>> /\ strand = <<>> /\ readOp = "none"
      /\ issued = 0 /\ answered = 0 /\ ~deleted /\ fault = "none"
      /\ \A t \in Threads : cb[t] = "none" /\ todo[t] = <<>>
  BY DEF Init
<1>2. PICK s \in Threads : \A t \in Threads : pc[t] = IF t = s THEN "process" ELSE "idle"
  BY DEF Init
<1>3. ASSUME NEW c \in Callbacks PROVE KeptOnce(c) /\ \A t \in Threads : ~InThread(t, c)
  BY <1>1, HasEmpty DEF KeptOnce, InThread, Callbacks
<1>4. ReadOnce
  <2>1. /\ KeptOnce("read") /\ Once(strand, "read") /\ ~Has(strand, "read")
        /\ ~Has(closeCallbacks, "read")
        /\ \A t \in Threads : ~HasRead(t) /\ (OwnerRuns(t) => t = s)
    BY <1>1, <1>2, <1>3, HasEmpty DEF Callbacks, HasRead, OwnerRuns
  <2> QED
    BY <1>1, <2>1 DEF ReadOnce, HasRead, AnsweredAtMostOnce
<1>5. DeleteOnce
  BY <1>1, <1>3, HasEmpty DEF DeleteOnce, NeverDeletedTwice, Callbacks
<1> QED
  BY <1>4, <1>5, TypeInit DEF Inv

LEMMA InvStep == Inv /\ [Next]_vars => Inv'
<1> SUFFICES ASSUME Inv, [Next]_vars PROVE Inv'
  OBVIOUS
<1> USE DEF Inv
<1>1. CASE NetworkStep
  BY <1>1, TypeStep, NetworkStepKeeps
<1>2. ASSUME NEW t \in Threads, ThreadStep(t) PROVE Inv'
  BY <1>2, TypeStep, OwnerStepKeeps, CloseStepKeeps, StrandStepKeeps, HandlerStepKeeps
     DEF ThreadStep
<1>3. CASE UNCHANGED vars
  BY <1>3, TypeStep, StillKeeps DEF vars, operationVars
<1> QED
  BY <1>1, <1>2, <1>3 DEF Next

(* A pending read is in one place at a time, on its way from read() to its    *)
(* callback, and so is the owner's delete callback from close() to its call, *)
(* whatever the threads do (TcpConnection.cpp:58-116, 160-206).              *)
THEOREM InvCorrect == Spec => []Inv
<1>1. Init => Inv
  BY InvInit
<1>2. Inv /\ [Next]_vars => Inv'
  BY InvStep
<1> QED
  BY <1>1, <1>2, PTL DEF Spec

(* No read is answered twice and none is issued while one is unanswered,      *)
(* however many threads read, fail, close and run callbacks at once          *)
(* (TcpConnection.cpp:58-116).                                               *)
THEOREM AnsweredOnce == Spec => []AnsweredAtMostOnce
<1>1. Inv => AnsweredAtMostOnce
  BY DEF Inv, ReadOnce
<1> QED
  BY <1>1, InvCorrect, PTL

(* The connection is deleted at most once, however many threads close it      *)
(* (TcpConnection.cpp:7-14, 160-168; ClientSession.cpp:47-63).               *)
THEOREM DeletedOnce == Spec => []NeverDeletedTwice
<1>1. Inv => NeverDeletedTwice
  BY DEF Inv, DeleteOnce
<1> QED
  BY <1>1, InvCorrect, PTL

-----------------------------------------------------------------------------
(* The invariant behind what follows, for which one thread runs the handlers *)
(* and the owner upgrades at most once.  Thread t is the only one, so what   *)
(* it does from one handler to the next nobody sees half done.               *)

Handshaking == handshakes[1] # "none"
Negotiates(t) == pc[t] \in {"handshaken", "refused", "secure"}
IsClosing == state = "CLOSING"
IsClosed == state = "CLOSED"

(* The one upgrade is on its way to the strand, or has made the one stream.  *)
UpgradedOnce ==
  /\ upgrades \in {0, 1} /\ streams \in {0, 1}
  /\ Once(strand, "upgrade")
  /\ Has(strand, "upgrade") => upgrades = 1 /\ streams = 0
  /\ streams = 1 => upgrades = 1

(* A handshake that has not been handled to its end keeps the connection     *)
(* from being CLOSED, and its descriptor open.                               *)
HandshakeKeeps(t) ==
  /\ handshaking <=> Handshaking
  /\ Handshaking \/ Negotiates(t) => /\ streams = 1 /\ socket = "open"
                                     /\ state \in {"INSECURE", "CLOSING"}
  /\ Negotiates(t) => ~Handshaking
  /\ pc[t] = "secure" => IsOpen
  /\ state = "SECURE" => streams = 1
  /\ tlsClosing = 0 /\ tlsClosed = 0

(* The places of close() and of its end know the state.                      *)
PlacesKnowState(t) ==
  /\ IsOpen => socket = "open"
  /\ pc[t] = "stillOpen" => ~IsClosed
  /\ pc[t] \in {"push", "closing"} => IsOpen
  /\ pc[t] \in {"ended", "announce"} => ~IsOpen
  /\ pc[t] \in {"waiting", "join"} => IsClosing
  /\ pc[t] \in {"announce", "collect", "dispatch"} => ~Handshaking
  /\ pc[t] \in {"collect", "dispatch"} => IsClosed
  /\ todo[t] # <<>> => IsClosed /\ pc[t] \in {"dispatch", "aborted", "close", "ended"}
  /\ pc[t] = "dispatch" => todo[t] # <<>>
  /\ cb[t] # "none" => pc[t] \in {"close", "stillOpen", "push", "ended", "waiting", "join"}
  /\ deleted => IsClosed
  /\ Has(strand, "close") => ~IsOpen

(* A session stops only on the way into close(), or closed.                  *)
StoppedCloses(t) ==
  /\ released => stopped
  /\ Has(strand, "cancel") => stopped
  /\ stopped => /\ IsOpen => pc[t] \in {"close", "stillOpen", "push", "closing"}
                /\ pc[t] \notin {"tokens", "process", "read"}

(* A close that has begun has what ends it, and callbacks wait for that end. *)
CloseEnds(t) ==
  /\ IsClosing => \/ Has(strand, "close")
                  \/ Handshaking
                  \/ pc[t] \in {"handshaken", "refused", "announce"}
  /\ closeCallbacks # <<>> => IsClosing \/ pc[t] \in {"closing", "collect"}

(* Until the owner lets go it runs or has a read to wake it; then there is   *)
(* the callback that deletes the connection.                                 *)
NothingLost(t) ==
  /\ ~released => \/ OwnerRuns(t) \/ HasRead(t)
                  \/ Has(strand, "read") \/ readOp # "none" \/ Has(closeCallbacks, "read")
  /\ released /\ ~deleted => Has(closeCallbacks, "delete") \/ InThread(t, "delete")

Alone(t) ==
  /\ UpgradedOnce /\ HandshakeKeeps(t) /\ PlacesKnowState(t)
  /\ StoppedCloses(t) /\ CloseEnds(t) /\ NothingLost(t)
  /\ fault \notin {"exception", "lost_stream"}


-----------------------------------------------------------------------------
(* What posting a handler to the strand and taking one from it change.       *)

LEMMA HasTail ==
  ASSUME NEW S, NEW s \in Seq(S), s # <<>>, NEW x, Has(s, x), Head(s) # x
  PROVE  Has(Tail(s), x)
<1>1. PICK i \in 1 .. Len(s) : s[i] = x
  BY DEF Has
<1>2. i # 1 /\ i - 1 \in 1 .. Len(Tail(s)) /\ Tail(s)[i - 1] = s[i]
  BY <1>1
<1> QED
  BY <1>1, <1>2 DEF Has

LEMMA TailHas ==
  ASSUME NEW S, NEW s \in Seq(S), s # <<>>, NEW x, Has(Tail(s), x)
  PROVE  Has(s, x)
<1>1. PICK i \in 1 .. Len(Tail(s)) : Tail(s)[i] = x
  BY DEF Has
<1>2. i + 1 \in 1 .. Len(s) /\ Tail(s)[i] = s[i + 1]
  OBVIOUS
<1> QED
  BY <1>1, <1>2 DEF Has

LEMMA PostQueue ==
  ASSUME TypeOK, NEW h \in Handlers, Post(h)
  PROVE  /\ \A x : Has(strand, x)' <=> Has(strand, x) \/ x = h
         /\ Once(strand, "upgrade") /\ ~(h = "upgrade" /\ Has(strand, "upgrade"))
              => Once(strand, "upgrade")'
<1>1. strand \in Seq(Handlers) /\ strand' = Append(strand, h)
  BY DEF TypeOK, Post
<1>2. \A x : Has(Append(strand, h), x) <=> Has(strand, x) \/ x = h
  BY <1>1, HasAppend
<1>3. Once(strand, "upgrade") /\ ~(h = "upgrade" /\ Has(strand, "upgrade"))
        => Once(Append(strand, h), "upgrade")
  BY <1>1, OnceAppend
<1> QED
  BY <1>1, <1>2, <1>3

LEMMA TakeQueue ==
  ASSUME TypeOK, NEW t \in Threads, NEW h \in Handlers, TakeFromStrand(t, h)
  PROVE  /\ Has(strand, h)
         /\ \A x : Has(strand, x)' => Has(strand, x)
         /\ \A x : Has(strand, x) /\ x # h => Has(strand, x)'
         /\ Once(strand, "upgrade") => /\ Once(strand, "upgrade")'
                                       /\ h = "upgrade" => ~Has(strand, "upgrade")'
<1>1. /\ strand \in Seq(Handlers) /\ strand # <<>> /\ Head(strand) = h
      /\ strand' = Tail(strand)
  BY DEF TypeOK, TakeFromStrand
<1>2. Has(strand, h)
  BY <1>1, HasHead
<1>3. \A x : Has(Tail(strand), x) => Has(strand, x)
  BY <1>1, TailHas
<1>4. \A x : Has(strand, x) /\ x # h => Has(Tail(strand), x)
  BY <1>1, HasTail
<1>5. Once(strand, "upgrade") => /\ Once(Tail(strand), "upgrade")
                                 /\ h = "upgrade" => ~Has(Tail(strand), "upgrade")
  BY <1>1, TailFewer
<1> QED
  BY <1>1, <1>2, <1>3, <1>4, <1>5

(* The types of what a step of the one thread reads and writes.              *)
FieldTypes ==
  /\ pc \in [Threads -> Places] /\ cb \in [Threads -> Callbacks \cup {"none"}]
  /\ todo \in [Threads -> Seq(Callbacks)]
  /\ handshakes \in [1 .. 1 -> {"none", "inflight", "ok", "error"}]
  /\ state \in States /\ fault \in Faults
  /\ upgrades \in Nat /\ streams \in Nat /\ tlsClosing \in Nat /\ tlsClosed \in Nat

LEMMA TypedFields ==
  ASSUME MaxUpgrades = 1, TypeOK
  PROVE  FieldTypes
  BY DEF FieldTypes, TypeOK, ConnectionTypes, OperationTypes, ThreadTypes, OwnerTypes


(* A callback is called, by a thread that has just left the way into close() *)
(* or is in the loop over the callbacks.                                     *)
LEMMA CallAlone ==
  ASSUME MaxUpgrades = 1, TypeOK, DeleteOnce, NEW t \in Threads, Alone(t),
         NEW callback \in Callbacks, NEW rest \in Seq(Callbacks), Call(t, callback, rest),
         pc[t] \in {"read", "ended", "dispatch"}, ~IsOpen,
         callback = "delete" \/ rest # <<>> => IsClosed,
         callback = "delete" => InThread(t, "delete"),
         callback # "delete" /\ InThread(t, "delete") => Has(rest, "delete")
  PROVE  Alone(t)'
<1> USE DEF UpgradedOnce, HandshakeKeeps, PlacesKnowState, StoppedCloses, CloseEnds, NothingLost,
            IsOpen, IsClosing, IsClosed, Handshaking, Negotiates, FieldTypes
<1>t. FieldTypes
  BY TypedFields

<1>h. /\ \A x : Has(strand, x)' <=> Has(strand, x)
      /\ Once(strand, "upgrade")'
  BY DEF Alone, Call
<1>r. callback = "delete" => released /\ ~deleted
  BY DEF DeleteOnce
<1>1. CASE callback = "read"
  <2>1. /\ pc'[t] = "aborted" /\ cb'[t] = "none" /\ todo'[t] = rest
        /\ UNCHANGED <<connectionVars, operationVars, stopped, released, upgrades, fault>>
    BY <1>t, <1>1 DEF Call
  <2> USE DEF connectionVars, operationVars
  <2>2. UpgradedOnce' /\ HandshakeKeeps(t)'
    BY <1>h, <2>1 DEF Alone
  <2>3. PlacesKnowState(t)' /\ StoppedCloses(t)'
    BY <1>h, <2>1 DEF Alone
  <2>4. CloseEnds(t)'
    BY <1>h, <2>1 DEF Alone
  <2>5. NothingLost(t)'
    BY <1>1, <1>h, <2>1 DEF Alone, OwnerRuns, InThread
  <2> QED
    BY <2>1, <2>2, <2>3, <2>4, <2>5 DEF Alone
<1>2. CASE callback = "delete"
  <2>1. /\ pc'[t] = IF rest = <<>> THEN "idle" ELSE "dispatch"
        /\ cb'[t] = "none" /\ todo'[t] = rest /\ deleted'
        /\ UNCHANGED <<state, streams, handshaking, closeCallbacks, ownerVars>>
    BY <1>t, <1>2 DEF Call, Return
  <2>2. IsClosed /\ ~Handshaking
    BY <1>2 DEF Alone
  <2>3. handshakes'[1] = "none" /\ tlsClosing' = 0 /\ tlsClosed' = 0
    BY <1>t, <1>2, <2>2 DEF Alone, Call, AbortOperations
  <2>4. UNCHANGED fault
    BY <1>2, <1>r DEF Call
  <2> USE DEF ownerVars
  <2>5. UpgradedOnce' /\ HandshakeKeeps(t)'
    BY <1>h, <2>1, <2>2, <2>3 DEF Alone
  <2>6. PlacesKnowState(t)' /\ StoppedCloses(t)'
    BY <1>2, <1>h, <2>1, <2>2, <2>3 DEF Alone
  <2>7. CloseEnds(t)'
    BY <1>h, <2>1, <2>2 DEF Alone
  <2>8. NothingLost(t)'
    BY <1>2, <1>r, <2>1 DEF Alone
  <2> QED
    BY <2>4, <2>5, <2>6, <2>7, <2>8 DEF Alone
<1> QED
  BY <1>1, <1>2 DEF Callbacks

LEMMA ReadAlone ==
  ASSUME MaxUpgrades = 1, TypeOK, DeleteOnce, NEW t \in Threads, Alone(t), Read(t)
  PROVE  Alone(t)'
<1>1. pc[t] = "read" /\ cb[t] = "none" /\ todo[t] = <<>>
  BY DEF Alone, Read, Uses, PlacesKnowState
<1>2. CASE IsOpen
  <2> USE DEF UpgradedOnce, HandshakeKeeps, PlacesKnowState, StoppedCloses, CloseEnds, NothingLost,
              IsOpen, IsClosing, IsClosed, Handshaking, Negotiates,
              connectionVars, operationVars, ownerVars
  <2>1. /\ pc'[t] = "idle" /\ cb'[t] = "none" /\ todo'[t] = <<>> /\ Post("read")
        /\ UNCHANGED <<connectionVars, operationVars, ownerVars, fault>>
    BY <1>1, <1>2 DEF TypeOK, ThreadTypes, Read, Return
  <2>2. /\ \A x : Has(strand, x)' <=> Has(strand, x) \/ x = "read"
        /\ Once(strand, "upgrade")'
    BY <2>1, PostQueue DEF Alone, Handlers
  <2>3. UpgradedOnce' /\ HandshakeKeeps(t)'
    BY <2>1, <2>2 DEF Alone
  <2>4. PlacesKnowState(t)' /\ StoppedCloses(t)'
    BY <1>1, <2>1, <2>2 DEF Alone
  <2>5. CloseEnds(t)'
    BY <1>1, <2>1, <2>2 DEF Alone
  <2>6. NothingLost(t)'
    BY <1>1, <2>1, <2>2 DEF Alone
  <2> QED
    BY <2>1, <2>3, <2>4, <2>5, <2>6 DEF Alone
<1>3. CASE ~IsOpen
  <2>1. Call(t, "read", todo[t])
    BY <1>3 DEF Read
  <2>2. ~InThread(t, "delete")
    BY <1>1, HasEmpty DEF InThread
  <2>3. todo[t] \in Seq(Callbacks) /\ "read" \in Callbacks
    BY DEF TypeOK, ThreadTypes, Callbacks
  <2> QED
    BY <1>1, <1>3, <2>1, <2>2, <2>3, CallAlone
<1> QED
  BY <1>2, <1>3

LEMMA CloseEndedAlone ==
  ASSUME MaxUpgrades = 1, TypeOK, DeleteOnce, NEW t \in Threads, Alone(t), CloseEnded(t)
  PROVE  Alone(t)'
<1>1. /\ pc[t] = "ended" /\ ~IsOpen
      /\ todo[t] # <<>> => IsClosed
  BY DEF Alone, CloseEnded, Uses, PlacesKnowState
<1>2. todo[t] \in Seq(Callbacks) /\ cb[t] \in Callbacks \cup {"none"}
  BY DEF TypeOK, ThreadTypes
<1>3. CASE cb[t] # "none" /\ IsClosed
  <2>1. Call(t, cb[t], todo[t])
    BY <1>3 DEF CloseEnded, IsClosed
  <2>2. /\ cb[t] = "delete" => InThread(t, "delete")
        /\ cb[t] # "delete" /\ InThread(t, "delete") => Has(todo[t], "delete")
    BY DEF InThread
  <2> QED
    BY <1>1, <1>2, <1>3, <2>1, <2>2, CallAlone
<1>4. CASE cb[t] = "none" \/ ~IsClosed
  <2> USE DEF UpgradedOnce, HandshakeKeeps, PlacesKnowState, StoppedCloses, CloseEnds, NothingLost,
              IsOpen, IsClosing, IsClosed, Handshaking, Negotiates,
              connectionVars, operationVars, ownerVars
  <2>1. /\ UNCHANGED <<connectionVars, strand, operationVars, ownerVars, fault>>
        /\ todo'[t] = todo[t] /\ cb'[t] = cb[t]
        /\ \/ /\ cb[t] = "none"
              /\ pc'[t] = IF todo[t] = <<>> THEN "idle" ELSE "dispatch"
           \/ ~IsClosed /\ pc'[t] = "waiting"
    BY <1>1, <1>4 DEF TypeOK, ThreadTypes, CloseEnded, Idle, Return, Go
  <2>2. /\ \A x : Has(strand, x)' <=> Has(strand, x)
        /\ Once(strand, "upgrade")'
    BY <2>1 DEF Alone
  <2>3. UpgradedOnce' /\ HandshakeKeeps(t)'
    BY <1>1, <2>1, <2>2 DEF Alone
  <2>4. PlacesKnowState(t)' /\ StoppedCloses(t)'
    BY <1>1, <2>1, <2>2 DEF Alone, TypeOK, ConnectionTypes, States
  <2>5. CloseEnds(t)'
    BY <1>1, <2>1, <2>2 DEF Alone
  <2>6. NothingLost(t)'
    BY <1>1, <2>1, <2>2 DEF Alone, OwnerRuns, HasRead, InThread
  <2> QED
    BY <2>1, <2>3, <2>4, <2>5, <2>6 DEF Alone
<1> QED
  BY <1>3, <1>4

LEMMA CallNextAlone ==
  ASSUME MaxUpgrades = 1, TypeOK, DeleteOnce, NEW t \in Threads, Alone(t), CallNext(t)
  PROVE  Alone(t)'
<1> DEFINE first == Head(todo[t])
<1>1. /\ pc[t] = "dispatch" /\ IsClosed /\ ~IsOpen /\ cb[t] = "none" /\ todo[t] # <<>>
      /\ todo[t] \in Seq(Callbacks)
  BY DEF Alone, CallNext, At, PlacesKnowState, IsClosed, IsOpen, TypeOK, ThreadTypes
<1>2. first \in Callbacks /\ Tail(todo[t]) \in Seq(Callbacks)
  BY <1>1
<1>3. Has(todo[t], first)
  BY <1>1, HasHead
<1>4. first = "delete" => InThread(t, "delete")
  BY <1>3 DEF InThread
<1>5. first # "delete" /\ InThread(t, "delete") => Has(Tail(todo[t]), "delete")
  BY <1>1, HasTail DEF InThread
<1>6. Call(t, first, Tail(todo[t]))
  BY DEF CallNext
<1> QED
  BY <1>1, <1>2, <1>4, <1>5, <1>6, CallAlone

(* What the network and a use of the deleted connection do.                  *)

LEMMA NetworkStepAlone ==
  ASSUME MaxUpgrades = 1, TypeOK, NEW t \in Threads, Alone(t), NetworkStep
  PROVE  Alone(t)'
<1> USE DEF UpgradedOnce, HandshakeKeeps, PlacesKnowState, StoppedCloses, CloseEnds, NothingLost,
            IsOpen, IsClosing, IsClosed, Handshaking, Negotiates,
            connectionVars, threadVars, ownerVars
<1>1. /\ UNCHANGED <<connectionVars, strand, threadVars, ownerVars, fault>>
      /\ \A x : Has(strand, x)' <=> Has(strand, x)
      /\ Once(strand, "upgrade")'
  BY DEF Alone, NetworkStep
<1>2. /\ handshakes'[1] = "none" <=> handshakes[1] = "none"
      /\ readOp # "none" => readOp' # "none"
      /\ tlsClosing' = 0 /\ tlsClosed' = 0
  <2>1. handshakes \in [1 .. 1 -> {"none", "inflight", "ok", "error"}]
    BY DEF TypeOK, OperationTypes
  <2>2. tlsClosing = 0 /\ tlsClosed = 0
    BY DEF Alone
  <2>3. CASE ReadEnds
    BY <2>2, <2>3 DEF ReadEnds
  <2>4. CASE WriteEnds
    BY <2>2, <2>4 DEF WriteEnds
  <2>5. CASE HandshakeEnds
    BY <2>1, <2>2, <2>5 DEF HandshakeEnds
  <2>6. ~TlsShutdownEnds
    BY <2>2 DEF TlsShutdownEnds
  <2> QED
    BY <2>3, <2>4, <2>5, <2>6 DEF NetworkStep
<1>3. UpgradedOnce' /\ HandshakeKeeps(t)'
  BY <1>1, <1>2 DEF Alone
<1>4. PlacesKnowState(t)' /\ StoppedCloses(t)'
  BY <1>1, <1>2 DEF Alone
<1>5. CloseEnds(t)' /\ NothingLost(t)'
  BY <1>1, <1>2 DEF Alone, OwnerRuns, HasRead, InThread
<1> QED
  BY <1>1, <1>3, <1>4, <1>5 DEF Alone

LEMMA StillAlone ==
  ASSUME NEW t \in Threads, Alone(t),
         UNCHANGED <<connectionVars, strand, operationVars, threadVars, ownerVars>>,
         fault' \notin {"exception", "lost_stream"}
  PROVE  Alone(t)'
  BY DEF Alone, UpgradedOnce, HandshakeKeeps, PlacesKnowState, StoppedCloses, CloseEnds,
         NothingLost,
         IsOpen, IsClosing, IsClosed, Handshaking, Negotiates, OwnerRuns, HasRead, InThread,
         connectionVars, operationVars, threadVars, ownerVars, Has, Once


-----------------------------------------------------------------------------
(* One lemma for each action: what it does to the strand, then to each part  *)
(* of the invariant.                                                         *)

(* The callback of a read that failed finds the session still there or lets go.*)
LEMMA AbortedAlone ==
  ASSUME MaxUpgrades = 1, TypeOK, NEW t \in Threads, Alone(t), Aborted(t)
  PROVE  Alone(t)'
<1> USE DEF UpgradedOnce, HandshakeKeeps, PlacesKnowState, StoppedCloses, CloseEnds,
        NothingLost,
            IsOpen, IsClosing, IsClosed, Handshaking, Negotiates, FieldTypes,
            connectionVars, operationVars, ownerVars, threadVars
<1>t. FieldTypes
  BY TypedFields
<1>s. strand' = strand \/ Post("cancel")
  BY DEF Aborted, GiveUp, Idle, Shutdown, Close, Return, At
<1>h. /\ \A x : Has(strand, x) => Has(strand, x)'
      /\ \A x : Has(strand, x)' => Has(strand, x) \/ (x = "cancel" /\ Post("cancel"))
      /\ Once(strand, "upgrade")'
  BY <1>s, PostQueue DEF Alone, Aborted, GiveUp, Idle, Shutdown, Close, Return, At, Handlers
<1>1. UpgradedOnce' /\ HandshakeKeeps(t)'
  BY <1>t, <1>h DEF Alone, Aborted, GiveUp, Idle, Shutdown, Close, Return, At
<1>2. PlacesKnowState(t)' /\ StoppedCloses(t)'
  BY <1>t, <1>h DEF Alone, Aborted, GiveUp, Idle, Shutdown, Close, Return, At
<1>3. CloseEnds(t)' /\ NothingLost(t)'
  BY <1>t, <1>h DEF Alone, Aborted, GiveUp, Idle, Shutdown, Close, Return, At, OwnerRuns,
     HasRead, InThread
<1>4. fault' \notin {"exception", "lost_stream"}
  BY <1>t, <1>h DEF Alone, Aborted, GiveUp, Idle, Shutdown, Close, Return, At
<1> QED
  BY <1>1, <1>2, <1>3, <1>4 DEF Alone

(* Data for a stopped session makes it let go.                             *)
LEMMA ReceivedAlone ==
  ASSUME MaxUpgrades = 1, TypeOK, NEW t \in Threads, Alone(t), Received(t)
  PROVE  Alone(t)'
<1> USE DEF UpgradedOnce, HandshakeKeeps, PlacesKnowState, StoppedCloses, CloseEnds,
        NothingLost,
            IsOpen, IsClosing, IsClosed, Handshaking, Negotiates, FieldTypes,
            connectionVars, operationVars, ownerVars, threadVars
<1>t. FieldTypes
  BY TypedFields
<1>s. strand' = strand \/ Post("cancel")
  BY DEF Received, GiveUp, Idle, Shutdown, Close, Return, At, Go
<1>h. /\ \A x : Has(strand, x) => Has(strand, x)'
      /\ \A x : Has(strand, x)' => Has(strand, x) \/ (x = "cancel" /\ Post("cancel"))
      /\ Once(strand, "upgrade")'
  BY <1>s, PostQueue DEF Alone, Received, GiveUp, Idle, Shutdown, Close, Return, At, Go,
     Handlers
<1>1. UpgradedOnce' /\ HandshakeKeeps(t)'
  BY <1>t, <1>h DEF Alone, Received, GiveUp, Idle, Shutdown, Close, Return, At, Go
<1>2. PlacesKnowState(t)' /\ StoppedCloses(t)'
  BY <1>t, <1>h DEF Alone, Received, GiveUp, Idle, Shutdown, Close, Return, At, Go
<1>3. CloseEnds(t)' /\ NothingLost(t)'
  BY <1>t, <1>h DEF Alone, Received, GiveUp, Idle, Shutdown, Close, Return, At, Go, OwnerRuns,
     HasRead, InThread
<1>4. fault' \notin {"exception", "lost_stream"}
  BY <1>t, <1>h DEF Alone, Received, GiveUp, Idle, Shutdown, Close, Return, At, Go
<1> QED
  BY <1>1, <1>2, <1>3, <1>4 DEF Alone

(* A write is posted while the connection is open.                         *)
LEMMA WriteAlone ==
  ASSUME MaxUpgrades = 1, TypeOK, NEW t \in Threads, Alone(t), Write(t)
  PROVE  Alone(t)'
<1> USE DEF UpgradedOnce, HandshakeKeeps, PlacesKnowState, StoppedCloses, CloseEnds,
        NothingLost,
            IsOpen, IsClosing, IsClosed, Handshaking, Negotiates, FieldTypes,
            connectionVars, operationVars, ownerVars, threadVars
<1>t. FieldTypes
  BY TypedFields
<1>s. strand' = strand \/ Post("write")
  BY DEF Write, At
<1>h. /\ \A x : Has(strand, x) => Has(strand, x)'
      /\ \A x : Has(strand, x)' => Has(strand, x) \/ (x = "write" /\ Post("write"))
      /\ Once(strand, "upgrade")'
  BY <1>s, PostQueue DEF Alone, Write, At, Handlers
<1>1. UpgradedOnce' /\ HandshakeKeeps(t)'
  BY <1>t, <1>h DEF Alone, Write, At
<1>2. PlacesKnowState(t)' /\ StoppedCloses(t)'
  BY <1>t, <1>h DEF Alone, Write, At
<1>3. CloseEnds(t)' /\ NothingLost(t)'
  BY <1>t, <1>h DEF Alone, Write, At, OwnerRuns, HasRead, InThread
<1>4. fault' \notin {"exception", "lost_stream"}
  BY <1>t, <1>h DEF Alone, Write, At
<1> QED
  BY <1>1, <1>2, <1>3, <1>4 DEF Alone

(* The one upgrade is posted; there is no stream yet.                      *)
LEMMA UpgradeAlone ==
  ASSUME MaxUpgrades = 1, TypeOK, NEW t \in Threads, Alone(t), Upgrade(t)
  PROVE  Alone(t)'
<1> USE DEF UpgradedOnce, HandshakeKeeps, PlacesKnowState, StoppedCloses, CloseEnds,
        NothingLost,
            IsOpen, IsClosing, IsClosed, Handshaking, Negotiates, FieldTypes,
            connectionVars, operationVars, ownerVars, threadVars
<1>t. FieldTypes
  BY TypedFields
<1>s. strand' = strand \/ Post("upgrade")
  BY DEF Upgrade, At
<1>h. /\ \A x : Has(strand, x) => Has(strand, x)'
      /\ \A x : Has(strand, x)' => Has(strand, x) \/ (x = "upgrade" /\ Post("upgrade"))
      /\ Once(strand, "upgrade")'
  BY <1>s, PostQueue DEF Alone, Upgrade, At, Handlers
<1>1. UpgradedOnce' /\ HandshakeKeeps(t)'
  BY <1>t, <1>h DEF Alone, Upgrade, At
<1>2. PlacesKnowState(t)' /\ StoppedCloses(t)'
  BY <1>t, <1>h DEF Alone, Upgrade, At
<1>3. CloseEnds(t)' /\ NothingLost(t)'
  BY <1>t, <1>h DEF Alone, Upgrade, At, OwnerRuns, HasRead, InThread
<1>4. fault' \notin {"exception", "lost_stream"}
  BY <1>t, <1>h DEF Alone, Upgrade, At
<1> QED
  BY <1>1, <1>2, <1>3, <1>4 DEF Alone

(* A token makes the session let go: the deletion is on its way.           *)
LEMMA ShutdownOnTokenAlone ==
  ASSUME MaxUpgrades = 1, TypeOK, NEW t \in Threads, Alone(t), ShutdownOnToken(t)
  PROVE  Alone(t)'
<1> USE DEF UpgradedOnce, HandshakeKeeps, PlacesKnowState, StoppedCloses, CloseEnds,
        NothingLost,
            IsOpen, IsClosing, IsClosed, Handshaking, Negotiates, FieldTypes,
            connectionVars, operationVars, ownerVars, threadVars
<1>t. FieldTypes
  BY TypedFields
<1>s. strand' = strand \/ Post("cancel")
  BY DEF ShutdownOnToken, Shutdown, Close, At
<1>h. /\ \A x : Has(strand, x) => Has(strand, x)'
      /\ \A x : Has(strand, x)' => Has(strand, x) \/ (x = "cancel" /\ Post("cancel"))
      /\ Once(strand, "upgrade")'
  BY <1>s, PostQueue DEF Alone, ShutdownOnToken, Shutdown, Close, At, Handlers
<1>1. UpgradedOnce' /\ HandshakeKeeps(t)'
  BY <1>t, <1>h DEF Alone, ShutdownOnToken, Shutdown, Close, At
<1>2. PlacesKnowState(t)' /\ StoppedCloses(t)'
  BY <1>t, <1>h DEF Alone, ShutdownOnToken, Shutdown, Close, At
<1>3. CloseEnds(t)' /\ NothingLost(t)'
  BY <1>t, <1>h DEF Alone, ShutdownOnToken, Shutdown, Close, At, OwnerRuns, HasRead, InThread
<1>4. fault' \notin {"exception", "lost_stream"}
  BY <1>t, <1>h DEF Alone, ShutdownOnToken, Shutdown, Close, At
<1> QED
  BY <1>1, <1>2, <1>3, <1>4 DEF Alone

(* The tokens of one read are done.                                        *)
LEMMA TokensProcessedAlone ==
  ASSUME MaxUpgrades = 1, TypeOK, NEW t \in Threads, Alone(t), TokensProcessed(t)
  PROVE  Alone(t)'
<1> USE DEF UpgradedOnce, HandshakeKeeps, PlacesKnowState, StoppedCloses, CloseEnds,
        NothingLost,
            IsOpen, IsClosing, IsClosed, Handshaking, Negotiates, FieldTypes,
            connectionVars, operationVars, ownerVars, threadVars
<1>t. FieldTypes
  BY TypedFields
<1>s. strand' = strand
  BY DEF TokensProcessed, Go, At
<1>h. /\ \A x : Has(strand, x)' <=> Has(strand, x)
      /\ Once(strand, "upgrade")'
  BY <1>s DEF Alone
<1>1. UpgradedOnce' /\ HandshakeKeeps(t)'
  BY <1>t, <1>h DEF Alone, TokensProcessed, Go, At
<1>2. PlacesKnowState(t)' /\ StoppedCloses(t)'
  BY <1>t, <1>h DEF Alone, TokensProcessed, Go, At
<1>3. CloseEnds(t)' /\ NothingLost(t)'
  BY <1>t, <1>h DEF Alone, TokensProcessed, Go, At, OwnerRuns, HasRead, InThread
<1>4. fault' \notin {"exception", "lost_stream"}
  BY <1>t, <1>h DEF Alone, TokensProcessed, Go, At
<1> QED
  BY <1>1, <1>2, <1>3, <1>4 DEF Alone

(* The session, which is not stopped, asks for its next read.              *)
LEMMA ProcessAlone ==
  ASSUME MaxUpgrades = 1, TypeOK, NEW t \in Threads, Alone(t), Process(t)
  PROVE  Alone(t)'
<1> USE DEF UpgradedOnce, HandshakeKeeps, PlacesKnowState, StoppedCloses, CloseEnds,
        NothingLost,
            IsOpen, IsClosing, IsClosed, Handshaking, Negotiates, FieldTypes,
            connectionVars, operationVars, ownerVars, threadVars
<1>t. FieldTypes
  BY TypedFields
<1>s. strand' = strand
  BY DEF Process, Idle, Return, Go, At
<1>h. /\ \A x : Has(strand, x)' <=> Has(strand, x)
      /\ Once(strand, "upgrade")'
  BY <1>s DEF Alone
<1>1. UpgradedOnce' /\ HandshakeKeeps(t)'
  BY <1>t, <1>h DEF Alone, Process, Idle, Return, Go, At
<1>2. PlacesKnowState(t)' /\ StoppedCloses(t)'
  BY <1>t, <1>h DEF Alone, Process, Idle, Return, Go, At
<1>3. CloseEnds(t)' /\ NothingLost(t)'
  BY <1>t, <1>h DEF Alone, Process, Idle, Return, Go, At, OwnerRuns, HasRead, InThread
<1>4. fault' \notin {"exception", "lost_stream"}
  BY <1>t, <1>h DEF Alone, Process, Idle, Return, Go, At
<1> QED
  BY <1>1, <1>2, <1>3, <1>4 DEF Alone

(* close() looks whether the state is CLOSED.                              *)
LEMMA CheckClosedAlone ==
  ASSUME MaxUpgrades = 1, TypeOK, NEW t \in Threads, Alone(t), CheckClosed(t)
  PROVE  Alone(t)'
<1> USE DEF UpgradedOnce, HandshakeKeeps, PlacesKnowState, StoppedCloses, CloseEnds,
        NothingLost,
            IsOpen, IsClosing, IsClosed, Handshaking, Negotiates, FieldTypes,
            connectionVars, operationVars, ownerVars, threadVars
<1>t. FieldTypes
  BY TypedFields
<1>s. strand' = strand
  BY DEF CheckClosed, Uses, Go
<1>h. /\ \A x : Has(strand, x)' <=> Has(strand, x)
      /\ Once(strand, "upgrade")'
  BY <1>s DEF Alone
<1>1. UpgradedOnce' /\ HandshakeKeeps(t)'
  BY <1>t, <1>h DEF Alone, CheckClosed, Uses, Go
<1>2. PlacesKnowState(t)' /\ StoppedCloses(t)'
  BY <1>t, <1>h DEF Alone, CheckClosed, Uses, Go
<1>3. CloseEnds(t)' /\ NothingLost(t)'
  BY <1>t, <1>h DEF Alone, CheckClosed, Uses, Go, OwnerRuns, HasRead, InThread
<1>4. fault' \notin {"exception", "lost_stream"}
  BY <1>t, <1>h DEF Alone, CheckClosed, Uses, Go
<1> QED
  BY <1>1, <1>2, <1>3, <1>4 DEF Alone

(* close() looks whether the state is CLOSING: it is open if not.          *)
LEMMA CheckClosingAlone ==
  ASSUME MaxUpgrades = 1, TypeOK, NEW t \in Threads, Alone(t), CheckClosing(t)
  PROVE  Alone(t)'
<1> USE DEF UpgradedOnce, HandshakeKeeps, PlacesKnowState, StoppedCloses, CloseEnds,
        NothingLost,
            IsOpen, IsClosing, IsClosed, Handshaking, Negotiates, FieldTypes,
            connectionVars, operationVars, ownerVars, threadVars
<1>t. FieldTypes
  BY TypedFields
<1>s. strand' = strand
  BY DEF CheckClosing, Uses, Go
<1>h. /\ \A x : Has(strand, x)' <=> Has(strand, x)
      /\ Once(strand, "upgrade")'
  BY <1>s DEF Alone
<1>1. UpgradedOnce' /\ HandshakeKeeps(t)'
  BY <1>t, <1>h DEF Alone, CheckClosing, Uses, Go
<1>2. PlacesKnowState(t)' /\ StoppedCloses(t)'
  BY <1>t, <1>h DEF Alone, CheckClosing, Uses, Go
<1>3. CloseEnds(t)' /\ NothingLost(t)'
  BY <1>t, <1>h DEF Alone, CheckClosing, Uses, Go, OwnerRuns, HasRead, InThread
<1>4. fault' \notin {"exception", "lost_stream"}
  BY <1>t, <1>h DEF Alone, CheckClosing, Uses, Go
<1> QED
  BY <1>1, <1>2, <1>3, <1>4 DEF Alone

(* The callback waits for the close that is about to begin.                *)
LEMMA PushCallbackAlone ==
  ASSUME MaxUpgrades = 1, TypeOK, NEW t \in Threads, Alone(t), PushCallback(t)
  PROVE  Alone(t)'
<1> USE DEF UpgradedOnce, HandshakeKeeps, PlacesKnowState, StoppedCloses, CloseEnds,
        NothingLost,
            IsOpen, IsClosing, IsClosed, Handshaking, Negotiates, FieldTypes,
            connectionVars, operationVars, ownerVars, threadVars
<1>t. FieldTypes
  BY TypedFields
<1>s. strand' = strand
  BY DEF PushCallback, Uses
<1>h. /\ \A x : Has(strand, x)' <=> Has(strand, x)
      /\ Once(strand, "upgrade")'
  BY <1>s DEF Alone
<1>a. cb[t] # "none" =>
        \A x : Has(closeCallbacks, x)' <=> Has(closeCallbacks, x) \/ x = cb[t]
  <2>1. closeCallbacks \in Seq(Callbacks) /\ cb[t] \in Callbacks \cup {"none"}
    BY DEF TypeOK, ConnectionTypes, ThreadTypes
  <2>2. cb[t] \in Callbacks =>
          \A x : Has(Append(closeCallbacks, cb[t]), x) <=> Has(closeCallbacks, x) \/ x = cb[t]
    BY <2>1, HasAppend
  <2> QED
    BY <2>1, <2>2 DEF PushCallback, Uses
<1>1. UpgradedOnce' /\ HandshakeKeeps(t)'
  BY <1>t, <1>h DEF Alone, PushCallback, Uses
<1>2. PlacesKnowState(t)' /\ StoppedCloses(t)'
  BY <1>t, <1>h DEF Alone, PushCallback, Uses
<1>3. CloseEnds(t)' /\ NothingLost(t)'
  BY <1>t, <1>h, <1>a DEF Alone, PushCallback, Uses, OwnerRuns, HasRead, InThread
<1>4. fault' \notin {"exception", "lost_stream"}
  BY <1>t, <1>h DEF Alone, PushCallback, Uses
<1> QED
  BY <1>1, <1>2, <1>3, <1>4 DEF Alone

(* The state is CLOSING, and the handler that ends the close is posted.    *)
LEMMA StartClosingAlone ==
  ASSUME MaxUpgrades = 1, TypeOK, NEW t \in Threads, Alone(t), StartClosing(t)
  PROVE  Alone(t)'
<1> USE DEF UpgradedOnce, HandshakeKeeps, PlacesKnowState, StoppedCloses, CloseEnds,
        NothingLost,
            IsOpen, IsClosing, IsClosed, Handshaking, Negotiates, FieldTypes,
            connectionVars, operationVars, ownerVars, threadVars
<1>t. FieldTypes
  BY TypedFields
<1>s. strand' = strand \/ Post("close")
  BY DEF StartClosing, Uses, Return
<1>h. /\ \A x : Has(strand, x) => Has(strand, x)'
      /\ \A x : Has(strand, x)' => Has(strand, x) \/ (x = "close" /\ Post("close"))
      /\ Once(strand, "upgrade")'
      /\ Has(strand, "close")'
  BY <1>s, PostQueue DEF Alone, StartClosing, Uses, Return, Handlers
<1>1. UpgradedOnce' /\ HandshakeKeeps(t)'
  BY <1>t, <1>h DEF Alone, StartClosing, Uses, Return
<1>2. PlacesKnowState(t)' /\ StoppedCloses(t)'
  BY <1>t, <1>h DEF Alone, StartClosing, Uses, Return
<1>3. CloseEnds(t)' /\ NothingLost(t)'
  BY <1>t, <1>h DEF Alone, StartClosing, Uses, Return, OwnerRuns, HasRead, InThread
<1>4. fault' \notin {"exception", "lost_stream"}
  BY <1>t, <1>h DEF Alone, StartClosing, Uses, Return
<1> QED
  BY <1>1, <1>2, <1>3, <1>4 DEF Alone

(* The state is CLOSED, the session is stopped, no handshake is left.      *)
LEMMA AnnounceClosedAlone ==
  ASSUME MaxUpgrades = 1, TypeOK, NEW t \in Threads, Alone(t), AnnounceClosed(t)
  PROVE  Alone(t)'
<1> USE DEF UpgradedOnce, HandshakeKeeps, PlacesKnowState, StoppedCloses, CloseEnds,
        NothingLost,
            IsOpen, IsClosing, IsClosed, Handshaking, Negotiates, FieldTypes,
            connectionVars, operationVars, ownerVars, threadVars
<1>t. FieldTypes
  BY TypedFields
<1>s. strand' = strand \/ Post("cancel")
  BY DEF AnnounceClosed, Uses, Go
<1>h. /\ \A x : Has(strand, x) => Has(strand, x)'
      /\ \A x : Has(strand, x)' => Has(strand, x) \/ (x = "cancel" /\ Post("cancel"))
      /\ Once(strand, "upgrade")'
  BY <1>s, PostQueue DEF Alone, AnnounceClosed, Uses, Go, Handlers
<1>1. UpgradedOnce' /\ HandshakeKeeps(t)'
  BY <1>t, <1>h DEF Alone, AnnounceClosed, Uses, Go
<1>2. PlacesKnowState(t)' /\ StoppedCloses(t)'
  BY <1>t, <1>h DEF Alone, AnnounceClosed, Uses, Go
<1>3. CloseEnds(t)' /\ NothingLost(t)'
  BY <1>t, <1>h DEF Alone, AnnounceClosed, Uses, Go, OwnerRuns, HasRead, InThread
<1>4. fault' \notin {"exception", "lost_stream"}
  BY <1>t, <1>h DEF Alone, AnnounceClosed, Uses, Go
<1> QED
  BY <1>1, <1>2, <1>3, <1>4 DEF Alone

(* All waiting callbacks go to the thread that calls them.                 *)
LEMMA CollectCallbacksAlone ==
  ASSUME MaxUpgrades = 1, TypeOK, NEW t \in Threads, Alone(t), CollectCallbacks(t)
  PROVE  Alone(t)'
<1> USE DEF UpgradedOnce, HandshakeKeeps, PlacesKnowState, StoppedCloses, CloseEnds,
        NothingLost,
            IsOpen, IsClosing, IsClosed, Handshaking, Negotiates, FieldTypes,
            connectionVars, operationVars, ownerVars, threadVars
<1>t. FieldTypes
  BY TypedFields
<1>s. strand' = strand
  BY DEF CollectCallbacks, Uses, Return
<1>h. /\ \A x : Has(strand, x)' <=> Has(strand, x)
      /\ Once(strand, "upgrade")'
  BY <1>s DEF Alone
<1>1. UpgradedOnce' /\ HandshakeKeeps(t)'
  BY <1>t, <1>h DEF Alone, CollectCallbacks, Uses, Return
<1>2. PlacesKnowState(t)' /\ StoppedCloses(t)'
  BY <1>t, <1>h DEF Alone, CollectCallbacks, Uses, Return
<1>3. CloseEnds(t)' /\ NothingLost(t)'
  BY <1>t, <1>h DEF Alone, CollectCallbacks, Uses, Return, OwnerRuns, HasRead, InThread
<1>4. fault' \notin {"exception", "lost_stream"}
  BY <1>t, <1>h DEF Alone, CollectCallbacks, Uses, Return
<1> QED
  BY <1>1, <1>2, <1>3, <1>4 DEF Alone

(* The close that a callback finds begun has not ended.                     *)
LEMMA CloseWaitsAlone ==
  ASSUME MaxUpgrades = 1, TypeOK, NEW t \in Threads, Alone(t), CloseWaits(t)
  PROVE  Alone(t)'
<1> USE DEF UpgradedOnce, HandshakeKeeps, PlacesKnowState, StoppedCloses, CloseEnds,
        NothingLost,
            IsOpen, IsClosing, IsClosed, Handshaking, Negotiates, FieldTypes,
            connectionVars, operationVars, ownerVars, threadVars
<1>t. FieldTypes
  BY TypedFields
<1>s. strand' = strand
  BY DEF CloseWaits, Uses, Go, Return, Idle
<1>h. /\ \A x : Has(strand, x)' <=> Has(strand, x)
      /\ Once(strand, "upgrade")'
  BY <1>s DEF Alone
<1>1. UpgradedOnce' /\ HandshakeKeeps(t)'
  BY <1>t, <1>h DEF Alone, CloseWaits, Uses, Go, Return, Idle
<1>2. PlacesKnowState(t)' /\ StoppedCloses(t)'
  BY <1>t, <1>h DEF Alone, CloseWaits, Uses, Go, Return, Idle
<1>3. CloseEnds(t)' /\ NothingLost(t)'
  BY <1>t, <1>h DEF Alone, CloseWaits, Uses, Go, Return, Idle, OwnerRuns, HasRead, InThread
<1>4. fault' \notin {"exception", "lost_stream"}
  BY <1>t, <1>h DEF Alone, CloseWaits, Uses, Go, Return, Idle
<1> QED
  BY <1>1, <1>2, <1>3, <1>4 DEF Alone

(* A callback joins the others: the close they wait for has not ended.     *)
LEMMA JoinClosingAlone ==
  ASSUME MaxUpgrades = 1, TypeOK, NEW t \in Threads, Alone(t), JoinClosing(t)
  PROVE  Alone(t)'
<1> USE DEF UpgradedOnce, HandshakeKeeps, PlacesKnowState, StoppedCloses, CloseEnds,
        NothingLost,
            IsOpen, IsClosing, IsClosed, Handshaking, Negotiates, FieldTypes,
            connectionVars, operationVars, ownerVars, threadVars
<1>t. FieldTypes
  BY TypedFields
<1>s. strand' = strand
  BY DEF JoinClosing, Uses, Return
<1>h. /\ \A x : Has(strand, x)' <=> Has(strand, x)
      /\ Once(strand, "upgrade")'
  BY <1>s DEF Alone
<1>a. closeCallbacks' # closeCallbacks =>
        \A x : Has(closeCallbacks, x)' <=> Has(closeCallbacks, x) \/ x = cb[t]
  <2>1. closeCallbacks \in Seq(Callbacks) /\ cb[t] \in Callbacks \cup {"none"}
    BY DEF TypeOK, ConnectionTypes, ThreadTypes
  <2>2. cb[t] \in Callbacks =>
          \A x : Has(Append(closeCallbacks, cb[t]), x) <=> Has(closeCallbacks, x) \/ x = cb[t]
    BY <2>1, HasAppend
  <2> QED
    BY <2>1, <2>2 DEF JoinClosing, Uses, Return
<1>1. UpgradedOnce' /\ HandshakeKeeps(t)'
  BY <1>t, <1>h DEF Alone, JoinClosing, Uses, Return
<1>2. PlacesKnowState(t)' /\ StoppedCloses(t)'
  BY <1>t, <1>h DEF Alone, JoinClosing, Uses, Return
<1>3. CloseEnds(t)' /\ NothingLost(t)'
  BY <1>t, <1>h, <1>a DEF Alone, JoinClosing, Uses, Return, OwnerRuns, HasRead, InThread
<1>4. fault' \notin {"exception", "lost_stream"}
  BY <1>t, <1>h DEF Alone, JoinClosing, Uses, Return
<1> QED
  BY <1>1, <1>2, <1>3, <1>4 DEF Alone

(* The one handshake begins, on the one stream, with the descriptor open.  *)
LEMMA StrandUpgradeAlone ==
  ASSUME MaxUpgrades = 1, TypeOK, NEW t \in Threads, Alone(t), StrandUpgrade(t)
  PROVE  Alone(t)'
<1> USE DEF UpgradedOnce, HandshakeKeeps, PlacesKnowState, StoppedCloses, CloseEnds,
        NothingLost,
            IsOpen, IsClosing, IsClosed, Handshaking, Negotiates, FieldTypes,
            connectionVars, operationVars, ownerVars, threadVars
<1>t. FieldTypes
  BY TypedFields
<1>h. /\ Has(strand, "upgrade")
      /\ \A x : Has(strand, x)' => Has(strand, x)
      /\ \A x : Has(strand, x) /\ x # "upgrade" => Has(strand, x)'
      /\ Once(strand, "upgrade")'
      /\ ~Has(strand, "upgrade")'
  BY TakeQueue DEF Alone, StrandUpgrade, TakeFromStrand, Uses, HasStream, Handlers
<1>u. \/ UNCHANGED <<socket, streams, handshaking, operationVars>>
      \/ /\ IsOpen /\ state # "SECURE" /\ handshaking' = TRUE /\ streams' = 1
         /\ handshakes'[1] \in {"inflight", "error"}
         /\ UNCHANGED <<socket, tlsClosing, tlsClosed>>
  <2>1. streams = 0
    BY <1>h DEF Alone
  <2>2. ~HasStream
    BY <2>1 DEF HasStream
  <2>3. CASE ~IsOpen \/ state = "SECURE"
    BY <2>3 DEF StrandUpgrade
  <2>4. CASE IsOpen /\ state # "SECURE"
    <3>1. /\ handshaking' = TRUE /\ streams' = 1 /\ UNCHANGED <<socket, tlsClosing, tlsClosed>>
          /\ handshakes' = [handshakes EXCEPT ![1] =
                              IF socket = "open" THEN "inflight" ELSE "error"]
      BY <2>2, <2>4 DEF StrandUpgrade
    <3>2. handshakes'[1] \in {"inflight", "error"}
      <4>1. 1 \in DOMAIN handshakes
        BY <1>t
      <4> QED
        BY <3>1, <4>1
    <3> QED
      BY <2>4, <3>1, <3>2
  <2> QED
    BY <2>3, <2>4
<1>v. UNCHANGED <<state, pc, upgrades>> /\ pc[t] = "idle"
  BY DEF StrandUpgrade, TakeFromStrand, Uses
<1>1. UpgradedOnce' /\ HandshakeKeeps(t)'
  BY <1>t, <1>h, <1>u, <1>v DEF Alone, HasStream, States
<1>2. UNCHANGED <<todo, cb, deleted, stopped, released, closeCallbacks, readOp, fault>>
  <2>1. ~HasStream
    BY <1>h DEF Alone, HasStream
  <2> QED
    BY <2>1 DEF StrandUpgrade
<1>3. PlacesKnowState(t)' /\ StoppedCloses(t)'
  BY <1>h, <1>u, <1>v, <1>2 DEF Alone
<1>4. CloseEnds(t)' /\ NothingLost(t)'
  BY <1>h, <1>u, <1>v, <1>1, <1>2 DEF Alone, OwnerRuns, HasRead, InThread
<1> QED
  BY <1>1, <1>2, <1>3, <1>4 DEF Alone

(* The read begins or is answered with an error.                           *)
LEMMA StrandReadAlone ==
  ASSUME MaxUpgrades = 1, TypeOK, NEW t \in Threads, Alone(t), StrandRead(t)
  PROVE  Alone(t)'
<1> USE DEF UpgradedOnce, HandshakeKeeps, PlacesKnowState, StoppedCloses, CloseEnds,
        NothingLost,
            IsOpen, IsClosing, IsClosed, Handshaking, Negotiates, FieldTypes,
            connectionVars, operationVars, ownerVars, threadVars
<1>t. FieldTypes
  BY TypedFields
<1>h. /\ Has(strand, "read")
      /\ \A x : Has(strand, x)' => Has(strand, x)
      /\ \A x : Has(strand, x) /\ x # "read" => Has(strand, x)'
      /\ Once(strand, "upgrade")'
  BY TakeQueue DEF Alone, StrandRead, TakeFromStrand, Uses, SocketUsable, HasStream, Handlers
<1>1. UpgradedOnce' /\ HandshakeKeeps(t)'
  BY <1>t, <1>h DEF Alone, StrandRead, TakeFromStrand, Uses, SocketUsable, HasStream
<1>2. PlacesKnowState(t)' /\ StoppedCloses(t)'
  BY <1>t, <1>h DEF Alone, StrandRead, TakeFromStrand, Uses, SocketUsable, HasStream
<1>3. CloseEnds(t)' /\ NothingLost(t)'
  BY <1>t, <1>h DEF Alone, StrandRead, TakeFromStrand, Uses, SocketUsable, HasStream,
     OwnerRuns, HasRead, InThread
<1>4. fault' \notin {"exception", "lost_stream"}
  BY <1>t, <1>h DEF Alone, StrandRead, TakeFromStrand, Uses, SocketUsable, HasStream
<1> QED
  BY <1>1, <1>2, <1>3, <1>4 DEF Alone

(* cancel() is not called: the session that posted it closes.              *)
LEMMA StrandCancelAlone ==
  ASSUME MaxUpgrades = 1, TypeOK, NEW t \in Threads, Alone(t), StrandCancel(t)
  PROVE  Alone(t)'
<1> USE DEF UpgradedOnce, HandshakeKeeps, PlacesKnowState, StoppedCloses, CloseEnds,
        NothingLost,
            IsOpen, IsClosing, IsClosed, Handshaking, Negotiates, FieldTypes,
            connectionVars, operationVars, ownerVars, threadVars
<1>t. FieldTypes
  BY TypedFields
<1>h. /\ Has(strand, "cancel")
      /\ \A x : Has(strand, x)' => Has(strand, x)
      /\ \A x : Has(strand, x) /\ x # "cancel" => Has(strand, x)'
      /\ Once(strand, "upgrade")'
  BY TakeQueue DEF Alone, StrandCancel, TakeFromStrand, Uses, SocketUsable, HasStream,
     AbortOperations, Handlers
<1>1. UpgradedOnce' /\ HandshakeKeeps(t)'
  BY <1>t, <1>h DEF Alone, StrandCancel, TakeFromStrand, Uses, SocketUsable, HasStream,
     AbortOperations
<1>2. PlacesKnowState(t)' /\ StoppedCloses(t)'
  BY <1>t, <1>h DEF Alone, StrandCancel, TakeFromStrand, Uses, SocketUsable, HasStream,
     AbortOperations
<1>3. CloseEnds(t)' /\ NothingLost(t)'
  BY <1>t, <1>h DEF Alone, StrandCancel, TakeFromStrand, Uses, SocketUsable, HasStream,
     AbortOperations, OwnerRuns, HasRead, InThread
<1>4. fault' \notin {"exception", "lost_stream"}
  BY <1>t, <1>h DEF Alone, StrandCancel, TakeFromStrand, Uses, SocketUsable, HasStream,
     AbortOperations
<1> QED
  BY <1>1, <1>2, <1>3, <1>4 DEF Alone

(* A write begins.                                                         *)
LEMMA StrandWriteAlone ==
  ASSUME MaxUpgrades = 1, TypeOK, NEW t \in Threads, Alone(t), StrandWrite(t)
  PROVE  Alone(t)'
<1> USE DEF UpgradedOnce, HandshakeKeeps, PlacesKnowState, StoppedCloses, CloseEnds,
        NothingLost,
            IsOpen, IsClosing, IsClosed, Handshaking, Negotiates, FieldTypes,
            connectionVars, operationVars, ownerVars, threadVars
<1>t. FieldTypes
  BY TypedFields
<1>h. /\ Has(strand, "write")
      /\ \A x : Has(strand, x)' => Has(strand, x)
      /\ \A x : Has(strand, x) /\ x # "write" => Has(strand, x)'
      /\ Once(strand, "upgrade")'
  BY TakeQueue DEF Alone, StrandWrite, TakeFromStrand, Uses, Handlers
<1>1. UpgradedOnce' /\ HandshakeKeeps(t)'
  BY <1>t, <1>h DEF Alone, StrandWrite, TakeFromStrand, Uses
<1>2. PlacesKnowState(t)' /\ StoppedCloses(t)'
  BY <1>t, <1>h DEF Alone, StrandWrite, TakeFromStrand, Uses
<1>3. CloseEnds(t)' /\ NothingLost(t)'
  BY <1>t, <1>h DEF Alone, StrandWrite, TakeFromStrand, Uses, OwnerRuns, HasRead, InThread
<1>4. fault' \notin {"exception", "lost_stream"}
  BY <1>t, <1>h DEF Alone, StrandWrite, TakeFromStrand, Uses
<1> QED
  BY <1>1, <1>2, <1>3, <1>4 DEF Alone

(* The close is left to the handshake's handler or ends here.              *)
LEMMA StrandCloseAlone ==
  ASSUME MaxUpgrades = 1, TypeOK, NEW t \in Threads, Alone(t), StrandClose(t)
  PROVE  Alone(t)'
<1> USE DEF UpgradedOnce, HandshakeKeeps, PlacesKnowState, StoppedCloses, CloseEnds,
        NothingLost,
            IsOpen, IsClosing, IsClosed, Handshaking, Negotiates, FieldTypes,
            connectionVars, operationVars, ownerVars, threadVars
<1>t. FieldTypes
  BY TypedFields
<1>h. /\ Has(strand, "close")
      /\ \A x : Has(strand, x)' => Has(strand, x)
      /\ \A x : Has(strand, x) /\ x # "close" => Has(strand, x)'
      /\ Once(strand, "upgrade")'
  BY TakeQueue DEF Alone, StrandClose, TakeFromStrand, Uses, HasStream, GateClosed,
     AbortOperations, Handlers
<1>1. UpgradedOnce' /\ HandshakeKeeps(t)'
  BY <1>t, <1>h DEF Alone, StrandClose, TakeFromStrand, Uses, HasStream, GateClosed,
     AbortOperations
<1>2. PlacesKnowState(t)' /\ StoppedCloses(t)'
  BY <1>t, <1>h DEF Alone, StrandClose, TakeFromStrand, Uses, HasStream, GateClosed,
     AbortOperations
<1>3. CloseEnds(t)' /\ NothingLost(t)'
  BY <1>t, <1>h DEF Alone, StrandClose, TakeFromStrand, Uses, HasStream, GateClosed,
     AbortOperations, OwnerRuns, HasRead, InThread
<1>4. fault' \notin {"exception", "lost_stream"}
  BY <1>t, <1>h DEF Alone, StrandClose, TakeFromStrand, Uses, HasStream, GateClosed,
     AbortOperations
<1> QED
  BY <1>1, <1>2, <1>3, <1>4 DEF Alone

(* The read's handler hands over the data or closes the connection.        *)
LEMMA HandleReadAlone ==
  ASSUME MaxUpgrades = 1, TypeOK, NEW t \in Threads, Alone(t), HandleRead(t)
  PROVE  Alone(t)'
<1> USE DEF UpgradedOnce, HandshakeKeeps, PlacesKnowState, StoppedCloses, CloseEnds,
        NothingLost,
            IsOpen, IsClosing, IsClosed, Handshaking, Negotiates, FieldTypes,
            connectionVars, operationVars, ownerVars, threadVars
<1>t. FieldTypes
  BY TypedFields
<1>s. strand' = strand
  BY DEF HandleRead, At, Uses, Go, Close
<1>h. /\ \A x : Has(strand, x)' <=> Has(strand, x)
      /\ Once(strand, "upgrade")'
  BY <1>s DEF Alone
<1>1. UpgradedOnce' /\ HandshakeKeeps(t)'
  BY <1>t, <1>h DEF Alone, HandleRead, At, Uses, Go, Close
<1>2. PlacesKnowState(t)' /\ StoppedCloses(t)'
  BY <1>t, <1>h DEF Alone, HandleRead, At, Uses, Go, Close
<1>3. CloseEnds(t)' /\ NothingLost(t)'
  BY <1>t, <1>h DEF Alone, HandleRead, At, Uses, Go, Close, OwnerRuns, HasRead, InThread
<1>4. fault' \notin {"exception", "lost_stream"}
  BY <1>t, <1>h DEF Alone, HandleRead, At, Uses, Go, Close
<1> QED
  BY <1>1, <1>2, <1>3, <1>4 DEF Alone

(* The handler of a failed write closes the connection.                    *)
LEMMA HandleFailedWriteAlone ==
  ASSUME MaxUpgrades = 1, TypeOK, NEW t \in Threads, Alone(t), HandleFailedWrite(t)
  PROVE  Alone(t)'
<1> USE DEF UpgradedOnce, HandshakeKeeps, PlacesKnowState, StoppedCloses, CloseEnds,
        NothingLost,
            IsOpen, IsClosing, IsClosed, Handshaking, Negotiates, FieldTypes,
            connectionVars, operationVars, ownerVars, threadVars
<1>t. FieldTypes
  BY TypedFields
<1>s. strand' = strand
  BY DEF HandleFailedWrite, Uses, Close
<1>h. /\ \A x : Has(strand, x)' <=> Has(strand, x)
      /\ Once(strand, "upgrade")'
  BY <1>s DEF Alone
<1>1. UpgradedOnce' /\ HandshakeKeeps(t)'
  BY <1>t, <1>h DEF Alone, HandleFailedWrite, Uses, Close
<1>2. PlacesKnowState(t)' /\ StoppedCloses(t)'
  BY <1>t, <1>h DEF Alone, HandleFailedWrite, Uses, Close
<1>3. CloseEnds(t)' /\ NothingLost(t)'
  BY <1>t, <1>h DEF Alone, HandleFailedWrite, Uses, Close, OwnerRuns, HasRead, InThread
<1>4. fault' \notin {"exception", "lost_stream"}
  BY <1>t, <1>h DEF Alone, HandleFailedWrite, Uses, Close
<1> QED
  BY <1>1, <1>2, <1>3, <1>4 DEF Alone

(* The handshake's handler has taken its result.                           *)
LEMMA HandleHandshakeAlone ==
  ASSUME MaxUpgrades = 1, TypeOK, NEW t \in Threads, Alone(t), HandleHandshake(t)
  PROVE  Alone(t)'
<1> USE DEF UpgradedOnce, HandshakeKeeps, PlacesKnowState, StoppedCloses, CloseEnds,
        NothingLost,
            IsOpen, IsClosing, IsClosed, Handshaking, Negotiates, FieldTypes,
            connectionVars, operationVars, ownerVars, threadVars
<1>t. FieldTypes
  BY TypedFields
<1>s. strand' = strand
  BY DEF HandleHandshake, Uses, Go
<1>h. /\ \A x : Has(strand, x)' <=> Has(strand, x)
      /\ Once(strand, "upgrade")'
  BY <1>s DEF Alone
<1>1. UpgradedOnce' /\ HandshakeKeeps(t)'
  BY <1>t, <1>h DEF Alone, HandleHandshake, Uses, Go
<1>2. PlacesKnowState(t)' /\ StoppedCloses(t)'
  BY <1>t, <1>h DEF Alone, HandleHandshake, Uses, Go
<1>3. CloseEnds(t)' /\ NothingLost(t)'
  BY <1>t, <1>h DEF Alone, HandleHandshake, Uses, Go, OwnerRuns, HasRead, InThread
<1>4. fault' \notin {"exception", "lost_stream"}
  BY <1>t, <1>h DEF Alone, HandleHandshake, Uses, Go
<1> QED
  BY <1>1, <1>2, <1>3, <1>4 DEF Alone

(* The handshake's handler ends the close that waited for it, or goes on.  *)
LEMMA HandshakeEndedAlone ==
  ASSUME MaxUpgrades = 1, TypeOK, NEW t \in Threads, Alone(t), HandshakeEnded(t)
  PROVE  Alone(t)'
<1> USE DEF UpgradedOnce, HandshakeKeeps, PlacesKnowState, StoppedCloses, CloseEnds,
        NothingLost,
            IsOpen, IsClosing, IsClosed, Handshaking, Negotiates, FieldTypes,
            connectionVars, operationVars, ownerVars, threadVars
<1>t. FieldTypes
  BY TypedFields
<1>s. strand' = strand
  BY DEF HandshakeEnded, Uses, Go, Close, AbortOperations
<1>h. /\ \A x : Has(strand, x)' <=> Has(strand, x)
      /\ Once(strand, "upgrade")'
  BY <1>s DEF Alone
<1>1. UpgradedOnce' /\ HandshakeKeeps(t)'
  BY <1>t, <1>h DEF Alone, HandshakeEnded, Uses, Go, Close, AbortOperations
<1>2. PlacesKnowState(t)' /\ StoppedCloses(t)'
  BY <1>t, <1>h DEF Alone, HandshakeEnded, Uses, Go, Close, AbortOperations
<1>3. CloseEnds(t)' /\ NothingLost(t)'
  BY <1>t, <1>h DEF Alone, HandshakeEnded, Uses, Go, Close, AbortOperations, OwnerRuns,
     HasRead, InThread
<1>4. fault' \notin {"exception", "lost_stream"}
  BY <1>t, <1>h DEF Alone, HandshakeEnded, Uses, Go, Close, AbortOperations
<1> QED
  BY <1>1, <1>2, <1>3, <1>4 DEF Alone

(* The state is SECURE: nobody closes meanwhile.                           *)
LEMMA BecomeSecureAlone ==
  ASSUME MaxUpgrades = 1, TypeOK, NEW t \in Threads, Alone(t), BecomeSecure(t)
  PROVE  Alone(t)'
<1> USE DEF UpgradedOnce, HandshakeKeeps, PlacesKnowState, StoppedCloses, CloseEnds,
        NothingLost,
            IsOpen, IsClosing, IsClosed, Handshaking, Negotiates, FieldTypes,
            connectionVars, operationVars, ownerVars, threadVars
<1>t. FieldTypes
  BY TypedFields
<1>s. strand' = strand
  BY DEF BecomeSecure, Uses, Return
<1>h. /\ \A x : Has(strand, x)' <=> Has(strand, x)
      /\ Once(strand, "upgrade")'
  BY <1>s DEF Alone
<1>1. UpgradedOnce' /\ HandshakeKeeps(t)'
  BY <1>t, <1>h DEF Alone, BecomeSecure, Uses, Return
<1>2. PlacesKnowState(t)' /\ StoppedCloses(t)'
  BY <1>t, <1>h DEF Alone, BecomeSecure, Uses, Return
<1>3. CloseEnds(t)' /\ NothingLost(t)'
  BY <1>t, <1>h DEF Alone, BecomeSecure, Uses, Return, OwnerRuns, HasRead, InThread
<1>4. fault' \notin {"exception", "lost_stream"}
  BY <1>t, <1>h DEF Alone, BecomeSecure, Uses, Return
<1> QED
  BY <1>1, <1>2, <1>3, <1>4 DEF Alone


LEMMA OwnerStepAlone ==
  ASSUME MaxUpgrades = 1, TypeOK, DeleteOnce, NEW t \in Threads, Alone(t), OwnerStep(t)
  PROVE  Alone(t)'
  BY AbortedAlone, ReceivedAlone, WriteAlone, UpgradeAlone, ShutdownOnTokenAlone,
     TokensProcessedAlone, ProcessAlone, ReadAlone DEF OwnerStep

LEMMA CloseStepAlone ==
  ASSUME MaxUpgrades = 1, TypeOK, DeleteOnce, NEW t \in Threads, Alone(t), CloseStep(t)
  PROVE  Alone(t)'
  BY CheckClosedAlone, CheckClosingAlone, PushCallbackAlone, StartClosingAlone, CloseEndedAlone,
     CloseWaitsAlone, JoinClosingAlone, AnnounceClosedAlone, CollectCallbacksAlone, CallNextAlone
     DEF CloseStep

LEMMA StrandStepAlone ==
  ASSUME MaxUpgrades = 1, TypeOK, NEW t \in Threads, Alone(t), StrandStep(t)
  PROVE  Alone(t)'
  BY StrandUpgradeAlone, StrandReadAlone, StrandCancelAlone, StrandWriteAlone, StrandCloseAlone
     DEF StrandStep

(* No TLS shutdown is ever begun: its handler, which may throw, never runs.  *)
LEMMA HandlerStepAlone ==
  ASSUME MaxUpgrades = 1, TypeOK, NEW t \in Threads, Alone(t), HandlerStep(t)
  PROVE  Alone(t)'
<1>1. ~HandleTlsShutdown(t)
  BY DEF Alone, HandshakeKeeps, HandleTlsShutdown
<1>2. CASE UseAfterDelete(t)
  BY <1>2, StillAlone DEF UseAfterDelete, Fail
<1> QED
  BY <1>1, <1>2, HandleReadAlone, HandleFailedWriteAlone, HandleHandshakeAlone,
     HandshakeEndedAlone, BecomeSecureAlone DEF HandlerStep

LEMMA AloneInit ==
  ASSUME NEW t, Threads = {t}, MaxUpgrades = 1, Init
  PROVE  Alone(t)
<1>1. pc[t] = "process" /\ cb[t] = "none" /\ todo[t] = <<>> /\ handshakes[1] = "none"
  BY DEF Init
<1>2. \A x : ~Has(<<>>, x) /\ Once(<<>>, x)
  BY HasEmpty
<1>3. UpgradedOnce /\ HandshakeKeeps(t)
  BY <1>1, <1>2 DEF Init, UpgradedOnce, HandshakeKeeps, Handshaking, Negotiates, IsOpen
<1>4. PlacesKnowState(t) /\ StoppedCloses(t)
  BY <1>1, <1>2 DEF Init, PlacesKnowState, StoppedCloses, IsOpen, IsClosed, IsClosing, Handshaking
<1>5. CloseEnds(t) /\ NothingLost(t)
  BY <1>1, <1>2 DEF Init, CloseEnds, NothingLost, OwnerRuns, IsClosing
<1> QED
  BY <1>3, <1>4, <1>5 DEF Init, Alone

LEMMA AloneStep ==
  ASSUME NEW t, Threads = {t}, MaxUpgrades = 1, Inv, Alone(t), [Next]_vars
  PROVE  Alone(t)'
<1>1. t \in Threads /\ TypeOK /\ DeleteOnce
  BY DEF Inv
<1>2. CASE NetworkStep
  BY <1>1, <1>2, NetworkStepAlone
<1>3. CASE ThreadStep(t)
  BY <1>1, <1>3, OwnerStepAlone, CloseStepAlone, StrandStepAlone, HandlerStepAlone DEF ThreadStep
<1>4. CASE UNCHANGED vars
  BY <1>1, <1>4, StillAlone DEF vars, Alone
<1> QED
  BY <1>2, <1>3, <1>4 DEF Next

LEMMA AloneCorrect ==
  ASSUME NEW t, Threads = {t}, MaxUpgrades = 1
  PROVE  Spec => []Alone(t)
<1>1. Init => Alone(t)
  BY AloneInit
<1>2. Inv /\ Alone(t) /\ [Next]_vars => Alone(t)'
  BY AloneStep
<1> QED
  BY <1>1, <1>2, InvCorrect, PTL DEF Spec

(* When one thread runs the handlers, no close deletes the connection while  *)
(* its handshake is pending: a close that comes during the handshake leaves   *)
(* the end to the handshake's handler (TcpConnection.cpp:40-56, 179-182).    *)
THEOREM HandshakeIsOutlived ==
  ASSUME NEW t, Threads = {t}, MaxUpgrades = 1
  PROVE  Spec => []HandshakeOutlived
<1>1. Inv /\ Alone(t) => HandshakeOutlived
  <2> SUFFICES ASSUME Inv, Alone(t) PROVE HandshakeOutlived
    OBVIOUS
  <2>1. DOMAIN handshakes = {1}
    BY DEF Inv, TypeOK, OperationTypes
  <2>2. deleted => handshakes[1] = "none"
    BY DEF Alone, PlacesKnowState, HandshakeKeeps, Handshaking, IsClosed
  <2> QED
    BY <2>1, <2>2 DEF HandshakeOutlived
<1> QED
  BY <1>1, InvCorrect, AloneCorrect, PTL

(* When one thread runs the handlers, cancel() and shutdown() are never       *)
(* called on a socket without a descriptor: a session stops only on its way   *)
(* into close(), and what close() finds open it has not closed itself         *)
(* (TcpConnection.cpp:118-128, 179-191).                                     *)
THEOREM NothingIsThrown ==
  ASSUME NEW t, Threads = {t}, MaxUpgrades = 1
  PROVE  Spec => []NothingThrown
<1>1. Alone(t) => NothingThrown
  BY DEF Alone, NothingThrown
<1> QED
  BY <1>1, AloneCorrect, PTL

(* When one thread runs the handlers and there is nothing left to run, the    *)
(* connection has been deleted: a session that has not let go has a read to   *)
(* wake it, and one that has let go a close on its way to call the callback   *)
(* that deletes the connection (TcpConnection.cpp:160-206).                  *)
THEOREM NothingIsForgotten ==
  ASSUME NEW t, Threads = {t}, MaxUpgrades = 1
  PROVE  Spec => []NothingForgotten
<1>1. Inv /\ Alone(t) => NothingForgotten
  <2> SUFFICES ASSUME Inv, Alone(t), Quiet, ~deleted PROVE FALSE
    BY DEF NothingForgotten
  <2>1. pc[t] = "idle" /\ strand = <<>> /\ readOp = "none"
    BY DEF Quiet
  <2>2. ~Handshaking
    BY DEF Quiet, Handshaking, Inv, TypeOK, OperationTypes
  <2>3. cb[t] = "none" /\ todo[t] = <<>>
    BY <2>1 DEF Alone, PlacesKnowState
  <2>4. ~Has(strand, "read") /\ ~Has(strand, "close")
    BY <2>1, HasEmpty
  <2>5. closeCallbacks = <<>>
    BY <2>1, <2>2, <2>4 DEF Alone, CloseEnds
  <2>6. ~Has(closeCallbacks, "read") /\ ~Has(closeCallbacks, "delete")
    BY <2>5, HasEmpty
  <2>7. ~InThread(t, "read") /\ ~InThread(t, "delete")
    BY <2>3, HasEmpty DEF InThread
  <2> QED
    BY <2>1, <2>4, <2>6, <2>7 DEF Alone, NothingLost, OwnerRuns, HasRead
<1> QED
  BY <1>1, InvCorrect, AloneCorrect, PTL


-----------------------------------------------------------------------------
(* The steps of the connection are steps that ConnectionContract allows.     *)



LEMMA HolderStays ==
  ASSUME UNCHANGED <<state, issued, answered, deleted, released>>
  PROVE  UNCHANGED Contract!vars
  BY DEF Contract!vars

LEMMA IssueIsRead ==
  ASSUME OwnerTypes, ~released, ~deleted, issued = answered,
         issued' = issued + 1, UNCHANGED <<state, answered, deleted, released>>
  PROVE  Contract!Next
<1>1. issued' # answered
  BY DEF OwnerTypes
<1> QED
  BY <1>1 DEF Contract!Next, Contract!Read

LEMMA CallbackIsAnswer ==
  ASSUME OwnerTypes, AnsweredAtMostOnce, AnsweredAtMostOnce',
         answered' = answered + 1, UNCHANGED <<state, issued, deleted, released>>
  PROVE  Contract!Next
<1>1. issued # answered /\ issued = answered'
  BY DEF OwnerTypes, AnsweredAtMostOnce
<1> QED
  BY <1>1 DEF Contract!Next, Contract!Answer

LEMMA ShutdownIsRelease ==
  ASSUME ~released, ~deleted, issued = answered,
         released', UNCHANGED <<state, issued, answered, deleted>>
  PROVE  Contract!Next
  BY DEF Contract!Next, Contract!Release

LEMMA DeletionIsDelete ==
  ASSUME released, ~deleted, IsClosed,
         deleted' = TRUE, UNCHANGED <<state, issued, answered, released>>
  PROVE  Contract!Next
  BY DEF Contract!Next, Contract!Delete, IsClosed

LEMMA StateIsInOrder ==
  ASSUME UNCHANGED <<issued, answered, deleted, released>>,
         \/ state = "INSECURE" /\ state' = "SECURE"
         \/ state \in {"INSECURE", "SECURE"} /\ state' = "CLOSING"
         \/ state = "CLOSING" /\ state' = "CLOSED"
  PROVE  Contract!Next
  BY DEF Contract!Next, Contract!Secure, Contract!StartClosing, Contract!FinishClosing,
         Contract!IsOpen

(* The owner lets go between two reads. *)
LEMMA GiveUpRefines ==
  ASSUME Inv, NEW t \in Threads, OwnerRuns(t),
         \/ released /\ Idle(t)
         \/ ~released /\ Shutdown(t)
  PROVE  [Contract!Next]_(Contract!vars)
<1>1. issued = answered /\ (deleted => released)
  BY DEF Inv, ReadOnce, DeleteOnce
<1>2. CASE released
  BY <1>2, HolderStays DEF Idle, connectionVars, ownerVars
<1>3. CASE ~released
  <2>1. released' /\ UNCHANGED <<state, issued, answered, deleted>>
    BY <1>3 DEF Shutdown, connectionVars
  <2> QED
    BY <1>1, <1>3, <2>1, ShutdownIsRelease
<1> QED
  BY <1>2, <1>3

LEMMA CallRefines ==
  ASSUME Inv, Inv', NEW t \in Threads, NEW callback, NEW rest, Call(t, callback, rest),
         callback = "delete" => IsClosed /\ InThread(t, "delete")
  PROVE  [Contract!Next]_(Contract!vars)
<1>1. CASE callback = "read"
  <2>1. answered' = answered + 1 /\ UNCHANGED <<state, issued, deleted, released>>
    BY <1>1 DEF Call, connectionVars
  <2> QED
    BY <2>1, CallbackIsAnswer DEF Inv, TypeOK, ReadOnce
<1>2. CASE callback = "delete"
  <2>1. released /\ ~deleted
    BY <1>2 DEF Inv, DeleteOnce
  <2>2. deleted' = TRUE /\ UNCHANGED <<state, issued, answered, released>>
    BY <1>2 DEF Call, ownerVars
  <2> QED
    BY <1>2, <2>1, <2>2, DeletionIsDelete
<1> QED
  BY <1>1, <1>2 DEF Call

LEMMA OwnerStepRefines ==
  ASSUME Inv, Inv', NEW t \in Threads, Alone(t), OwnerStep(t)
  PROVE  [Contract!Next]_(Contract!vars)
<1> USE DEF connectionVars, ownerVars
<1>1. CASE Aborted(t)
  BY <1>1, GiveUpRefines DEF Aborted, GiveUp, At, OwnerRuns
<1>2. CASE Received(t)
  <2>1. OwnerRuns(t)
    BY <1>2 DEF Received, At, OwnerRuns
  <2> QED
    BY <1>2, <2>1, GiveUpRefines, HolderStays DEF Received, GiveUp
<1>3. CASE Write(t) \/ Upgrade(t)
  BY <1>3, HolderStays DEF Write, Upgrade
<1>4. CASE ShutdownOnToken(t)
  BY <1>4, GiveUpRefines DEF ShutdownOnToken, At, OwnerRuns
<1>5. CASE TokensProcessed(t)
  BY <1>5, HolderStays DEF TokensProcessed
<1>6. CASE Process(t)
  <2>1. CASE stopped
    BY <1>6, <2>1, HolderStays DEF Process, Idle
  <2>2. CASE ~stopped
    <3>1. pc[t] = "process" /\ issued' = issued + 1
          /\ UNCHANGED <<state, answered, deleted, released>>
      BY <1>6, <2>2 DEF Process, At
    <3>2. ~released /\ ~deleted
      BY <2>2 DEF Alone, StoppedCloses, Inv, DeleteOnce
    <3>3. issued = answered /\ OwnerTypes
      BY <3>1 DEF Inv, ReadOnce, OwnerRuns, TypeOK
    <3> QED
      BY <3>1, <3>2, <3>3, IssueIsRead
  <2> QED
    BY <2>1, <2>2
<1>7. CASE Read(t)
  <2>1. CASE IsOpen
    BY <1>7, <2>1, HolderStays DEF Read
  <2>2. CASE ~IsOpen
    BY <1>7, <2>2, CallRefines DEF Read
  <2> QED
    BY <2>1, <2>2
<1> QED
  BY <1>1, <1>2, <1>3, <1>4, <1>5, <1>6, <1>7 DEF OwnerStep

LEMMA CloseStepRefines ==
  ASSUME Inv, Inv', NEW t \in Threads, Alone(t), CloseStep(t)
  PROVE  [Contract!Next]_(Contract!vars)
<1> USE DEF connectionVars, ownerVars
<1>1. CASE CheckClosed(t) \/ CheckClosing(t) \/ PushCallback(t) \/ CollectCallbacks(t)
  BY <1>1, HolderStays DEF CheckClosed, CheckClosing, PushCallback, CollectCallbacks
<1>2. CASE CloseWaits(t) \/ JoinClosing(t)
  BY <1>2, HolderStays DEF CloseWaits, JoinClosing, Idle
<1>3. CASE StartClosing(t)
  <2>1. state \in {"INSECURE", "SECURE"}
    BY <1>3 DEF StartClosing, Uses, Alone, PlacesKnowState, IsOpen,
              Inv, TypeOK, ConnectionTypes, States
  <2>2. state' = "CLOSING" /\ UNCHANGED <<issued, answered, deleted, released>>
    BY <1>3 DEF StartClosing
  <2> QED
    BY <2>1, <2>2, StateIsInOrder
<1>4. CASE AnnounceClosed(t)
  <2>1. state \in {"CLOSING", "CLOSED"}
    BY <1>4 DEF AnnounceClosed, Uses, Alone, PlacesKnowState, IsOpen
  <2>2. state' = "CLOSED" /\ UNCHANGED <<issued, answered, deleted, released>>
    BY <1>4 DEF AnnounceClosed
  <2> QED
    BY <2>1, <2>2, StateIsInOrder, HolderStays
<1>5. CASE CloseEnded(t)
  <2>1. CASE cb[t] # "none" /\ state = "CLOSED"
    <3>1. Call(t, cb[t], todo[t])
      BY <1>5, <2>1 DEF CloseEnded
    <3> QED
      BY <2>1, <3>1, CallRefines DEF IsClosed, InThread
  <2>2. CASE ~(cb[t] # "none" /\ state = "CLOSED")
    BY <1>5, <2>2, HolderStays DEF CloseEnded, Idle
  <2> QED
    BY <2>1, <2>2
<1>6. CASE CallNext(t)
  <2>1. Call(t, Head(todo[t]), Tail(todo[t])) /\ todo[t] # <<>> /\ IsClosed
    BY <1>6 DEF CallNext, At, Alone, PlacesKnowState
  <2>2. Has(todo[t], Head(todo[t]))
    BY <2>1, HasHead DEF Inv, TypeOK, ThreadTypes
  <2> QED
    BY <2>1, <2>2, CallRefines DEF InThread
<1> QED
  BY <1>1, <1>2, <1>3, <1>4, <1>5, <1>6 DEF CloseStep

LEMMA StrandStepRefines ==
  ASSUME Inv, Inv', NEW t \in Threads, Alone(t), StrandStep(t)
  PROVE  [Contract!Next]_(Contract!vars)
<1> USE DEF connectionVars, ownerVars
<1>1. CASE StrandUpgrade(t) \/ StrandCancel(t) \/ StrandWrite(t) \/ StrandClose(t)
  BY <1>1, HolderStays DEF StrandUpgrade, StrandCancel, StrandWrite, StrandClose
<1>2. CASE StrandRead(t)
  <2>1. UNCHANGED <<state, issued, deleted, released>> /\ answered' \in {answered, answered + 1}
    BY <1>2 DEF StrandRead
  <2> QED
    BY <2>1, HolderStays, CallbackIsAnswer DEF Inv, TypeOK, ReadOnce
<1> QED
  BY <1>1, <1>2 DEF StrandStep

LEMMA HandlerStepRefines ==
  ASSUME Inv, Inv', NEW t \in Threads, Alone(t), HandlerStep(t)
  PROVE  [Contract!Next]_(Contract!vars)
<1> USE DEF connectionVars, ownerVars
<1>1. CASE HandleFailedWrite(t) \/ HandleHandshake(t) \/ HandshakeEnded(t)
  BY <1>1, HolderStays DEF HandleFailedWrite, HandleHandshake, HandshakeEnded
<1>2. CASE HandleRead(t)
  <2>1. UNCHANGED <<state, issued, deleted, released>> /\ answered' \in {answered, answered + 1}
    BY <1>2 DEF HandleRead
  <2> QED
    BY <2>1, HolderStays, CallbackIsAnswer DEF Inv, TypeOK, ReadOnce
<1>3. CASE BecomeSecure(t)
  <2>1. state = "INSECURE"
    BY <1>3 DEF BecomeSecure, Uses, Alone, HandshakeKeeps, Negotiates, IsOpen
  <2>2. state' = "SECURE" /\ UNCHANGED <<issued, answered, deleted, released>>
    BY <1>3 DEF BecomeSecure
  <2> QED
    BY <2>1, <2>2, StateIsInOrder
<1>4. CASE HandleTlsShutdown(t) \/ UseAfterDelete(t)
  BY <1>4, HolderStays DEF HandleTlsShutdown, UseAfterDelete, Fail
<1> QED
  BY <1>1, <1>2, <1>3, <1>4 DEF HandlerStep

LEMMA StepRefines ==
  ASSUME NEW t, Threads = {t}, Inv, Inv', Alone(t), [Next]_vars
  PROVE  [Contract!Next]_(Contract!vars)
<1>1. t \in Threads
  OBVIOUS
<1>2. CASE NetworkStep
  BY <1>2, HolderStays DEF NetworkStep, connectionVars, ownerVars
<1>3. CASE ThreadStep(t)
  BY <1>1, <1>3, OwnerStepRefines, CloseStepRefines, StrandStepRefines, HandlerStepRefines
     DEF ThreadStep
<1>4. CASE UNCHANGED vars
  BY <1>4, HolderStays DEF vars, connectionVars, ownerVars
<1> QED
  BY <1>2, <1>3, <1>4 DEF Next

(* When one thread runs the handlers, every step of the connection, of asio   *)
(* and of the owner is one that the contract allows or changes nothing it     *)
(* sees: the states come in order, a read is issued after the answer to the   *)
(* one before, and only what has been let go of and closed is deleted         *)
(* (TcpConnection.cpp:26-206).                                                *)
THEOREM ImplementsContract ==
  ASSUME NEW t, Threads = {t}, MaxUpgrades = 1
  PROVE  Spec => Contract!Init /\ [][Contract!Next]_(Contract!vars)
<1>1. Init => Contract!Init
  BY DEF Init, Contract!Init
<1>2. Inv /\ Inv' /\ Alone(t) /\ [Next]_vars => [Contract!Next]_(Contract!vars)
  BY StepRefines
<1> QED
  BY <1>1, <1>2, InvCorrect, AloneCorrect, PTL DEF Spec
=============================================================================
