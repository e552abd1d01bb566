------------------------- MODULE ClientSessionProofs -------------------------
(***************************************************************************)
(* Every session is an owner that module TcpConnection allows, for every     *)
(* set of io threads and every bound; so what is proved there of a           *)
(* connection and any owner holds of a connection and its session.  And what *)
(* the session sends is sent in order, up to the start of TLS and up to an   *)
(* error.                                                                    *)
(***************************************************************************)
EXTENDS ClientSession, TcpConnectionProofs, WellFoundedInduction

(* What the session does with a token is a step of TcpConnection's owner, or *)
(* none of its steps.                                                        *)
LEMMA TokenStep ==
  ASSUME NEW t \in Threads,
         \/ EnterTokenizer(t) \/ TakeToken(t) \/ CallWrite(t) \/ CallUpgrade(t)
         \/ CallShutdown(t) \/ LeaveTokenizer(t)
  PROVE  OwnerStep(t) \/ UNCHANGED vars
<1>1. CASE EnterTokenizer(t) BY <1>1 DEF EnterTokenizer, OwnerStep
<1>2. CASE TakeToken(t) BY <1>2 DEF TakeToken
<1>3. CASE CallWrite(t) BY <1>3 DEF CallWrite, OwnerStep
<1>4. CASE CallUpgrade(t) BY <1>4 DEF CallUpgrade, OwnerStep
<1>5. CASE CallShutdown(t) BY <1>5 DEF CallShutdown, OwnerStep
<1>6. CASE LeaveTokenizer(t) BY <1>6 DEF LeaveTokenizer, OwnerStep
<1> QED BY <1>1, <1>2, <1>3, <1>4, <1>5, <1>6

LEMMA SessionStep == SessionNext => [Next]_vars
<1> SUFFICES ASSUME SessionNext PROVE [Next]_vars OBVIOUS
<1>1. CASE ClientStep BY <1>1 DEF ClientStep, Next
<1>2. ASSUME NEW t \in Threads, SessionThreadStep(t) PROVE [Next]_vars
  <2>1. OwnerStep(t) \/ CloseStep(t) \/ StrandStep(t) \/ HandlerStep(t) \/ UNCHANGED vars
    <3>1. CASE DeliverWrite(t) BY <3>1 DEF DeliverWrite, StrandStep
    <3>2. CASE ConnectionThreadStep(t)
      BY <3>2 DEF ConnectionThreadStep, OwnerStep, StrandStep
    <3> QED BY <1>2, <3>1, <3>2, TokenStep DEF SessionThreadStep
  <2> QED BY <2>1 DEF ThreadStep, Next
<1> QED BY <1>1, <1>2 DEF SessionNext

(* By the form of its steps a session is an owner of module TcpConnection, so *)
(* that what is proved there of any owner can be said of it                  *)
(* (ClientSession.cpp:47-94).                                                *)
LEMMA SessionOwnsConnection == SessionSpec => OwnsConnection
<1>1. SessionInit => Init BY DEF SessionInit
<1>2. [SessionNext]_sessionVars => [Next]_vars
  <2>1. UNCHANGED sessionVars => UNCHANGED vars BY DEF sessionVars
  <2> QED BY <2>1, SessionStep
<1> QED BY <1>1, <1>2, PTL DEF SessionSpec, OwnsConnection

(* The read loop of a session gets at most one answer for each read it       *)
(* issues, whatever its tokens make it do (ClientSession.cpp:77-94).         *)
THEOREM SessionAnsweredOnce == SessionSpec => []AnsweredAtMostOnce
<1>1. Inv => AnsweredAtMostOnce BY DEF Inv, ReadOnce
<1> QED BY <1>1, SessionOwnsConnection, InvInit, InvStep, PTL DEF OwnsConnection

(* A session deletes its connection at most once, however many threads close *)
(* it (ClientSession.cpp:47-63, TcpConnection.cpp:7-14).                     *)
THEOREM SessionDeletedOnce == SessionSpec => []NeverDeletedTwice
<1>1. Inv => NeverDeletedTwice BY DEF Inv, DeleteOnce
<1> QED BY <1>1, SessionOwnsConnection, InvInit, InvStep, PTL DEF OwnsConnection

-----------------------------------------------------------------------------
(* The invariant behind ProceedBeforeTls and WireIsStream.                   *)

(* The connection has been open, and in clear, from its beginning.  What is  *)
(* written to it then has no gaps.                                           *)
Plain == streams = 0 /\ IsOpen

(* Once it is not plain it never is again: only a handshake makes a           *)
(* connection SECURE, and only the end of a close takes its descriptor.      *)
PlainBefore ==
  /\ state = "SECURE" => streams > 0
  /\ \A t \in Threads : pc[t] \in {"handshaken", "secure"} => streams > 0
  /\ \A k \in DOMAIN handshakes : handshakes[k] # "none" => streams > 0
  /\ tlsClosing + tlsClosed > 0 => streams > 0
  /\ Plain => /\ socket = "open" /\ ~deleted /\ ~Has(strand, "close")
              /\ \A t \in Threads : /\ pc[t] \notin {"announce", "collect", "dispatch"}
                                    /\ todo[t] = <<>>

(* With o the data of the handlers s on the strand and w the wire, d is what  *)
(* the write before place p of the strand says: the last one before p on the  *)
(* strand, else the last one on the wire, else nothing.                      *)
Says(o, w, p, d) ==
  \/ \E i \in 1 .. p - 1 : /\ o[i] = d /\ d # "nothing"
                           /\ \A j \in i + 1 .. p - 1 : o[j] = "nothing"
  \/ /\ \A j \in 1 .. p - 1 : o[j] = "nothing"
     /\ d = IF w = <<>> THEN "nothing" ELSE w[Len(w)].data

MayFollow(d, e) ==
  /\ d = "nothing" => e \in {"header", "refusal"}
  /\ d # "nothing" => <<d, e>> \in Follows

(* What a handler may be that comes when d has been said.                    *)
Fits(d, data, handler) ==
  /\ data # "nothing" => MayFollow(d, data)
  /\ handler = "upgrade" => d = "proceed"

GoesOn(o, s, w) ==
  \A p \in 1 .. Len(o) : \A d : Says(o, w, p, d) => Fits(d, o[p], s[p])

(* On a plain connection the strand goes on with the stream that the wire     *)
(* begins, and an upgrade comes right after what tells the client of it.     *)
QueueIsStream == Plain => GoesOn(outbox, strand, wire)

(* What onXmlToken has still to call, and the stream handler, follow from     *)
(* what was said last.                                                       *)
FollowsFrom(d, handler, cs) ==
  \/ /\ handler = "none" /\ d \in {"nothing", "footer"}
     /\ cs \in {<<>>, <<"refusal", "shutdown">>}
  \/ /\ handler = "none" /\ d \in {"features", "proceed"} /\ cs = <<"footer">>
  \/ /\ handler = "negotiation" /\ d \in {"nothing", "footer"}
     /\ cs = <<"header", "features">>
  \/ /\ handler = "negotiation" /\ d = "header" /\ cs = <<"features">>
  \/ /\ handler = "negotiation" /\ d \in {"features", "proceed"}
     /\ cs \in {<<>>, <<"violation", "shutdown">>, <<"error", "shutdown">>,
                <<"proceed", "upgrade">>}
  \/ /\ handler = "negotiation" /\ d = "proceed" /\ cs = <<"upgrade">>
  \/ cs = <<"shutdown">>
SpeaksInTurn ==
  Plain /\ ~released =>
    \A d : Says(outbox, wire, Len(outbox) + 1, d) => FollowsFrom(d, streamHandler, calls)

Scripts ==
  {<<>>, <<"header", "error", "shutdown">>, <<"header", "features">>, <<"features">>,
   <<"proceed", "upgrade">>, <<"upgrade">>, <<"footer">>,
   <<"error", "shutdown">>, <<"refusal", "shutdown">>, <<"violation", "shutdown">>,
   <<"shutdown">>}

(* Nothing is on the strand or on the wire after an error.                   *)
ErrorIsLast(o, w) ==
  /\ \A i \in 1 .. Len(o) : o[i] \in Errors =>
       \A j \in 1 .. Len(o) : j > i => o[j] = "nothing"
  /\ \A i \in 1 .. Len(w) : w[i].data \in Errors =>
       i = Len(w) /\ \A j \in 1 .. Len(o) : o[j] = "nothing"

HasError(o, w) ==
  \/ \E i \in 1 .. Len(o) : o[i] \in Errors
  \/ \E i \in 1 .. Len(w) : w[i].data \in Errors

(* After an error the session only shuts down.                               *)
Over == released \/ calls = <<"shutdown">>
ErrorEnds ==
  /\ calls \in Scripts
  /\ ErrorIsLast(outbox, wire)
  /\ HasError(outbox, wire) => Over

SecureAfterTls == \A i \in DOMAIN wire : wire[i].secure => streams > 0

StreamInv ==
  /\ QueueIsStream /\ SpeaksInTurn /\ ErrorEnds
  /\ SecureAfterTls /\ ProceedBeforeTls /\ WireIsStream

SessionInv == SessionTypeOK /\ PlainBefore /\ StreamInv

-----------------------------------------------------------------------------
(* A connection that is plain has been plain before.                         *)

PlainTypes ==
  /\ pc \in [Threads -> Places] /\ cb \in [Threads -> Callbacks \cup {"none"}]
  /\ todo \in [Threads -> Seq(Callbacks)]
  /\ handshakes \in [1 .. MaxUpgrades -> {"none", "inflight", "ok", "error"}]
  /\ state \in States /\ streams \in Nat /\ tlsClosing \in Nat /\ tlsClosed \in Nat

LEMMA TypedPlain == TypeOK => PlainTypes
  BY DEF PlainTypes, TypeOK, ConnectionTypes, OperationTypes, ThreadTypes

(* What is in flight is not more than before. *)
FewerPending ==
  /\ \A k \in DOMAIN handshakes' : handshakes'[k] # "none" =>
       k \in DOMAIN handshakes /\ handshakes[k] # "none"
  /\ tlsClosing' + tlsClosed' = tlsClosing + tlsClosed

LEMMA AbortPending == PlainTypes /\ AbortOperations => FewerPending
  BY DEF PlainTypes, AbortOperations, FewerPending

LEMMA KeepPending == UNCHANGED operationVars => FewerPending
  BY DEF operationVars, FewerPending

PlainKept == PlainBefore' /\ (Plain' => Plain)

LEMMA OwnerStepPlain ==
  ASSUME TypeOK, PlainBefore, NEW t \in Threads, OwnerStep(t)
  PROVE  PlainKept
<1> USE DEF PlainBefore, PlainKept, Plain, IsOpen, PlainTypes,
            connectionVars, operationVars, threadVars, ownerVars
<1>t. PlainTypes
  BY TypedPlain
<1>1. CASE Aborted(t)
  <2>1. Has(strand, "close")' => Has(strand, "close")
    <3>1. strand' = strand \/ Post("cancel")
      BY <1>1 DEF Aborted, GiveUp, Idle, Shutdown, Close, Return, At
    <3> QED
      BY <3>1, PostQueue DEF Handlers
  <2> QED
    BY <1>t, <1>1, <2>1 DEF Aborted, GiveUp, Idle, Shutdown, Close, Return, At
<1>2. CASE Received(t)
  <2>1. Has(strand, "close")' => Has(strand, "close")
    <3>1. strand' = strand \/ Post("cancel")
      BY <1>2 DEF Received, GiveUp, Idle, Shutdown, Close, Return, At, Go
    <3> QED
      BY <3>1, PostQueue DEF Handlers
  <2> QED
    BY <1>t, <1>2, <2>1 DEF Received, GiveUp, Idle, Shutdown, Close, Return, At, Go
<1>3. CASE Write(t)
  <2>1. Has(strand, "close")' => Has(strand, "close")
    <3>1. strand' = strand \/ Post("write")
      BY <1>3 DEF Write, At
    <3> QED
      BY <3>1, PostQueue DEF Handlers
  <2> QED
    BY <1>t, <1>3, <2>1 DEF Write, At
<1>4. CASE Upgrade(t)
  <2>1. Has(strand, "close")' => Has(strand, "close")
    <3>1. strand' = strand \/ Post("upgrade")
      BY <1>4 DEF Upgrade, At
    <3> QED
      BY <3>1, PostQueue DEF Handlers
  <2> QED
    BY <1>t, <1>4, <2>1 DEF Upgrade, At
<1>5. CASE ShutdownOnToken(t)
  <2>1. Has(strand, "close")' => Has(strand, "close")
    <3>1. strand' = strand \/ Post("cancel")
      BY <1>5 DEF ShutdownOnToken, Shutdown, Close, At
    <3> QED
      BY <3>1, PostQueue DEF Handlers
  <2> QED
    BY <1>t, <1>5, <2>1 DEF ShutdownOnToken, Shutdown, Close, At
<1>6. CASE TokensProcessed(t)
  <2>1. Has(strand, "close")' <=> Has(strand, "close")
    BY <1>6 DEF TokensProcessed, Go, At
  <2> QED
    BY <1>t, <1>6, <2>1 DEF TokensProcessed, Go, At
<1>7. CASE Process(t)
  <2>1. Has(strand, "close")' <=> Has(strand, "close")
    BY <1>7 DEF Process, Idle, Return, Go, At
  <2> QED
    BY <1>t, <1>7, <2>1 DEF Process, Idle, Return, Go, At
<1>8. CASE Read(t)
  <2>1. Has(strand, "close")' => Has(strand, "close")
    <3>1. strand' = strand \/ Post("read")
      BY <1>8 DEF Read, Uses, Call, Return
    <3> QED
      BY <3>1, PostQueue DEF Handlers
  <2> QED
    BY <1>t, <1>8, <2>1 DEF Read, Uses, Call, Return
<1> QED
  BY <1>1, <1>2, <1>3, <1>4, <1>5, <1>6, <1>7, <1>8 DEF OwnerStep

LEMMA CloseStepPlain ==
  ASSUME TypeOK, PlainBefore, NEW t \in Threads, CloseStep(t)
  PROVE  PlainKept
<1> USE DEF PlainBefore, PlainKept, Plain, IsOpen, PlainTypes,
            connectionVars, operationVars, threadVars, ownerVars
<1>t. PlainTypes
  BY TypedPlain
<1>1. CASE CheckClosed(t)
  <2>1. Has(strand, "close")' <=> Has(strand, "close")
    BY <1>1 DEF CheckClosed, Uses, Go
  <2> QED
    BY <1>t, <1>1, <2>1 DEF CheckClosed, Uses, Go
<1>2. CASE CheckClosing(t)
  <2>1. Has(strand, "close")' <=> Has(strand, "close")
    BY <1>2 DEF CheckClosing, Uses, Go
  <2> QED
    BY <1>t, <1>2, <2>1 DEF CheckClosing, Uses, Go
<1>3. CASE PushCallback(t)
  <2>1. Has(strand, "close")' <=> Has(strand, "close")
    BY <1>3 DEF PushCallback, Uses
  <2> QED
    BY <1>t, <1>3, <2>1 DEF PushCallback, Uses
<1>4. CASE StartClosing(t)
  <2>1. state' = "CLOSING" /\ UNCHANGED <<streams, handshakes, tlsClosing, tlsClosed>>
        /\ \A u \in Threads : pc'[u] \in {"handshaken", "secure"} => pc[u] = pc'[u]
    BY <1>t, <1>4 DEF StartClosing, Uses, Return
  <2> QED
    BY <1>t, <2>1
<1>5. CASE CloseEnded(t)
  <2>1. Has(strand, "close")' <=> Has(strand, "close")
    BY <1>5 DEF CloseEnded, Uses, Idle, Return, Go, Call, AbortOperations
  <2>2. FewerPending
    BY <1>t, <1>5, AbortPending, KeepPending DEF CloseEnded, Uses, Idle, Return, Go, Call
  <2> QED
    BY <1>t, <1>5, <2>1, <2>2 DEF FewerPending, CloseEnded, Uses, Idle, Return, Go, Call
<1>6. CASE CloseWaits(t)
  <2>1. Has(strand, "close")' <=> Has(strand, "close")
    BY <1>6 DEF CloseWaits, Uses, Go, Idle
  <2>2. CASE state = "CLOSING"
    BY <1>t, <1>6, <2>1, <2>2 DEF CloseWaits, Uses, Go
  <2>3. CASE state # "CLOSING"
    BY <1>t, <1>6, <2>1, <2>3 DEF CloseWaits, Uses, Idle, Return
  <2> QED
    BY <2>2, <2>3
<1>7. CASE JoinClosing(t)
  <2>1. Has(strand, "close")' <=> Has(strand, "close")
    BY <1>7 DEF JoinClosing, Uses, Return
  <2> QED
    BY <1>t, <1>7, <2>1 DEF JoinClosing, Uses, Return
<1>8. CASE AnnounceClosed(t)
  <2>1. Has(strand, "close")' => Has(strand, "close")
    <3>1. strand' = strand \/ Post("cancel")
      BY <1>8 DEF AnnounceClosed, Uses, Go
    <3> QED
      BY <3>1, PostQueue DEF Handlers
  <2> QED
    BY <1>t, <1>8, <2>1 DEF AnnounceClosed, Uses, Go
<1>9. CASE CollectCallbacks(t)
  <2>1. Has(strand, "close")' <=> Has(strand, "close")
    BY <1>9 DEF CollectCallbacks, Uses, Return
  <2> QED
    BY <1>t, <1>9, <2>1 DEF CollectCallbacks, Uses, Return
<1>10. CASE CallNext(t)
  <2>1. Has(strand, "close")' <=> Has(strand, "close")
    BY <1>10 DEF CallNext, At, Call, Return, AbortOperations
  <2>2. FewerPending
    BY <1>t, <1>10, AbortPending, KeepPending DEF CallNext, At, Call, Return
  <2> QED
    BY <1>t, <1>10, <2>1, <2>2 DEF FewerPending, CallNext, At, Call, Return
<1> QED
  BY <1>1, <1>2, <1>3, <1>4, <1>5, <1>6, <1>7, <1>8, <1>9, <1>10 DEF CloseStep

LEMMA StrandStepPlain ==
  ASSUME TypeOK, PlainBefore, NEW t \in Threads, StrandStep(t)
  PROVE  PlainKept
<1> USE DEF PlainBefore, PlainKept, Plain, IsOpen, PlainTypes,
            connectionVars, operationVars, threadVars, ownerVars
<1>t. PlainTypes
  BY TypedPlain
<1>1. CASE StrandUpgrade(t)
  <2>1. Has(strand, "close")' => Has(strand, "close")
    BY <1>1, TakeQueue DEF StrandUpgrade, Handlers
  <2>2. CASE streams' > 0
    BY <1>t, <1>1, <2>1, <2>2 DEF StrandUpgrade
  <2>3. CASE ~(streams' > 0)
    <3>1. UNCHANGED <<streams, operationVars, connectionVars, threadVars>>
      BY <1>t, <1>1, <2>3 DEF StrandUpgrade, HasStream
    <3> QED
      BY <1>t, <2>1, <3>1
  <2> QED
    BY <2>2, <2>3
<1>2. CASE StrandRead(t)
  <2>1. Has(strand, "close")' => Has(strand, "close")
    BY <1>2, TakeQueue DEF StrandRead, Handlers
  <2> QED
    BY <1>t, <1>2, <2>1 DEF StrandRead, TakeFromStrand, Uses, SocketUsable, HasStream
<1>3. CASE StrandCancel(t)
  <2>1. Has(strand, "close")' => Has(strand, "close")
    BY <1>3, TakeQueue DEF StrandCancel, Handlers
  <2>2. FewerPending
    BY <1>t, <1>3, AbortPending, KeepPending DEF StrandCancel, TakeFromStrand, Uses,
       SocketUsable, HasStream
  <2> QED
    BY <1>t, <1>3, <2>1, <2>2 DEF FewerPending, StrandCancel, TakeFromStrand, Uses,
       SocketUsable, HasStream
<1>4. CASE StrandWrite(t)
  <2>1. Has(strand, "close")' => Has(strand, "close")
    BY <1>4, TakeQueue DEF StrandWrite, Handlers
  <2> QED
    BY <1>t, <1>4, <2>1 DEF StrandWrite, TakeFromStrand, Uses
<1>5. CASE StrandClose(t)
  <2>1. Has(strand, "close")' => Has(strand, "close")
    BY <1>5, TakeQueue DEF StrandClose, Handlers
  <2>2. Has(strand, "close")
    BY <1>5, TakeQueue DEF StrandClose, Handlers
  <2>3. CASE UNCHANGED operationVars \/ AbortOperations
    <3>1. FewerPending
      BY <1>t, <2>3, AbortPending, KeepPending
    <3> QED
      BY <1>t, <1>5, <2>1, <2>2, <3>1 DEF FewerPending, StrandClose
  <2>4. CASE state = "SECURE" /\ HasStream
    <3>1. UNCHANGED <<state, streams>> /\ streams > 0
      BY <1>5, <2>4 DEF StrandClose
    <3> QED
      BY <1>t, <3>1
  <2> QED
    BY <1>5, <2>3, <2>4 DEF StrandClose
<1> QED
  BY <1>1, <1>2, <1>3, <1>4, <1>5 DEF StrandStep

LEMMA HandlerStepPlain ==
  ASSUME TypeOK, PlainBefore, NEW t \in Threads, HandlerStep(t)
  PROVE  PlainKept
<1> USE DEF PlainBefore, PlainKept, Plain, IsOpen, PlainTypes,
            connectionVars, operationVars, threadVars, ownerVars
<1>t. PlainTypes
  BY TypedPlain
<1>1. CASE HandleRead(t)
  <2>1. Has(strand, "close")' <=> Has(strand, "close")
    BY <1>1 DEF HandleRead, At, Uses, Go, Close
  <2> QED
    BY <1>t, <1>1, <2>1 DEF HandleRead, At, Uses, Go, Close
<1>2. CASE HandleFailedWrite(t)
  <2>1. Has(strand, "close")' <=> Has(strand, "close")
    BY <1>2 DEF HandleFailedWrite, Uses, Close
  <2> QED
    BY <1>t, <1>2, <2>1 DEF HandleFailedWrite, Uses, Close
<1>3. CASE HandleHandshake(t)
  <2>1. Has(strand, "close")' <=> Has(strand, "close")
    BY <1>3 DEF HandleHandshake, Uses, Go
  <2> QED
    BY <1>t, <1>3, <2>1 DEF HandleHandshake, Uses, Go
<1>4. CASE HandshakeEnded(t)
  <2>1. Has(strand, "close")' <=> Has(strand, "close")
    BY <1>4 DEF HandshakeEnded, Uses, Go, Close, AbortOperations
  <2>2. FewerPending
    BY <1>t, <1>4, AbortPending, KeepPending DEF HandshakeEnded, Uses, Go, Close
  <2> QED
    BY <1>t, <1>4, <2>1, <2>2 DEF FewerPending, HandshakeEnded, Uses, Go, Close
<1>5. CASE BecomeSecure(t)
  <2>1. Has(strand, "close")' <=> Has(strand, "close")
    BY <1>5 DEF BecomeSecure, Uses, Return
  <2> QED
    BY <1>t, <1>5, <2>1 DEF BecomeSecure, Uses, Return
<1>6. CASE HandleTlsShutdown(t)
  <2>1. Has(strand, "close")' <=> Has(strand, "close")
    BY <1>6 DEF HandleTlsShutdown, Uses, Go, Fail
  <2> QED
    BY <1>t, <1>6, <2>1 DEF HandleTlsShutdown, Uses, Go, Fail
<1>7. CASE UseAfterDelete(t)
  <2>1. Has(strand, "close")' <=> Has(strand, "close")
    BY <1>7 DEF UseAfterDelete, Fail
  <2> QED
    BY <1>t, <1>7, <2>1 DEF UseAfterDelete, Fail
<1> QED
  BY <1>1, <1>2, <1>3, <1>4, <1>5, <1>6, <1>7 DEF HandlerStep

LEMMA NetworkStepPlain ==
  ASSUME TypeOK, PlainBefore, NetworkStep
  PROVE  PlainKept
<1> USE DEF PlainBefore, PlainKept, Plain, IsOpen, connectionVars, threadVars
<1>t. PlainTypes
  BY TypedPlain
<1>1. FewerPending
  <2>1. CASE ReadEnds \/ WriteEnds
    BY <2>1 DEF ReadEnds, WriteEnds, FewerPending
  <2>2. CASE HandshakeEnds
    BY <1>t, <2>2 DEF PlainTypes, HandshakeEnds, FewerPending
  <2>3. CASE TlsShutdownEnds
    BY <1>t, <2>3 DEF PlainTypes, TlsShutdownEnds, FewerPending
  <2> QED
    BY <2>1, <2>2, <2>3 DEF NetworkStep
<1>2. UNCHANGED <<connectionVars, strand, threadVars>> /\ (Has(strand, "close")' <=> Has(strand, "close"))
  BY DEF NetworkStep
<1> QED
  BY <1>1, <1>2 DEF FewerPending

LEMMA StillPlain ==
  ASSUME PlainBefore, UNCHANGED vars
  PROVE  PlainKept
  BY DEF PlainBefore, PlainKept, Plain, IsOpen, Has, vars, connectionVars, operationVars,
         threadVars

LEMMA StepPlain ==
  ASSUME TypeOK, PlainBefore, [Next]_vars
  PROVE  PlainKept
<1>1. ASSUME NEW t \in Threads, ThreadStep(t) PROVE PlainKept
  BY <1>1, OwnerStepPlain, CloseStepPlain, StrandStepPlain, HandlerStepPlain DEF ThreadStep
<1> QED
  BY <1>1, NetworkStepPlain, StillPlain DEF Next

LEMMA PlainInit ==
  ASSUME Init
  PROVE  PlainBefore
<1>1. \A x : ~Has(<<>>, x)
  BY HasEmpty
<1> QED
  BY <1>1 DEF Init, PlainBefore, Plain, IsOpen

-----------------------------------------------------------------------------
(* What posting and taking a handler does to its data and to the stream.     *)

Data == Payloads \cup {"nothing"}
Written == [data : Payloads, secure : BOOLEAN]

Aligned(o, s) ==
  /\ o \in Seq(Data) /\ s \in Seq(Handlers) /\ Len(o) = Len(s)
  /\ \A i \in 1 .. Len(o) : o[i] \in Payloads <=> s[i] = "write"

LEMMA NothingIsNoPayload == "nothing" \notin Payloads /\ Errors \subseteq Payloads
  BY DEF Payloads, Errors

LEMMA Appended ==
  ASSUME NEW S, NEW s \in Seq(S), NEW e \in S
  PROVE  /\ Append(s, e) \in Seq(S) /\ Len(Append(s, e)) = Len(s) + 1
         /\ \A i \in 1 .. Len(s) : Append(s, e)[i] = s[i]
         /\ Append(s, e)[Len(s) + 1] = e
         /\ Len(s) \in Nat
  OBVIOUS

LEMMA Taken ==
  ASSUME NEW S, NEW s \in Seq(S), s # <<>>
  PROVE  /\ Tail(s) \in Seq(S) /\ Len(Tail(s)) = Len(s) - 1
         /\ \A i \in 1 .. Len(Tail(s)) : Tail(s)[i] = s[i + 1]
         /\ Head(s) = s[1] /\ Len(s) \in Nat \ {0}
  OBVIOUS

LEMMA AlignedPost ==
  ASSUME NEW o, NEW s, Aligned(o, s), NEW x \in Data, NEW h \in Handlers,
         x \in Payloads <=> h = "write"
  PROVE  Aligned(Append(o, x), Append(s, h))
<1>1. o \in Seq(Data) /\ s \in Seq(Handlers) /\ Len(o) = Len(s)
  BY DEF Aligned
<1> QED
  BY <1>1, Appended DEF Aligned

LEMMA AlignedTake ==
  ASSUME NEW o, NEW s, Aligned(o, s), s # <<>>
  PROVE  /\ o # <<>> /\ Aligned(Tail(o), Tail(s))
         /\ o[1] \in Payloads <=> Head(s) = "write"
<1>1. o \in Seq(Data) /\ s \in Seq(Handlers) /\ Len(o) = Len(s)
  BY DEF Aligned
<1>2. o # <<>>
  BY <1>1
<1>3. Aligned(Tail(o), Tail(s))
  <2>1. \A i \in 1 .. Len(Tail(o)) : i + 1 \in 1 .. Len(o)
    BY <1>1, <1>2, Taken
  <2> QED
    BY <1>1, <1>2, <2>1, Taken DEF Aligned
<1> QED
  BY <1>1, <1>2, <1>3, Taken DEF Aligned

LEMMA SaidAfterPost ==
  ASSUME NEW o \in Seq(Data), NEW w, NEW x \in Data, NEW d
  PROVE  /\ \A p \in 1 .. Len(o) + 1 : Says(Append(o, x), w, p, d) => Says(o, w, p, d)
         /\ x = "nothing" /\ Says(Append(o, x), w, Len(o) + 2, d) => Says(o, w, Len(o) + 1, d)
         /\ x # "nothing" /\ Says(Append(o, x), w, Len(o) + 2, d) => d = x
<1> DEFINE n == Append(o, x)
<1>1. /\ Len(n) = Len(o) + 1 /\ \A i \in 1 .. Len(o) : n[i] = o[i]
      /\ n[Len(o) + 1] = x /\ Len(o) \in Nat
  BY Appended
<1> HIDE DEF n
<1>2. ASSUME NEW p \in 1 .. Len(o) + 1, Says(n, w, p, d) PROVE Says(o, w, p, d)
  <2>1. \A i \in 1 .. p - 1 : n[i] = o[i]
    BY <1>1
  <2> QED
    BY <1>1, <1>2, <2>1 DEF Says
<1>3. ASSUME x = "nothing", Says(n, w, Len(o) + 2, d) PROVE Says(o, w, Len(o) + 1, d)
  <2>1. CASE \E i \in 1 .. Len(o) + 2 - 1 : /\ n[i] = d /\ d # "nothing"
                                            /\ \A j \in i + 1 .. Len(o) + 2 - 1 : n[j] = "nothing"
    <3>1. PICK i \in 1 .. Len(o) + 1 : /\ n[i] = d /\ d # "nothing"
                                       /\ \A j \in i + 1 .. Len(o) + 1 : n[j] = "nothing"
      BY <1>1, <2>1
    <3>2. i \in 1 .. Len(o) + 1 - 1 /\ o[i] = d
      BY <1>1, <1>3, <3>1
    <3>3. \A j \in i + 1 .. Len(o) + 1 - 1 : o[j] = "nothing"
      BY <1>1, <3>1, <3>2
    <3> QED
      BY <3>1, <3>2, <3>3 DEF Says
  <2>2. CASE /\ \A j \in 1 .. Len(o) + 2 - 1 : n[j] = "nothing"
             /\ d = IF w = <<>> THEN "nothing" ELSE w[Len(w)].data
    <3>1. \A j \in 1 .. Len(o) + 1 - 1 : o[j] = "nothing"
      BY <1>1, <2>2
    <3> QED
      BY <2>2, <3>1 DEF Says
  <2> QED
    BY <1>3, <2>1, <2>2 DEF Says
<1>4. ASSUME x # "nothing", Says(n, w, Len(o) + 2, d) PROVE d = x
  <2>1. Len(o) + 1 \in 1 .. Len(o) + 2 - 1
    BY <1>1
  <2>2. PICK i \in 1 .. Len(o) + 2 - 1 : /\ n[i] = d
                                         /\ \A j \in i + 1 .. Len(o) + 2 - 1 : n[j] = "nothing"
    BY <1>1, <1>4, <2>1 DEF Says
  <2>3. i = Len(o) + 1
    BY <1>1, <1>4, <2>1, <2>2
  <2> QED
    BY <1>1, <2>2, <2>3
<1> QED
  BY <1>2, <1>3, <1>4 DEF n

(* A handler has left the strand, and its data is on the wire or there was    *)
(* none.                                                                     *)
Delivered(o, w, v) ==
  \/ o[1] = "nothing" /\ v = w
  \/ \E e \in Written : o[1] = e.data /\ e.data # "nothing" /\ v = Append(w, e)

LEMMA SaidAfterTake ==
  ASSUME NEW o \in Seq(Data), o # <<>>, NEW w \in Seq(Written), NEW v, Delivered(o, w, v),
         NEW p \in 1 .. Len(o), NEW d, Says(Tail(o), v, p, d)
  PROVE  Says(o, w, p + 1, d)
<1> DEFINE n == Tail(o)
<1>1. /\ \A i \in 1 .. Len(n) : n[i] = o[i + 1]
      /\ Len(n) = Len(o) - 1 /\ Len(o) \in Nat \ {0}
  BY Taken
<1> HIDE DEF n
<1>2. \A i \in 1 .. p - 1 : n[i] = o[i + 1]
  BY <1>1
<1>3. CASE \E i \in 1 .. p - 1 : /\ n[i] = d /\ d # "nothing"
                                 /\ \A j \in i + 1 .. p - 1 : n[j] = "nothing"
  <2>1. PICK i \in 1 .. p - 1 : /\ n[i] = d /\ d # "nothing"
                                /\ \A j \in i + 1 .. p - 1 : n[j] = "nothing"
    BY <1>3
  <2>2. i + 1 \in 1 .. p + 1 - 1 /\ o[i + 1] = d
    BY <1>2, <2>1
  <2>3. ASSUME NEW j \in i + 1 + 1 .. p + 1 - 1 PROVE o[j] = "nothing"
    <3>1. j - 1 \in i + 1 .. p - 1 /\ j - 1 \in 1 .. p - 1 /\ j - 1 + 1 = j
      BY <2>1
    <3> QED
      BY <1>2, <2>1, <3>1
  <2> QED
    BY <2>1, <2>2, <2>3 DEF Says
<1>4. CASE /\ \A j \in 1 .. p - 1 : n[j] = "nothing"
           /\ d = IF v = <<>> THEN "nothing" ELSE v[Len(v)].data
  <2>1. ASSUME NEW j \in 1 + 1 .. p + 1 - 1 PROVE o[j] = "nothing"
    <3>1. j - 1 \in 1 .. p - 1 /\ j - 1 + 1 = j
      OBVIOUS
    <3> QED
      BY <1>2, <1>4, <3>1
  <2>2. CASE o[1] = "nothing" /\ v = w
    <3>1. \A j \in 1 .. p + 1 - 1 : j = 1 \/ j \in 1 + 1 .. p + 1 - 1
      OBVIOUS
    <3>2. \A j \in 1 .. p + 1 - 1 : o[j] = "nothing"
      BY <2>1, <2>2, <3>1
    <3> QED
      BY <1>4, <2>2, <3>2 DEF Says
  <2>3. CASE o[1] # "nothing"
    <3>1. PICK e \in Written : o[1] = e.data /\ v = Append(w, e)
      BY <2>3 DEF Delivered
    <3>2. v # <<>> /\ v[Len(v)] = e
      BY <3>1, Appended
    <3>3. d = o[1] /\ 1 \in 1 .. p + 1 - 1
      BY <1>4, <3>1, <3>2
    <3> QED
      BY <2>1, <2>3, <3>3 DEF Says
  <2> QED
    BY <2>2, <2>3 DEF Delivered
<1> QED
  BY <1>3, <1>4 DEF Says, n

LEMMA GoesOnPost ==
  ASSUME NEW o, NEW s, Aligned(o, s), NEW w, GoesOn(o, s, w), NEW x \in Data, NEW h \in Handlers,
         \A d : Says(o, w, Len(o) + 1, d) => Fits(d, x, h)
  PROVE  GoesOn(Append(o, x), Append(s, h), w)
<1>1. o \in Seq(Data) /\ s \in Seq(Handlers) /\ Len(o) = Len(s)
  BY DEF Aligned
<1>2. /\ \A p \in 1 .. Len(o) : Append(o, x)[p] = o[p] /\ Append(s, h)[p] = s[p]
      /\ Append(o, x)[Len(o) + 1] = x /\ Append(s, h)[Len(o) + 1] = h
      /\ Len(Append(o, x)) = Len(o) + 1 /\ Len(o) \in Nat
  BY <1>1, Appended
<1>3. ASSUME NEW p \in 1 .. Len(o) + 1, NEW d, Says(Append(o, x), w, p, d)
      PROVE  Fits(d, Append(o, x)[p], Append(s, h)[p])
  <2>1. Says(o, w, p, d)
    BY <1>1, <1>3, SaidAfterPost
  <2>2. CASE p = Len(o) + 1
    BY <1>2, <2>1, <2>2
  <2>3. CASE p # Len(o) + 1
    <3>1. p \in 1 .. Len(o)
      BY <1>2, <2>3
    <3> QED
      BY <1>2, <2>1, <3>1 DEF GoesOn
  <2> QED
    BY <2>2, <2>3
<1> QED
  BY <1>2, <1>3 DEF GoesOn

LEMMA GoesOnTake ==
  ASSUME NEW o, NEW s, Aligned(o, s), s # <<>>, NEW w \in Seq(Written), GoesOn(o, s, w),
         NEW v, Delivered(o, w, v)
  PROVE  /\ GoesOn(Tail(o), Tail(s), v)
         /\ \A d : Says(Tail(o), v, Len(Tail(o)) + 1, d) => Says(o, w, Len(o) + 1, d)
<1>1. o \in Seq(Data) /\ s \in Seq(Handlers) /\ Len(o) = Len(s) /\ o # <<>>
  BY AlignedTake DEF Aligned
<1>2. /\ \A p \in 1 .. Len(Tail(o)) : Tail(o)[p] = o[p + 1] /\ Tail(s)[p] = s[p + 1]
      /\ Len(Tail(o)) = Len(o) - 1 /\ Len(o) \in Nat \ {0}
  <2>1. s # <<>>
    BY <1>1
  <2>2. \A p \in 1 .. Len(Tail(o)) : p \in 1 .. Len(Tail(s))
    BY <1>1, <2>1, Taken
  <2> QED
    BY <1>1, <2>1, <2>2, Taken
<1>3. ASSUME NEW p \in 1 .. Len(Tail(o)), NEW d, Says(Tail(o), v, p, d)
      PROVE  Fits(d, Tail(o)[p], Tail(s)[p])
  <2>1. p \in 1 .. Len(o) /\ p + 1 \in 1 .. Len(o)
    BY <1>2
  <2>2. Says(o, w, p + 1, d)
    BY <1>1, <1>3, <2>1, SaidAfterTake
  <2> QED
    BY <1>2, <2>1, <2>2 DEF GoesOn
<1>4. ASSUME NEW d, Says(Tail(o), v, Len(Tail(o)) + 1, d) PROVE Says(o, w, Len(o) + 1, d)
  <2>1. Len(Tail(o)) + 1 = Len(o) /\ Len(o) \in 1 .. Len(o)
    BY <1>2
  <2> QED
    BY <1>1, <1>4, <2>1, SaidAfterTake
<1> QED
  BY <1>3, <1>4 DEF GoesOn

LEMMA ErrorPost ==
  ASSUME NEW o \in Seq(Data), NEW w, ErrorIsLast(o, w), NEW x \in Data,
         x # "nothing" => ~HasError(o, w)
  PROVE  /\ ErrorIsLast(Append(o, x), w)
         /\ HasError(Append(o, x), w) => HasError(o, w) \/ x \in Errors
<1> DEFINE n == Append(o, x)
<1>1. /\ Len(n) = Len(o) + 1 /\ \A i \in 1 .. Len(o) : n[i] = o[i]
      /\ n[Len(o) + 1] = x /\ Len(o) \in Nat
  BY Appended
<1>2. \A i \in 1 .. Len(n) : i \in 1 .. Len(o) \/ i = Len(o) + 1
  BY <1>1
<1> HIDE DEF n
<1>3. HasError(n, w) => HasError(o, w) \/ x \in Errors
  BY <1>1, <1>2 DEF HasError
<1>4. ErrorIsLast(n, w)
  <2>1. CASE x = "nothing"
    <3>1. x \notin Errors
      BY <2>1, NothingIsNoPayload
    <3> QED
      BY <1>1, <1>2, <2>1, <3>1 DEF ErrorIsLast
  <2>2. CASE ~HasError(o, w)
    <3>1. \A i \in 1 .. Len(n) : n[i] \in Errors => i = Len(o) + 1
      BY <1>1, <1>2, <2>2 DEF HasError
    <3>2. \A i \in 1 .. Len(w) : w[i].data \notin Errors
      BY <2>2 DEF HasError
    <3>3. \A i \in 1 .. Len(n) : n[i] \in Errors => \A j \in 1 .. Len(n) : ~(j > i)
      BY <1>1, <3>1
    <3> QED
      BY <3>2, <3>3 DEF ErrorIsLast
  <2> QED
    BY <2>1, <2>2
<1> QED
  BY <1>3, <1>4 DEF n

(* The first handler leaves the strand; its data goes out or is dropped.     *)
LEMMA ErrorTake ==
  ASSUME NEW o \in Seq(Data), o # <<>>, NEW w \in Seq(Written), ErrorIsLast(o, w),
         NEW v, v = w \/ Delivered(o, w, v)
  PROVE  /\ ErrorIsLast(Tail(o), v)
         /\ HasError(Tail(o), v) => HasError(o, w)
<1> DEFINE n == Tail(o)
<1>1. /\ \A i \in 1 .. Len(n) : n[i] = o[i + 1] /\ i + 1 \in 1 .. Len(o)
      /\ Len(n) = Len(o) - 1 /\ Len(o) \in Nat \ {0} /\ 1 \in 1 .. Len(o)
  BY Taken
<1> HIDE DEF n
<1>2. \A i \in 1 .. Len(n) : n[i] \in Errors => \A j \in 1 .. Len(n) : j > i => n[j] = "nothing"
  <2> SUFFICES ASSUME NEW i \in 1 .. Len(n), n[i] \in Errors, NEW j \in 1 .. Len(n), j > i
               PROVE  n[j] = "nothing"
    OBVIOUS
  <2>1. j + 1 > i + 1
    OBVIOUS
  <2> QED
    BY <1>1, <2>1 DEF ErrorIsLast
<1>3. CASE v = w
  <2>1. \A i \in 1 .. Len(v) : v[i].data \in Errors =>
          i = Len(v) /\ \A j \in 1 .. Len(n) : n[j] = "nothing"
    BY <1>1, <1>3 DEF ErrorIsLast
  <2> QED
    BY <1>1, <1>2, <1>3, <2>1 DEF ErrorIsLast, HasError, n
<1>4. CASE v # w
  <2>1. PICK e \in Written : o[1] = e.data /\ e.data # "nothing" /\ v = Append(w, e)
    BY <1>4 DEF Delivered
  <2>2. /\ Len(v) = Len(w) + 1 /\ v[Len(w) + 1] = e /\ Len(w) \in Nat
        /\ \A i \in 1 .. Len(w) : v[i] = w[i]
    BY <2>1, Appended
  <2>3. \A i \in 1 .. Len(v) : i \in 1 .. Len(w) \/ i = Len(w) + 1
    BY <2>2
  <2>4. \A i \in 1 .. Len(w) : w[i].data \notin Errors
    BY <1>1, <2>1 DEF ErrorIsLast
  <2>5. \A i \in 1 .. Len(v) : v[i].data \in Errors => i = Len(v) /\ o[1] \in Errors
    BY <2>1, <2>2, <2>3, <2>4
  <2>6. o[1] \in Errors => \A j \in 1 .. Len(n) : n[j] = "nothing"
    <3>1. \A j \in 1 .. Len(n) : j + 1 > 1
      OBVIOUS
    <3> QED
      BY <1>1, <3>1 DEF ErrorIsLast
  <2> QED
    BY <1>1, <1>2, <2>5, <2>6 DEF ErrorIsLast, HasError, n
<1> QED
  BY <1>3, <1>4


-----------------------------------------------------------------------------
(* The type of the session's state.                                          *)

ReaderOK ==
  /\ streamHandler \in {"none", "negotiation", "unimplemented"}
  /\ reader \in Threads \cup {"none"}
  /\ tokens \in BoundedSeq(Tokens, MaxTokens)
  /\ crash \in {"none", "null_connection", "bad_name"}
  /\ reader = "none" => tokens = <<>> /\ calls = <<>>

LEMMA ScriptsBounded ==
  Scripts \subseteq BoundedSeq(Payloads \cup {"upgrade", "shutdown"}, 3)
<1> DEFINE C == Payloads \cup {"upgrade", "shutdown"}
<1>1. ASSUME NEW c \in Scripts PROVE c \in Seq(C) /\ Len(c) \in 0 .. 3
  <2>1. /\ "header" \in C /\ "features" \in C /\ "proceed" \in C /\ "error" \in C
        /\ "refusal" \in C /\ "violation" \in C /\ "footer" \in C /\ "upgrade" \in C /\ "shutdown" \in C
    BY DEF Payloads
  <2>2. ASSUME NEW x \in C, NEW y \in C, NEW z \in C
        PROVE  /\ <<>> \in Seq(C) /\ <<x>> \in Seq(C) /\ <<x, y>> \in Seq(C) /\ <<x, y, z>> \in Seq(C)
               /\ Len(<<>>) = 0 /\ Len(<<x>>) = 1 /\ Len(<<x, y>>) = 2 /\ Len(<<x, y, z>>) = 3
    <3> HIDE DEF C
    <3> QED
      OBVIOUS
  <2> HIDE DEF C
  <2>3. \E x \in C, y \in C, z \in C : c = <<>> \/ c = <<x>> \/ c = <<x, y>> \/ c = <<x, y, z>>
    BY <1>1, <2>1, Zenon DEF Scripts
  <2>4. PICK x \in C, y \in C, z \in C : c = <<>> \/ c = <<x>> \/ c = <<x, y>> \/ c = <<x, y, z>>
    BY <2>3
  <2>5. c \in Seq(C) /\ (Len(c) = 0 \/ Len(c) = 1 \/ Len(c) = 2 \/ Len(c) = 3)
    BY <2>2, <2>4, Zenon
  <2> QED
    BY <2>5
<1>2. ASSUME NEW c \in Seq(C), Len(c) \in 0 .. 3 PROVE c \in BoundedSeq(C, 3)
  <2>1. c \in [1 .. Len(c) -> C]
    BY <1>2
  <2> HIDE DEF C
  <2> QED
    BY <1>2, <2>1 DEF BoundedSeq, SeqOf
<1> QED
  BY <1>1, <1>2

LEMMA TailBounded ==
  ASSUME NEW S, NEW n \in Nat, NEW s \in BoundedSeq(S, n), s # <<>>
  PROVE  Tail(s) \in BoundedSeq(S, n)
<1>1. PICK m \in 0 .. n : s \in [1 .. m -> S]
  BY DEF BoundedSeq, SeqOf
<1>2. s \in Seq(S) /\ Len(s) = m /\ m # 0
  BY <1>1
<1>3. Tail(s) \in [1 .. m - 1 -> S] /\ m - 1 \in 0 .. n
  <2>1. Tail(s) \in Seq(S) /\ Len(Tail(s)) = m - 1 /\ m \in Nat
    BY <1>1, <1>2, Taken
  <2>2. Tail(s) \in [1 .. Len(Tail(s)) -> S]
    <3>1. \A r \in Seq(S) : r \in [1 .. Len(r) -> S]
      OBVIOUS
    <3> QED
      BY <2>1, <3>1
  <2> QED
    BY <1>2, <2>1, <2>2
<1> QED
  BY <1>3 DEF BoundedSeq, SeqOf

LEMMA EmptyBounded ==
  ASSUME NEW S, NEW n \in Nat
  PROVE  <<>> \in BoundedSeq(S, n)
<1>1. <<>> \in [1 .. 0 -> S] /\ 0 \in 0 .. n
  OBVIOUS
<1> QED
  BY <1>1 DEF BoundedSeq, SeqOf

LEMMA TypeParts ==
  ASSUME TypeOK
  PROVE  /\ SessionTypeOK => Aligned(outbox, strand) /\ wire \in Seq(Written) /\ ReaderOK
         /\ Aligned(outbox, strand) /\ wire \in Seq(Written) /\ ReaderOK /\ calls \in Scripts
              => SessionTypeOK
<1>1. strand \in Seq(Handlers)
  BY DEF TypeOK
<1>2. outbox \in Seq(Data) => DOMAIN outbox = 1 .. Len(outbox)
  OBVIOUS
<1>3. calls \in Scripts => calls \in BoundedSeq(Payloads \cup {"upgrade", "shutdown"}, 3)
  BY ScriptsBounded
<1> QED
  BY <1>1, <1>2, <1>3 DEF SessionTypeOK, Aligned, ReaderOK, Written, Data

LEMMA TypePartsNext ==
  ASSUME TypeOK', Aligned(outbox, strand)', (wire \in Seq(Written))', ReaderOK', (calls \in Scripts)'
  PROVE  SessionTypeOK'
<1>1. (outbox \in Seq(Data) => DOMAIN outbox = 1 .. Len(outbox))'
  OBVIOUS
<1>2. (calls \in BoundedSeq(Payloads \cup {"upgrade", "shutdown"}, 3))'
  BY ScriptsBounded
<1> QED
  BY <1>1, <1>2 DEF SessionTypeOK, Aligned, ReaderOK, Written, Data

-----------------------------------------------------------------------------
(* Steps that say nothing.                                                   *)

Silent == {"cancel", "read", "close"}

(* A handler that carries no data comes to the strand, or leaves it.         *)
Moves(o, s, v, u) ==
  \/ v = o /\ u = s
  \/ v = Append(o, "nothing") /\ \E h \in Silent : u = Append(s, h)
  \/ s # <<>> /\ Head(s) # "write" /\ v = Tail(o) /\ u = Tail(s)

LEMMA QuietMove ==
  ASSUME NEW o, NEW s, Aligned(o, s), NEW w \in Seq(Written), ErrorIsLast(o, w),
         NEW v, NEW u, Moves(o, s, v, u)
  PROVE  /\ Aligned(v, u) /\ ErrorIsLast(v, w) /\ (HasError(v, w) => HasError(o, w))
         /\ GoesOn(o, s, w) =>
              /\ GoesOn(v, u, w)
              /\ \A d : Says(v, w, Len(v) + 1, d) => Says(o, w, Len(o) + 1, d)
<1>1. o \in Seq(Data) /\ Len(o) \in Nat
  BY DEF Aligned
<1>2. CASE v = o /\ u = s
  BY <1>2
<1>3. CASE v = Append(o, "nothing") /\ \E h \in Silent : u = Append(s, h)
  <2>1. PICK h \in Silent : u = Append(s, h)
    BY <1>3
  <2>2. h \in Handlers /\ h # "write" /\ h # "upgrade" /\ "nothing" \in Data
    BY DEF Silent, Handlers, Data
  <2>3. "nothing" \notin Payloads /\ "nothing" \notin Errors
    BY NothingIsNoPayload
  <2>4. Aligned(v, u)
    BY <1>3, <2>1, <2>2, <2>3, AlignedPost
  <2>5. ErrorIsLast(v, w) /\ (HasError(v, w) => HasError(o, w))
    BY <1>1, <1>3, <2>2, <2>3, ErrorPost
  <2>6. GoesOn(o, s, w) => GoesOn(v, u, w)
    <3>1. \A d : Fits(d, "nothing", h)
      BY <2>2 DEF Fits
    <3> QED
      BY <1>3, <2>1, <2>2, <3>1, GoesOnPost
  <2>7. \A d : Says(v, w, Len(v) + 1, d) => Says(o, w, Len(o) + 1, d)
    <3>1. Len(v) + 1 = Len(o) + 2
      BY <1>1, <1>3, <2>2, Appended
    <3> QED
      BY <1>1, <1>3, <2>2, <3>1, SaidAfterPost
  <2> QED
    BY <2>4, <2>5, <2>6, <2>7
<1>4. CASE s # <<>> /\ Head(s) # "write" /\ v = Tail(o) /\ u = Tail(s)
  <2>1. o # <<>> /\ Aligned(v, u) /\ o[1] \notin Payloads
    BY <1>4, AlignedTake
  <2>2. o[1] \in Data
    BY <1>1, <2>1
  <2>3. Delivered(o, w, w)
    BY <2>1, <2>2 DEF Delivered, Data
  <2>4. ErrorIsLast(v, w) /\ (HasError(v, w) => HasError(o, w))
    BY <1>1, <1>4, <2>1, ErrorTake
  <2>5. GoesOn(o, s, w) =>
          /\ GoesOn(v, u, w)
          /\ \A d : Says(v, w, Len(v) + 1, d) => Says(o, w, Len(o) + 1, d)
    BY <1>4, <2>3, GoesOnTake
  <2> QED
    BY <2>1, <2>4, <2>5
<1> QED
  BY <1>2, <1>3, <1>4 DEF Moves

QuietStrand ==
  \/ strand' = strand
  \/ \E h \in Silent : strand' = Append(strand, h)
  \/ strand # <<>> /\ Head(strand) # "write" /\ strand' = Tail(strand)

LEMMA QuietCarry ==
  ASSUME Aligned(outbox, strand), QuietStrand, Carry("nothing")
  PROVE  Moves(outbox, strand, outbox', strand')
<1>1. strand \in Seq(Handlers) /\ Silent \subseteq Handlers
  BY DEF Aligned, Silent, Handlers
<1>2. CASE strand' = strand
  <2>1. Len(strand') = Len(strand) /\ Len(strand) \in Nat
    BY <1>1, <1>2
  <2> QED
    BY <1>2, <2>1 DEF Carry, Moves
<1>3. CASE \E h \in Silent : strand' = Append(strand, h)
  <2>1. PICK h \in Silent : strand' = Append(strand, h)
    BY <1>3
  <2>2. Len(strand') = Len(strand) + 1 /\ Len(strand) \in Nat
    BY <1>1, <2>1, Appended
  <2> QED
    BY <2>1, <2>2 DEF Carry, Moves
<1>4. CASE strand # <<>> /\ Head(strand) # "write" /\ strand' = Tail(strand)
  <2>1. Len(strand') = Len(strand) - 1 /\ Len(strand) \in Nat
    BY <1>1, <1>4, Taken
  <2>2. outbox' = Tail(outbox)
    BY <2>1 DEF Carry
  <2> QED
    BY <1>4, <2>2 DEF Moves
<1> QED
  BY <1>2, <1>3, <1>4 DEF QuietStrand

(* What a step that says nothing keeps of the connection.                    *)
SaysNothing == QuietStrand /\ streams' = streams /\ (released => released')

LEMMA OwnerSaysNothing ==
  ASSUME NEW t \in Threads,
         \/ Aborted(t) \/ Received(t) \/ ShutdownOnToken(t) \/ TokensProcessed(t)
         \/ Process(t) \/ Read(t)
  PROVE  SaysNothing
<1> USE DEF SaysNothing, QuietStrand, Silent, Post, connectionVars, ownerVars
<1>1. CASE Aborted(t) \/ Received(t) \/ ShutdownOnToken(t)
  BY <1>1 DEF Aborted, Received, ShutdownOnToken, GiveUp, Shutdown, Idle
<1>2. CASE TokensProcessed(t) \/ Process(t)
  BY <1>2 DEF TokensProcessed, Process, Idle
<1>3. CASE Read(t)
  BY <1>3 DEF Read, Call
<1> QED
  BY <1>1, <1>2, <1>3

LEMMA CloseSaysNothing ==
  ASSUME NEW t \in Threads, CloseStep(t)
  PROVE  SaysNothing
<1> USE DEF SaysNothing, QuietStrand, Silent, Post, connectionVars, ownerVars
<1>1. CASE CheckClosed(t) \/ CheckClosing(t) \/ PushCallback(t) \/ StartClosing(t)
  BY <1>1 DEF CheckClosed, CheckClosing, PushCallback, StartClosing
<1>2. CASE CloseEnded(t) \/ CloseWaits(t) \/ JoinClosing(t)
  BY <1>2 DEF CloseEnded, CloseWaits, JoinClosing, Idle, Call
<1>3. CASE AnnounceClosed(t) \/ CollectCallbacks(t)
  BY <1>3 DEF AnnounceClosed, CollectCallbacks
<1>4. CASE CallNext(t)
  BY <1>4 DEF CallNext, Call
<1> QED
  BY <1>1, <1>2, <1>3, <1>4 DEF CloseStep

LEMMA HandlerSaysNothing ==
  ASSUME NEW t \in Threads, HandlerStep(t)
  PROVE  SaysNothing
<1> USE DEF SaysNothing, QuietStrand, connectionVars, ownerVars
<1>1. CASE HandleRead(t) \/ HandleFailedWrite(t) \/ HandleHandshake(t)
  BY <1>1 DEF HandleRead, HandleFailedWrite, HandleHandshake
<1>2. CASE HandshakeEnded(t) \/ BecomeSecure(t)
  BY <1>2 DEF HandshakeEnded, BecomeSecure
<1>3. CASE HandleTlsShutdown(t) \/ UseAfterDelete(t)
  BY <1>3 DEF HandleTlsShutdown, UseAfterDelete, Fail
<1> QED
  BY <1>1, <1>2, <1>3 DEF HandlerStep

LEMMA StrandSaysNothing ==
  ASSUME NEW t \in Threads, StrandRead(t) \/ StrandCancel(t) \/ StrandClose(t)
  PROVE  SaysNothing
<1> USE DEF SaysNothing, QuietStrand, TakeFromStrand, connectionVars, ownerVars
<1>1. CASE StrandRead(t)
  BY <1>1 DEF StrandRead
<1>2. CASE StrandCancel(t)
  BY <1>2 DEF StrandCancel
<1>3. CASE StrandClose(t)
  BY <1>3 DEF StrandClose
<1> QED
  BY <1>1, <1>2, <1>3

-----------------------------------------------------------------------------
(* What onXmlToken has still to call, call after call.                       *)

LEMMA CallParts ==
  /\ \A x : Head(<<x>>) = x /\ Tail(<<x>>) = <<>>
  /\ \A x, y : Head(<<x, y>>) = x /\ Tail(<<x, y>>) = <<y>>
  /\ \A x, y, z : Head(<<x, y, z>>) = x /\ Tail(<<x, y, z>>) = <<y, z>>
  OBVIOUS

LEMMA TurnOfScript ==
  ASSUME NEW c \in Scripts, c # <<>>
  PROVE  /\ Tail(c) \in Scripts
         /\ Head(c) = "upgrade" => c = <<"upgrade">>
         /\ Head(c) \in Errors => Tail(c) = <<"shutdown">>
         /\ Head(c) \in Payloads => c # <<"shutdown">>
<1>1. \/ c = <<"features">> \/ c = <<"upgrade">> \/ c = <<"footer">> \/ c = <<"shutdown">>
      \/ c = <<"header", "error", "shutdown">> \/ c = <<"header", "features">>
      \/ c = <<"proceed", "upgrade">> \/ c = <<"error", "shutdown">> \/ c = <<"refusal", "shutdown">>
      \/ c = <<"violation", "shutdown">>
  BY DEF Scripts
<1>2. /\ "header" \notin Errors /\ "features" \notin Errors /\ "proceed" \notin Errors
      /\ "footer" \notin Errors /\ "upgrade" \notin Errors /\ "shutdown" \notin Errors \cup Payloads
  BY DEF Errors, Payloads
<1>3. CASE c = <<"features">>
  <2>1. Head(c) = "features" /\ Tail(c) = <<>>
    BY <1>3, CallParts
  <2> QED
    BY <1>2, <1>3, <2>1, CallParts DEF Scripts
<1>4. CASE c = <<"upgrade">>
  <2>1. Head(c) = "upgrade" /\ Tail(c) = <<>>
    BY <1>4, CallParts
  <2> QED
    BY <1>2, <1>4, <2>1, CallParts DEF Scripts
<1>5. CASE c = <<"footer">>
  <2>1. Head(c) = "footer" /\ Tail(c) = <<>>
    BY <1>5, CallParts
  <2> QED
    BY <1>2, <1>5, <2>1, CallParts DEF Scripts
<1>6. CASE c = <<"shutdown">>
  <2>1. Head(c) = "shutdown" /\ Tail(c) = <<>>
    BY <1>6, CallParts
  <2> QED
    BY <1>2, <1>6, <2>1, CallParts DEF Scripts
<1>7. CASE c = <<"header", "error", "shutdown">>
  <2>1. Head(c) = "header" /\ Tail(c) = <<"error", "shutdown">>
    BY <1>7, CallParts
  <2> QED
    BY <1>2, <1>7, <2>1, CallParts DEF Scripts
<1>8. CASE c = <<"header", "features">>
  <2>1. Head(c) = "header" /\ Tail(c) = <<"features">>
    BY <1>8, CallParts
  <2> QED
    BY <1>2, <1>8, <2>1, CallParts DEF Scripts
<1>9. CASE c = <<"proceed", "upgrade">>
  <2>1. Head(c) = "proceed" /\ Tail(c) = <<"upgrade">>
    BY <1>9, CallParts
  <2> QED
    BY <1>2, <1>9, <2>1, CallParts DEF Scripts
<1>10. CASE c = <<"error", "shutdown">>
  <2>1. Head(c) = "error" /\ Tail(c) = <<"shutdown">>
    BY <1>10, CallParts
  <2> QED
    BY <1>2, <1>10, <2>1, CallParts DEF Scripts
<1>11. CASE c = <<"refusal", "shutdown">>
  <2>1. Head(c) = "refusal" /\ Tail(c) = <<"shutdown">>
    BY <1>11, CallParts
  <2> QED
    BY <1>2, <1>11, <2>1, CallParts DEF Scripts
<1>12. CASE c = <<"violation", "shutdown">>
  <2>1. Head(c) = "violation" /\ Tail(c) = <<"shutdown">>
    BY <1>12, CallParts
  <2> QED
    BY <1>2, <1>12, <2>1, CallParts DEF Scripts
<1> QED
  BY <1>1, <1>3, <1>4, <1>5, <1>6, <1>7, <1>8, <1>9, <1>10, <1>11, <1>12

LEMMA InOrder ==
  /\ <<"header", "features">> \in Follows
  /\ \A d \in {"features", "proceed"} : \A e \in {"proceed", "footer", "error", "violation"} :
       <<d, e>> \in Follows
  /\ \A e \in {"header", "refusal"} : <<"footer", e>> \in Follows
  BY DEF Follows

(* What is written next may follow what was written last, and leaves in turn  *)
(* what follows from it.                                                     *)
LEMMA WriteInTurn ==
  ASSUME NEW d, NEW handler, NEW c, FollowsFrom(d, handler, c), c # <<>>, Head(c) \in Payloads
  PROVE  Fits(d, Head(c), "write") /\ FollowsFrom(Head(c), handler, Tail(c))
<1> SUFFICES MayFollow(d, Head(c)) /\ FollowsFrom(Head(c), handler, Tail(c))
  BY DEF Fits
<1>1. CASE c = <<"refusal", "shutdown">>
  <2>1. Head(c) = "refusal" /\ Tail(c) = <<"shutdown">>
    BY <1>1, CallParts
  <2>2. FollowsFrom(Head(c), handler, Tail(c))
    BY <1>1, <2>1, CallParts DEF FollowsFrom
  <2>3. MayFollow(d, Head(c))
    BY <1>1, <2>1, CallParts, InOrder DEF FollowsFrom, MayFollow
  <2> QED
    BY <2>2, <2>3
<1>2. CASE c = <<"error", "shutdown">>
  <2>1. Head(c) = "error" /\ Tail(c) = <<"shutdown">>
    BY <1>2, CallParts
  <2>2. FollowsFrom(Head(c), handler, Tail(c))
    BY <1>2, <2>1, CallParts DEF FollowsFrom
  <2>3. MayFollow(d, Head(c))
    BY <1>2, <2>1, CallParts, InOrder DEF FollowsFrom, MayFollow
  <2> QED
    BY <2>2, <2>3
<1>3. CASE c = <<"footer">>
  <2>1. Head(c) = "footer" /\ Tail(c) = <<>>
    BY <1>3, CallParts
  <2>2. FollowsFrom(Head(c), handler, Tail(c))
    BY <1>3, <2>1, CallParts DEF FollowsFrom
  <2>3. MayFollow(d, Head(c))
    BY <1>3, <2>1, CallParts, InOrder DEF FollowsFrom, MayFollow
  <2> QED
    BY <2>2, <2>3
<1>4. CASE c = <<"features">>
  <2>1. Head(c) = "features" /\ Tail(c) = <<>>
    BY <1>4, CallParts
  <2>2. FollowsFrom(Head(c), handler, Tail(c))
    BY <1>4, <2>1, CallParts DEF FollowsFrom
  <2>3. MayFollow(d, Head(c))
    BY <1>4, <2>1, CallParts, InOrder DEF FollowsFrom, MayFollow
  <2> QED
    BY <2>2, <2>3
<1>5. CASE c = <<"header", "features">>
  <2>1. Head(c) = "header" /\ Tail(c) = <<"features">>
    BY <1>5, CallParts
  <2>2. FollowsFrom(Head(c), handler, Tail(c))
    BY <1>5, <2>1, CallParts DEF FollowsFrom
  <2>3. MayFollow(d, Head(c))
    BY <1>5, <2>1, CallParts, InOrder DEF FollowsFrom, MayFollow
  <2> QED
    BY <2>2, <2>3
<1>6. CASE c = <<"proceed", "upgrade">>
  <2>1. Head(c) = "proceed" /\ Tail(c) = <<"upgrade">>
    BY <1>6, CallParts
  <2>2. FollowsFrom(Head(c), handler, Tail(c))
    BY <1>6, <2>1, CallParts DEF FollowsFrom
  <2>3. MayFollow(d, Head(c))
    BY <1>6, <2>1, CallParts, InOrder DEF FollowsFrom, MayFollow
  <2> QED
    BY <2>2, <2>3
<1>7. CASE c = <<"upgrade">> \/ c = <<"shutdown">>
  BY <1>7, CallParts DEF Payloads
<1>8. CASE c = <<"violation", "shutdown">>
  <2>1. Head(c) = "violation" /\ Tail(c) = <<"shutdown">>
    BY <1>8, CallParts
  <2>2. FollowsFrom(Head(c), handler, Tail(c))
    BY <1>8, <2>1, CallParts DEF FollowsFrom
  <2>3. MayFollow(d, Head(c))
    BY <1>8, <2>1, CallParts, InOrder DEF FollowsFrom, MayFollow
  <2> QED
    BY <2>2, <2>3
<1> QED
  BY <1>1, <1>2, <1>3, <1>4, <1>5, <1>6, <1>7, <1>8 DEF FollowsFrom

-----------------------------------------------------------------------------
(* A step that says nothing keeps the stream in order.                       *)

LEMMA WireKept ==
  ASSUME wire' = wire, streams' = streams, SecureAfterTls, ProceedBeforeTls, WireIsStream
  PROVE  SecureAfterTls' /\ ProceedBeforeTls' /\ WireIsStream'
  BY DEF SecureAfterTls, ProceedBeforeTls, WireIsStream

LEMMA SilentQueue ==
  ASSUME TypeOK, SessionTypeOK, StreamInv, PlainKept, SaysNothing, Carry("nothing"),
         wire' = wire
  PROVE  /\ Aligned(outbox', strand') /\ wire' \in Seq(Written)
         /\ QueueIsStream' /\ SecureAfterTls' /\ ProceedBeforeTls' /\ WireIsStream'
         /\ ErrorIsLast(outbox, wire)' /\ (HasError(outbox, wire)' => HasError(outbox, wire))
         /\ \A d : Plain' /\ ~released' /\ Says(outbox', wire', Len(outbox') + 1, d) =>
              /\ Plain /\ ~released /\ Says(outbox, wire, Len(outbox) + 1, d)
              /\ FollowsFrom(d, streamHandler, calls)
<1>1. Aligned(outbox, strand) /\ wire \in Seq(Written)
  BY TypeParts
<1>2. Moves(outbox, strand, outbox', strand') /\ ErrorIsLast(outbox, wire)
  BY <1>1, QuietCarry DEF SaysNothing, StreamInv, ErrorEnds
<1>3. /\ Aligned(outbox', strand') /\ ErrorIsLast(outbox', wire)
      /\ HasError(outbox', wire) => HasError(outbox, wire)
      /\ GoesOn(outbox, strand, wire) =>
           /\ GoesOn(outbox', strand', wire)
           /\ \A d : Says(outbox', wire, Len(outbox') + 1, d) => Says(outbox, wire, Len(outbox) + 1, d)
  BY <1>1, <1>2, QuietMove
<1>4. QueueIsStream'
  BY <1>3 DEF QueueIsStream, StreamInv, PlainKept
<1>5. ASSUME NEW d, Plain', ~released', Says(outbox', wire', Len(outbox') + 1, d)
      PROVE  /\ Plain /\ ~released /\ Says(outbox, wire, Len(outbox) + 1, d)
             /\ FollowsFrom(d, streamHandler, calls)
  <2>1. Plain /\ ~released
    BY <1>5 DEF PlainKept, SaysNothing
  <2>2. Says(outbox, wire, Len(outbox) + 1, d)
    BY <1>3, <1>5, <2>1 DEF QueueIsStream, StreamInv
  <2>3. FollowsFrom(d, streamHandler, calls)
    BY <2>1, <2>2 DEF SpeaksInTurn, StreamInv
  <2> QED
    BY <2>1, <2>2, <2>3
<1>6. SecureAfterTls' /\ ProceedBeforeTls' /\ WireIsStream'
  BY WireKept DEF SaysNothing, StreamInv
<1> QED
  BY <1>1, <1>3, <1>4, <1>5, <1>6

SessionKept == Aligned(outbox, strand)' /\ (wire \in Seq(Written))' /\ StreamInv'

LEMMA SilentStep ==
  ASSUME TypeOK, SessionTypeOK, StreamInv, PlainKept, SaysNothing, Carry("nothing"),
         UNCHANGED <<streamHandler, calls, wire>>
  PROVE  SessionKept
<1>1. SpeaksInTurn'
  BY SilentQueue DEF SpeaksInTurn
<1>2. ErrorEnds'
  BY SilentQueue DEF ErrorEnds, StreamInv, SaysNothing, Over
<1> QED
  BY <1>1, <1>2, SilentQueue DEF SessionKept, StreamInv

LEMMA NothingCarried ==
  ASSUME SessionTypeOK, strand' = strand, outbox' = outbox
  PROVE  Carry("nothing")
<1>1. Len(strand) = Len(outbox) /\ outbox \in Seq(Payloads \cup {"nothing"})
  BY DEF SessionTypeOK
<1>2. Len(strand') = Len(strand) /\ Len(strand) \in Nat
  BY <1>1
<1> QED
  BY <1>2 DEF Carry

LEMMA NetworkSaysNothing ==
  ASSUME NetworkStep \/ UNCHANGED vars
  PROVE  SaysNothing /\ strand' = strand
  BY DEF NetworkStep, SaysNothing, QuietStrand, vars, connectionVars, ownerVars

LEMMA ClientStepKeeps ==
  ASSUME TypeOK, SessionTypeOK, StreamInv, PlainKept, ClientStep \/ UNCHANGED sessionVars
  PROVE  SessionKept
<1>1. NetworkStep \/ UNCHANGED vars
  BY DEF ClientStep, sessionVars
<1>2. UNCHANGED <<streamHandler, calls, wire, outbox>>
  BY DEF ClientStep, sessionVars, protocolVars
<1> QED
  BY <1>1, <1>2, NetworkSaysNothing, NothingCarried, SilentStep

LEMMA EnterTokenizerKeeps ==
  ASSUME TypeOK, SessionTypeOK, StreamInv, PlainKept, NEW t \in Threads, EnterTokenizer(t)
  PROVE  SessionKept
  BY OwnerSaysNothing, SilentStep DEF EnterTokenizer

LEMMA LeaveTokenizerKeeps ==
  ASSUME TypeOK, SessionTypeOK, StreamInv, PlainKept, NEW t \in Threads, LeaveTokenizer(t)
  PROVE  SessionKept
<1>1. SaysNothing /\ strand' = strand
  BY OwnerSaysNothing, NetworkSaysNothing DEF LeaveTokenizer, TokensProcessed
<1> QED
  BY <1>1, NothingCarried, SilentStep DEF LeaveTokenizer

LEMMA CallShutdownKeeps ==
  ASSUME TypeOK, SessionTypeOK, StreamInv, PlainKept, NEW t \in Threads, CallShutdown(t)
  PROVE  SessionKept
<1>1. SaysNothing /\ Carry("nothing") /\ wire' = wire
  BY OwnerSaysNothing, NetworkSaysNothing DEF CallShutdown
<1>2. released'
  <2>1. CASE ShutdownOnToken(t)
    BY <2>1 DEF ShutdownOnToken, Shutdown
  <2>2. CASE released /\ UNCHANGED vars
    BY <2>2 DEF vars, ownerVars
  <2> QED
    BY <2>1, <2>2 DEF CallShutdown
<1>3. calls' \in Scripts
  BY TurnOfScript DEF CallShutdown, StreamInv, ErrorEnds
<1>4. SpeaksInTurn' /\ ErrorEnds'
  BY <1>1, <1>2, <1>3, SilentQueue DEF SpeaksInTurn, ErrorEnds, Over
<1> QED
  BY <1>1, <1>4, SilentQueue DEF SessionKept, StreamInv

LEMMA KeptQueue ==
  ASSUME SessionTypeOK, strand' = strand, NEW x, Carry(x)
  PROVE  outbox' = outbox
<1>1. Len(strand) = Len(outbox) /\ outbox \in Seq(Payloads \cup {"nothing"})
  BY DEF SessionTypeOK
<1>2. Len(strand') = Len(strand) /\ Len(strand) \in Nat
  BY <1>1
<1> QED
  BY <1>2 DEF Carry

LEMMA LastOfSome ==
  ASSUME NEW n \in Nat, NEW S, S \subseteq 1 .. n, S # {}
  PROVE  \E i \in S : \A j \in S : j <= i
<1> DEFINE FromEnd == {n - i : i \in S}
<1>1. FromEnd \subseteq Nat /\ FromEnd # {}
  <2>1. \A i \in S : n - i \in Nat
    OBVIOUS
  <2>2. PICK i \in S : TRUE
    OBVIOUS
  <2>3. n - i \in FromEnd
    OBVIOUS
  <2> QED
    BY <2>1, <2>3
<1>2. \E x \in FromEnd : \A y \in FromEnd : ~(<<y, x>> \in OpToRel(<, Nat))
  BY <1>1, NatLessThanWellFounded, WFMin, Zenon
<1>3. PICK x \in FromEnd : \A y \in FromEnd : ~(<<y, x>> \in OpToRel(<, Nat))
  BY <1>2, Zenon
<1>4. \A y \in FromEnd : ~(y < x)
  BY <1>1, <1>3, Zenon DEF OpToRel
<1>5. PICK i \in S : x = n - i
  BY <1>3
<1>6. ASSUME NEW j \in S PROVE j <= i
  <2>1. ~(n - j < n - i)
    BY <1>4, <1>5
  <2> QED
    BY <2>1
<1> QED
  BY <1>5, <1>6

(* Something or nothing has been said before any place of the strand.        *)
LEMMA SomethingSaid ==
  ASSUME NEW o \in Seq(Data), NEW w
  PROVE  \E d : Says(o, w, Len(o) + 1, d)
<1> DEFINE Spoken == {i \in 1 .. Len(o) : o[i] # "nothing"}
<1>1. Len(o) \in Nat
  OBVIOUS
<1>2. CASE Spoken = {}
  <2>1. \A j \in 1 .. Len(o) + 1 - 1 : o[j] = "nothing"
    BY <1>1, <1>2
  <2>2. Says(o, w, Len(o) + 1, IF w = <<>> THEN "nothing" ELSE w[Len(w)].data)
    BY <2>1 DEF Says
  <2> QED
    BY <2>2
<1>3. CASE Spoken # {}
  <2>1. PICK i \in Spoken : \A j \in Spoken : j <= i
    BY <1>1, <1>3, LastOfSome
  <2>2. \A j \in i + 1 .. Len(o) + 1 - 1 : o[j] = "nothing"
    BY <1>1, <2>1
  <2>3. i \in 1 .. Len(o) + 1 - 1 /\ o[i] # "nothing"
    BY <1>1, <2>1
  <2>4. Says(o, w, Len(o) + 1, o[i])
    BY <2>2, <2>3 DEF Says
  <2> QED
    BY <2>4
<1> QED
  BY <1>2, <1>3

-----------------------------------------------------------------------------
(* A token, and what it makes the session say.                               *)

(* Without a handler on the strand, nothing is said.                         *)
LEMMA TakeTokenKeeps ==
  ASSUME TypeOK, SessionTypeOK, PlainBefore, StreamInv, PlainKept, NEW t \in Threads, TakeToken(t)
  PROVE  SessionKept
<1> DEFINE reaction == IF streamHandler = "none" THEN Opening(Head(tokens))
                                                 ELSE InStream(Head(tokens))
<1>1. SaysNothing /\ Carry("nothing") /\ UNCHANGED <<wire, outbox, released, state>>
  <2>1. strand' = strand /\ outbox' = outbox
    BY DEF TakeToken, vars
  <2> QED
    BY <2>1, NetworkSaysNothing, NothingCarried DEF TakeToken, vars, connectionVars, ownerVars
<1>2. calls = <<>> /\ streamHandler' = reaction.next /\ calls' = reaction.does
  BY DEF TakeToken
<1>3. calls' \in Scripts
  BY <1>2 DEF Opening, InStream, Reaction, Unimplemented, StartTls, CloseStream, Scripts
<1>4. SpeaksInTurn'
  <2> SUFFICES ASSUME NEW d, Plain', ~released', Says(outbox', wire', Len(outbox') + 1, d)
               PROVE  FollowsFrom(d, streamHandler', calls')
    BY DEF SpeaksInTurn
  <2>1. Plain /\ FollowsFrom(d, streamHandler, <<>>)
    BY <1>1, <1>2, SilentQueue
  <2>2. CASE streamHandler = "none"
    <3>1. state # "SECURE" /\ d \in {"nothing", "footer"}
      BY <2>1, <2>2 DEF PlainBefore, Plain, FollowsFrom
    <3> QED
      BY <1>2, <2>2, <3>1 DEF Opening, Reaction, FollowsFrom
  <2>3. CASE streamHandler # "none"
    <3>1. streamHandler = "negotiation" /\ d \in {"features", "proceed"}
      BY <2>1, <2>3 DEF FollowsFrom
    <3> QED
      BY <1>2, <3>1 DEF InStream, Reaction, CloseStream, StartTls, FollowsFrom
  <2> QED
    BY <2>2, <2>3
<1>5. ErrorEnds'
  <2>1. HasError(outbox, wire) => released
    BY <1>2 DEF StreamInv, ErrorEnds, Over
  <2> QED
    BY <1>1, <1>3, <2>1, SilentQueue DEF ErrorEnds, Over
<1> QED
  BY <1>1, <1>4, <1>5, SilentQueue DEF SessionKept, StreamInv

(* A write on an open connection goes to the strand.                         *)
LEMMA CallWriteKeeps ==
  ASSUME TypeOK, SessionTypeOK, StreamInv, PlainKept, NEW t \in Threads, CallWrite(t)
  PROVE  SessionKept
<1> DEFINE x == Head(calls)
<1>1. /\ Aligned(outbox, strand) /\ wire \in Seq(Written) /\ x \in Data /\ x \in Payloads
      /\ x # "nothing" /\ calls \in Scripts /\ calls # <<>> /\ "write" \in Handlers
      /\ wire' = wire /\ streamHandler' = streamHandler /\ calls' = Tail(calls)
  BY TypeParts, NothingIsNoPayload DEF CallWrite, Data, StreamInv, ErrorEnds, Handlers
<1>2. calls' \in Scripts /\ (x \in Errors => calls' = <<"shutdown">>) /\ calls # <<"shutdown">>
  BY <1>1, TurnOfScript
<1>3. CASE Write(t) /\ IsOpen
  <2>1. strand' = Append(strand, "write") /\ UNCHANGED <<streams, released>> /\ ~released
    BY <1>3 DEF Write, Post, connectionVars
  <2>2. outbox' = Append(outbox, x)
    <3>1. Len(strand') = Len(strand) + 1 /\ Len(strand) \in Nat
      BY <1>1, <2>1, Appended DEF Aligned
    <3> QED
      BY <3>1 DEF CallWrite, Carry
  <2>3. Aligned(outbox', strand')
    BY <1>1, <2>1, <2>2, AlignedPost
  <2>4. ~HasError(outbox, wire) /\ ErrorIsLast(outbox, wire)
    BY <1>2, <2>1 DEF StreamInv, ErrorEnds, Over
  <2>5. ErrorIsLast(outbox', wire) /\ (HasError(outbox', wire) => x \in Errors)
    BY <1>1, <2>2, <2>4, ErrorPost DEF Aligned
  <2>6. ErrorEnds'
    BY <1>1, <1>2, <2>5 DEF ErrorEnds, Over
  <2>7. ASSUME Plain, NEW d, Says(outbox, wire, Len(outbox) + 1, d)
        PROVE  Fits(d, x, "write") /\ FollowsFrom(x, streamHandler, Tail(calls))
    <3>1. FollowsFrom(d, streamHandler, calls)
      BY <2>1, <2>7 DEF StreamInv, SpeaksInTurn
    <3> QED
      BY <1>1, <3>1, WriteInTurn
  <2>8. QueueIsStream'
    <3> SUFFICES ASSUME Plain' PROVE GoesOn(outbox', strand', wire)
      BY <1>1 DEF QueueIsStream
    <3>1. Plain /\ GoesOn(outbox, strand, wire)
      BY DEF PlainKept, StreamInv, QueueIsStream
    <3> QED
      BY <1>1, <2>1, <2>2, <2>7, <3>1, GoesOnPost
  <2>9. SpeaksInTurn'
    <3> SUFFICES ASSUME Plain', NEW d, Says(outbox', wire, Len(outbox') + 1, d)
                 PROVE  FollowsFrom(d, streamHandler', calls')
      BY <1>1 DEF SpeaksInTurn
    <3>1. Len(outbox') + 1 = Len(outbox) + 2 /\ outbox \in Seq(Data) /\ Len(outbox) \in Nat
      BY <1>1, <2>2, Appended DEF Aligned
    <3>2. d = x
      BY <1>1, <2>2, <3>1, SaidAfterPost
    <3>3. \E e : Says(outbox, wire, Len(outbox) + 1, e)
      BY <1>1, SomethingSaid DEF Aligned
    <3> QED
      BY <1>1, <2>7, <3>2, <3>3 DEF PlainKept
  <2> QED
    BY <1>1, <2>1, <2>3, <2>6, <2>8, <2>9, WireKept DEF SessionKept, StreamInv
<1>4. CASE (Write(t) /\ ~IsOpen) \/ (released /\ UNCHANGED vars)
  <2>1. UNCHANGED <<strand, streams, released>> /\ (~IsOpen \/ released)
    BY <1>4 DEF Write, vars, connectionVars, ownerVars
  <2>2. SaysNothing /\ outbox' = outbox
    BY <1>1, <2>1, KeptQueue DEF SaysNothing, QuietStrand, CallWrite
  <2>3. Carry("nothing")
    BY <2>1, <2>2, NothingCarried
  <2>4. SpeaksInTurn'
    BY <2>1 DEF SpeaksInTurn, PlainKept, Plain
  <2>5. ErrorEnds'
    <3>1. HasError(outbox, wire) => released
      BY <1>2 DEF StreamInv, ErrorEnds, Over
    <3> QED
      BY <1>1, <1>2, <2>1, <2>2, <2>3, <3>1, SilentQueue DEF ErrorEnds, Over
  <2> QED
    BY <1>1, <2>2, <2>3, <2>4, <2>5, SilentQueue DEF SessionKept, StreamInv
<1> QED
  BY <1>3, <1>4 DEF CallWrite

(* An upgrade comes after what tells the client to proceed, or the session   *)
(* shuts down instead.                                                       *)
LEMMA CallUpgradeKeeps ==
  ASSUME TypeOK, SessionTypeOK, StreamInv, PlainKept, NEW t \in Threads, CallUpgrade(t)
  PROVE  SessionKept
<1>1. /\ Aligned(outbox, strand) /\ wire \in Seq(Written)
      /\ calls = <<"upgrade">> /\ Tail(calls) = <<>>
      /\ wire' = wire /\ streamHandler' = streamHandler
      /\ "nothing" \in Data /\ "upgrade" \in Handlers
      /\ "upgrade" # "write" /\ "nothing" \notin Payloads /\ "nothing" \notin Errors
  BY TypeParts, TurnOfScript, NothingIsNoPayload, CallParts
     DEF CallUpgrade, StreamInv, ErrorEnds, Data, Handlers
<1>2. HasError(outbox, wire) => released
  BY <1>1 DEF StreamInv, ErrorEnds, Over
<1>3. CASE Upgrade(t) /\ calls' = Tail(calls) /\ IsOpen
  <2>1. strand' = Append(strand, "upgrade") /\ UNCHANGED <<streams, released>> /\ ~released
    BY <1>3 DEF Upgrade, Post, connectionVars
  <2>2. outbox' = Append(outbox, "nothing")
    <3>1. Len(strand') = Len(strand) + 1 /\ Len(strand) \in Nat
      BY <1>1, <2>1, Appended DEF Aligned
    <3> QED
      BY <3>1 DEF CallUpgrade, Carry
  <2>3. Aligned(outbox', strand')
    BY <1>1, <2>1, <2>2, AlignedPost
  <2>4. ErrorEnds'
    <3>1. ErrorIsLast(outbox, wire) /\ ~HasError(outbox, wire)
      BY <1>2, <2>1 DEF StreamInv, ErrorEnds
    <3>2. ErrorIsLast(outbox', wire) /\ ~HasError(outbox', wire)
      BY <1>1, <2>2, <3>1, ErrorPost DEF Aligned
    <3> QED
      BY <1>1, <1>3, <3>2 DEF ErrorEnds, Scripts
  <2>5. ASSUME Plain, NEW d, Says(outbox, wire, Len(outbox) + 1, d)
        PROVE  d = "proceed" /\ streamHandler = "negotiation"
    <3>1. FollowsFrom(d, streamHandler, <<"upgrade">>)
      BY <1>1, <2>1, <2>5 DEF StreamInv, SpeaksInTurn
    <3> QED
      BY <3>1, CallParts DEF FollowsFrom
  <2>6. QueueIsStream'
    <3> SUFFICES ASSUME Plain' PROVE GoesOn(outbox', strand', wire)
      BY <1>1 DEF QueueIsStream
    <3>1. Plain /\ GoesOn(outbox, strand, wire)
      BY DEF PlainKept, StreamInv, QueueIsStream
    <3>2. \A d : Says(outbox, wire, Len(outbox) + 1, d) => Fits(d, "nothing", "upgrade")
      BY <2>5, <3>1 DEF Fits
    <3> QED
      BY <1>1, <2>1, <2>2, <3>1, <3>2, GoesOnPost
  <2>7. SpeaksInTurn'
    <3> SUFFICES ASSUME Plain', NEW d, Says(outbox', wire, Len(outbox') + 1, d)
                 PROVE  FollowsFrom(d, streamHandler, <<>>)
      BY <1>1, <1>3 DEF SpeaksInTurn
    <3>1. Len(outbox') + 1 = Len(outbox) + 2 /\ outbox \in Seq(Data) /\ Len(outbox) \in Nat
      BY <1>1, <2>2, Appended DEF Aligned
    <3>2. Says(outbox, wire, Len(outbox) + 1, d)
      BY <1>1, <2>2, <3>1, SaidAfterPost
    <3> QED
      BY <2>5, <3>2 DEF PlainKept, FollowsFrom
  <2> QED
    BY <1>1, <2>1, <2>3, <2>4, <2>6, <2>7, WireKept DEF SessionKept, StreamInv
<1>4. CASE \/ Upgrade(t) /\ calls' = Tail(calls) /\ ~IsOpen
           \/ released /\ UNCHANGED <<vars, calls>>
           \/ calls' = <<"shutdown">> \o Tail(calls) /\ UNCHANGED vars
  <2>1. /\ UNCHANGED <<strand, streams, released>>
        /\ ~IsOpen \/ released \/ calls' = <<"shutdown">>
        /\ calls' \in {<<>>, <<"upgrade">>, <<"shutdown">>}
    <3>1. <<"shutdown">> \o <<>> = <<"shutdown">>
      OBVIOUS
    <3> QED
      BY <1>1, <1>4, <3>1 DEF Upgrade, vars, connectionVars, ownerVars
  <2>2. SaysNothing /\ Carry("nothing")
    BY <2>1 DEF SaysNothing, QuietStrand, CallUpgrade
  <2>3. SpeaksInTurn'
    BY <2>1 DEF SpeaksInTurn, PlainKept, Plain, FollowsFrom
  <2>4. ErrorEnds'
    BY <1>1, <1>2, <2>1, <2>2, SilentQueue DEF ErrorEnds, Over, Scripts
  <2> QED
    BY <1>1, <2>2, <2>3, <2>4, SilentQueue DEF SessionKept, StreamInv
<1> QED
  BY <1>3, <1>4 DEF CallUpgrade

-----------------------------------------------------------------------------
(* The handlers that deliver what the session says.                          *)

(* A write that goes out is the next of the stream; one that is dropped was   *)
(* posted to a connection that is plain no longer.                           *)
LEMMA DeliverWriteKeeps ==
  ASSUME TypeOK, SessionTypeOK, PlainBefore, StreamInv, PlainKept, NEW t \in Threads,
         DeliverWrite(t)
  PROVE  SessionKept
<1>1. /\ Aligned(outbox, strand) /\ wire \in Seq(Written) /\ outbox \in Seq(Data)
      /\ strand # <<>> /\ Head(strand) = "write" /\ strand' = Tail(strand)
      /\ UNCHANGED <<state, streams, released, streamHandler, calls>>
  BY TypeParts DEF DeliverWrite, StrandWrite, TakeFromStrand, connectionVars, ownerVars, Aligned
<1>2. /\ outbox # <<>> /\ outbox[1] \in Payloads /\ outbox[1] # "nothing"
      /\ Aligned(Tail(outbox), Tail(strand))
  BY <1>1, AlignedTake, NothingIsNoPayload
<1>3. outbox' = Tail(outbox) /\ Head(outbox) = outbox[1]
  <2>1. Len(strand') = Len(strand) - 1 /\ Len(strand) \in Nat
    BY <1>1, Taken DEF Aligned
  <2> QED
    BY <1>1, <1>2, <2>1, Taken DEF DeliverWrite, Carry
<1>4. ErrorIsLast(outbox, wire) /\ (HasError(outbox, wire) => Over) /\ calls \in Scripts
  BY DEF StreamInv, ErrorEnds
<1>5. CASE ~(IsOpen /\ SocketUsable)
  <2>1. wire' = wire
    BY <1>5 DEF DeliverWrite
  <2>2. ~Plain'
    BY <1>5 DEF PlainKept, PlainBefore, Plain, SocketUsable, HasStream
  <2>3. ErrorEnds'
    BY <1>1, <1>2, <1>3, <1>4, <2>1, ErrorTake DEF ErrorEnds, Over
  <2> QED
    BY <1>1, <1>2, <1>3, <2>1, <2>2, <2>3, WireKept
       DEF SessionKept, StreamInv, QueueIsStream, SpeaksInTurn
<1>6. CASE IsOpen /\ SocketUsable
  <2> DEFINE e == [data |-> outbox[1], secure |-> state = "SECURE"]
  <2>1. e \in Written /\ e.data = outbox[1] /\ (e.secure <=> state = "SECURE") /\ wire' = Append(wire, e)
    BY <1>2, <1>3, <1>6 DEF DeliverWrite, Written
  <2> HIDE DEF e
  <2>2. /\ wire' \in Seq(Written) /\ Len(wire') = Len(wire) + 1 /\ Len(wire) \in Nat
        /\ wire'[Len(wire) + 1] = e /\ \A i \in 1 .. Len(wire) : wire'[i] = wire[i]
        /\ DOMAIN wire = 1 .. Len(wire) /\ DOMAIN wire' = 1 .. Len(wire) + 1
    BY <1>1, <2>1, Appended
  <2>3. Delivered(outbox, wire, wire')
    BY <1>2, <2>1 DEF Delivered
  <2>4. ErrorEnds'
    BY <1>1, <1>2, <1>3, <1>4, <2>3, ErrorTake DEF ErrorEnds, Over
  <2>5. /\ QueueIsStream'
        /\ Plain' => \A d : Says(outbox', wire', Len(outbox') + 1, d) => Says(outbox, wire, Len(outbox) + 1, d)
    <3> SUFFICES ASSUME Plain'
                 PROVE  /\ GoesOn(outbox', strand', wire')
                        /\ \A d : Says(outbox', wire', Len(outbox') + 1, d) => Says(outbox, wire, Len(outbox) + 1, d)
      BY DEF QueueIsStream
    <3>1. GoesOn(outbox, strand, wire)
      BY DEF PlainKept, StreamInv, QueueIsStream
    <3> QED
      BY <1>1, <1>3, <2>3, <3>1, GoesOnTake
  <2>6. SpeaksInTurn'
    BY <1>1, <2>5 DEF SpeaksInTurn, StreamInv, PlainKept
  <2>7. e.secure <=> streams > 0
    BY <1>6, <2>1 DEF PlainBefore, SocketUsable, HasStream
  <2>8. SecureAfterTls'
    BY <1>1, <2>2, <2>7 DEF SecureAfterTls, StreamInv
  <2>9. ProceedBeforeTls'
    <3>1. ASSUME streams > 0
          PROVE  \E i \in DOMAIN wire' : /\ wire'[i] = [data |-> "proceed", secure |-> FALSE]
                                         /\ \A j \in DOMAIN wire' : j > i => wire'[j].secure
      <4>1. PICK i \in DOMAIN wire : /\ wire[i] = [data |-> "proceed", secure |-> FALSE]
                                     /\ \A j \in DOMAIN wire : j > i => wire[j].secure
        BY <3>1 DEF StreamInv, ProceedBeforeTls
      <4>2. i \in DOMAIN wire' /\ wire'[i] = wire[i]
        <5>1. i \in 1 .. Len(wire) /\ i \in 1 .. Len(wire) + 1
          BY <2>2, <4>1
        <5> QED
          BY <2>2, <5>1
      <4>3. \A j \in DOMAIN wire' : j > i => wire'[j].secure
        BY <2>2, <2>7, <3>1, <4>1
      <4> QED
        BY <4>1, <4>2, <4>3
    <3>2. ASSUME NEW i \in DOMAIN wire', NEW j \in DOMAIN wire', i < j, wire'[i].secure
          PROVE  wire'[j].secure
      <4>1. i \in 1 .. Len(wire) /\ wire[i].secure
        BY <2>2, <3>2
      <4>2. streams > 0
        BY <2>2, <4>1 DEF SecureAfterTls, StreamInv
      <4> QED
        BY <2>2, <2>7, <3>2, <4>1, <4>2 DEF ProceedBeforeTls, StreamInv
    <3> QED
      BY <1>1, <3>1, <3>2 DEF ProceedBeforeTls
  <2>10. WireIsStream'
    <3>1. ASSUME streams > 0 PROVE wire # <<>>
      BY <2>2, <3>1 DEF ProceedBeforeTls, StreamInv
    <3>2. ASSUME ~(streams > 0)
          PROVE  MayFollow(IF wire = <<>> THEN "nothing" ELSE wire[Len(wire)].data, outbox[1])
      <4> DEFINE d == IF wire = <<>> THEN "nothing" ELSE wire[Len(wire)].data
      <4>1. Plain
        BY <1>6, <3>2 DEF Plain, TypeOK, ConnectionTypes
      <4>2. Says(outbox, wire, 1, d)
        BY DEF Says
      <4>3. 1 \in 1 .. Len(outbox)
        BY <1>1, <1>2, Taken
      <4>4. Fits(d, outbox[1], strand[1])
        BY <4>1, <4>2, <4>3 DEF GoesOn, QueueIsStream, StreamInv
      <4> QED
        BY <1>2, <4>4 DEF Fits
    <3>3. \A i \in 1 .. Len(wire) : wire[i].data \notin Errors
      <4>1. 1 \in 1 .. Len(outbox)
        BY <1>1, <1>2, Taken
      <4> QED
        BY <1>2, <1>4, <4>1 DEF ErrorIsLast
    <3>4. wire'[1].data \in {"header", "refusal"}
      <4>1. CASE wire = <<>>
        BY <2>1, <2>2, <3>1, <3>2, <4>1 DEF MayFollow
      <4>2. CASE wire # <<>>
        <5>1. 1 \in 1 .. Len(wire)
          BY <1>1, <4>2, Taken
        <5> QED
          BY <2>2, <4>2, <5>1 DEF WireIsStream, StreamInv
      <4> QED
        BY <4>1, <4>2
    <3>5. ASSUME NEW i \in 1 .. Len(wire') - 1
          PROVE  /\ wire'[i].data \notin Errors
                 /\ ~wire'[i + 1].secure => <<wire'[i].data, wire'[i + 1].data>> \in Follows
      <4>1. i \in 1 .. Len(wire) /\ wire'[i] = wire[i]
        BY <2>2
      <4>2. CASE i = Len(wire)
        <5>1. wire # <<>> /\ wire[Len(wire)].data # "nothing"
          <6>1. wire # <<>> /\ wire[Len(wire)] \in Written
            BY <1>1, <4>1, <4>2
          <6> QED
            BY <6>1, NothingIsNoPayload DEF Written
        <5>2. ~e.secure => <<wire[Len(wire)].data, outbox[1]>> \in Follows
          BY <2>7, <3>2, <5>1 DEF MayFollow
        <5> QED
          BY <2>1, <2>2, <3>3, <4>1, <4>2, <5>2
      <4>3. CASE i # Len(wire)
        <5>1. i \in 1 .. Len(wire) - 1 /\ wire'[i + 1] = wire[i + 1]
          BY <2>2, <4>1, <4>3
        <5> QED
          BY <4>1, <5>1 DEF WireIsStream, StreamInv
      <4> QED
        BY <4>2, <4>3
    <3> QED
      BY <3>4, <3>5 DEF WireIsStream
  <2> QED
    BY <1>1, <1>2, <1>3, <2>2, <2>4, <2>5, <2>6, <2>8, <2>9, <2>10 DEF SessionKept, StreamInv
<1> QED
  BY <1>5, <1>6

(* TLS starts when what tells the client of it is the last that went out.    *)
LEMMA StrandUpgradeKeeps ==
  ASSUME TypeOK, SessionTypeOK, PlainBefore, StreamInv, PlainKept, NEW t \in Threads,
         StrandUpgrade(t), Carry("nothing"), UNCHANGED <<streamHandler, calls, wire>>
  PROVE  SessionKept
<1>1. /\ Aligned(outbox, strand) /\ wire \in Seq(Written) /\ outbox \in Seq(Data)
      /\ strand # <<>> /\ Head(strand) = "upgrade" /\ strand' = Tail(strand) /\ released' = released
  BY TypeParts DEF StrandUpgrade, TakeFromStrand, ownerVars, Aligned
<1>2. \/ streams' = streams
      \/ streams = 0 /\ streams' > 0 /\ IsOpen
      \/ streams > 0 /\ streams' > 0
  BY DEF StrandUpgrade, HasStream, TypeOK, ConnectionTypes
<1>3. CASE streams' = streams
  <2>1. SaysNothing
    BY <1>1, <1>3 DEF SaysNothing, QuietStrand
  <2> QED
    BY <2>1, SilentStep
<1>4. CASE (streams = 0 /\ streams' > 0 /\ IsOpen) \/ (streams > 0 /\ streams' > 0)
  <2>1. QuietStrand /\ ErrorIsLast(outbox, wire)
    BY <1>1 DEF QuietStrand, StreamInv, ErrorEnds
  <2>2. /\ Aligned(outbox', strand') /\ ErrorIsLast(outbox', wire)
        /\ HasError(outbox', wire) => HasError(outbox, wire)
    BY <1>1, <2>1, QuietCarry, QuietMove
  <2>3. ~Plain'
    BY <1>4 DEF Plain
  <2>4. ErrorEnds'
    BY <1>1, <2>2 DEF ErrorEnds, StreamInv, Over
  <2>5. ASSUME streams = 0, IsOpen
        PROVE  \E i \in DOMAIN wire : /\ wire[i] = [data |-> "proceed", secure |-> FALSE]
                                      /\ \A j \in DOMAIN wire : j > i => wire[j].secure
    <3> DEFINE d == IF wire = <<>> THEN "nothing" ELSE wire[Len(wire)].data
    <3>1. Plain
      BY <2>5 DEF Plain
    <3>2. Says(outbox, wire, 1, d)
      BY DEF Says
    <3>3. 1 \in 1 .. Len(outbox) /\ strand[1] = "upgrade"
      BY <1>1, AlignedTake, Taken DEF Aligned
    <3>4. d = "proceed"
      BY <3>1, <3>2, <3>3 DEF Fits, GoesOn, QueueIsStream, StreamInv
    <3>5. wire # <<>> /\ wire[Len(wire)].data = "proceed"
      BY <3>4
    <3>6. Len(wire) \in DOMAIN wire /\ wire[Len(wire)] \in Written /\ DOMAIN wire = 1 .. Len(wire)
          /\ Len(wire) \in Nat
      BY <1>1, <3>5
    <3>7. ~wire[Len(wire)].secure
      BY <2>5, <3>6 DEF SecureAfterTls, StreamInv
    <3>8. wire[Len(wire)] = [data |-> "proceed", secure |-> FALSE]
      BY <3>5, <3>6, <3>7 DEF Written
    <3>9. \A j \in DOMAIN wire : ~(j > Len(wire))
      BY <3>6
    <3> QED
      BY <3>6, <3>8, <3>9
  <2>6. SecureAfterTls' /\ ProceedBeforeTls' /\ WireIsStream'
    BY <1>4, <2>5 DEF SecureAfterTls, ProceedBeforeTls, WireIsStream, StreamInv
  <2> QED
    BY <1>1, <2>2, <2>3, <2>4, <2>6 DEF SessionKept, StreamInv, QueueIsStream, SpeaksInTurn
<1> QED
  BY <1>2, <1>3, <1>4

LEMMA ConnectionStepKeeps ==
  ASSUME TypeOK, SessionTypeOK, PlainBefore, StreamInv, PlainKept, NEW t \in Threads,
         ConnectionThreadStep(t)
  PROVE  SessionKept
<1>1. Carry("nothing") /\ UNCHANGED <<streamHandler, calls, wire>>
  BY DEF ConnectionThreadStep
<1>2. CASE StrandUpgrade(t)
  BY <1>1, <1>2, StrandUpgradeKeeps
<1>3. CASE ~StrandUpgrade(t)
  <2>1. SaysNothing
    BY <1>3, OwnerSaysNothing, CloseSaysNothing, HandlerSaysNothing, StrandSaysNothing
       DEF ConnectionThreadStep
  <2> QED
    BY <1>1, <2>1, SilentStep
<1> QED
  BY <1>2, <1>3

LEMMA ReaderKept ==
  ASSUME SessionTypeOK, [SessionNext]_sessionVars, ReaderOK
  PROVE  ReaderOK'
<1> USE DEF ReaderOK
<1>1. CASE ClientStep \/ UNCHANGED sessionVars
  BY <1>1 DEF ClientStep, sessionVars, protocolVars
<1>2. ASSUME NEW t \in Threads, SessionThreadStep(t) PROVE ReaderOK'
  <2>1. t # "none"
    BY NoneAssumption
  <2>2. CASE EnterTokenizer(t)
    BY <2>1, <2>2 DEF EnterTokenizer
  <2>3. CASE TakeToken(t)
    <3>1. streamHandler' \in {"none", "negotiation", "unimplemented"}
      BY <2>3 DEF TakeToken, Opening, InStream, Reaction, Unimplemented, CloseStream
    <3>2. tokens' \in BoundedSeq(Tokens, MaxTokens)
      BY <2>3, TailBounded, MaxTokensAssumption DEF TakeToken
    <3> QED
      BY <2>1, <2>3, <3>1, <3>2 DEF TakeToken, InTokenizer
  <2>4. CASE CallWrite(t) \/ CallUpgrade(t) \/ CallShutdown(t)
    BY <2>1, <2>4 DEF CallWrite, CallUpgrade, CallShutdown, InTokenizer
  <2>5. CASE LeaveTokenizer(t)
    BY <2>5 DEF LeaveTokenizer
  <2>6. CASE DeliverWrite(t) \/ ConnectionThreadStep(t)
    BY <2>6 DEF DeliverWrite, ConnectionThreadStep
  <2> QED
    BY <1>2, <2>2, <2>3, <2>4, <2>5, <2>6 DEF SessionThreadStep
<1> QED
  BY <1>1, <1>2 DEF SessionNext

LEMMA SessionInvStep ==
  ASSUME TypeOK, TypeOK', SessionInv, [SessionNext]_sessionVars
  PROVE  SessionInv'
<1>1. [Next]_vars
  BY SessionStep DEF sessionVars
<1>2. PlainKept /\ SessionTypeOK /\ PlainBefore /\ StreamInv
  BY <1>1, StepPlain DEF SessionInv
<1>3. SessionKept
  <2>1. ASSUME NEW t \in Threads, SessionThreadStep(t) PROVE SessionKept
    BY <1>2, <2>1, EnterTokenizerKeeps, TakeTokenKeeps, CallWriteKeeps, CallUpgradeKeeps,
       CallShutdownKeeps, LeaveTokenizerKeeps, DeliverWriteKeeps, ConnectionStepKeeps
       DEF SessionThreadStep
  <2> QED
    BY <1>2, <2>1, ClientStepKeeps DEF SessionNext
<1>4. ReaderOK'
  BY <1>2, ReaderKept, TypeParts
<1>5. SessionTypeOK'
  <2>1. calls' \in Scripts
    BY <1>3 DEF SessionKept, StreamInv, ErrorEnds
  <2> QED
    BY <1>3, <1>4, <2>1, TypePartsNext DEF SessionKept
<1> QED
  BY <1>2, <1>3, <1>5 DEF SessionInv, SessionKept, PlainKept

LEMMA SessionInvInit ==
  ASSUME SessionInit
  PROVE  SessionInv
<1>1. Init /\ streamHandler = "none" /\ calls = <<>> /\ outbox = <<>> /\ wire = <<>>
  BY DEF SessionInit
<1>2. strand = <<>> /\ streams = 0 /\ state = "INSECURE" /\ ~released
  BY <1>1 DEF Init
<1>3. Len(<<>>) = 0 /\ <<>> \in Seq(Data) /\ <<>> \in Seq(Handlers) /\ <<>> \in Seq(Written)
      /\ 1 .. 0 = {} /\ DOMAIN <<>> = {}
  OBVIOUS
<1>4. Aligned(outbox, strand) /\ wire \in Seq(Written)
  BY <1>1, <1>2, <1>3 DEF Aligned
<1>5. PlainBefore
  BY <1>1, PlainInit
<1>6. QueueIsStream
  BY <1>1, <1>3 DEF QueueIsStream, GoesOn
<1>7. SpeaksInTurn
  <2>1. ASSUME NEW d, Says(<<>>, <<>>, Len(<<>>) + 1, d) PROVE d = "nothing"
    BY <1>3, <2>1 DEF Says
  <2> QED
    BY <1>1, <2>1 DEF SpeaksInTurn, FollowsFrom
<1>8. ErrorEnds
  BY <1>1, <1>3 DEF ErrorEnds, ErrorIsLast, HasError, Scripts
<1>9. SecureAfterTls /\ ProceedBeforeTls /\ WireIsStream
  BY <1>1, <1>2, <1>3 DEF SecureAfterTls, ProceedBeforeTls, WireIsStream
<1>10. ReaderOK
  BY EmptyBounded, MaxTokensAssumption DEF SessionInit, ReaderOK
<1>11. SessionTypeOK
  <2>1. TypeOK /\ calls \in Scripts
    BY <1>1, InvInit DEF Inv, Scripts
  <2> QED
    BY <1>4, <1>10, <2>1, TypeParts
<1> QED
  BY <1>5, <1>6, <1>7, <1>8, <1>9, <1>11 DEF SessionInv, StreamInv

LEMMA SessionInvCorrect == SessionSpec => [](TypeOK /\ SessionInv)
<1>1. SessionInit => Inv /\ SessionInv
  BY InvInit, SessionInvInit DEF SessionInit
<1>2. Inv /\ SessionInv /\ [SessionNext]_sessionVars => Inv' /\ SessionInv'
  <2> SUFFICES ASSUME Inv, SessionInv, [SessionNext]_sessionVars PROVE Inv' /\ SessionInv'
    OBVIOUS
  <2>1. [Next]_vars
    BY SessionStep DEF sessionVars
  <2>2. Inv'
    BY <2>1, InvStep
  <2> QED
    BY <2>2, SessionInvStep DEF Inv
<1>3. Inv => TypeOK
  BY DEF Inv
<1> QED
  BY <1>1, <1>2, <1>3, PTL DEF SessionSpec

(* The session's state has its type: what goes with each handler on the       *)
(* strand is its data, and a thread outside the tokenizer has no token left   *)
(* (ClientSession.cpp:65-94, TcpConnection.cpp:130-158).                     *)
THEOREM SessionTypeCorrect == SessionSpec => []SessionTypeOK
<1>1. SessionInv => SessionTypeOK
  BY DEF SessionInv
<1> QED
  BY <1>1, SessionInvCorrect, PTL

(* TLS starts only when the client has been told to proceed, and nothing goes *)
(* out in clear after that, for every number of threads, reads and upgrades   *)
(* (NegotiationStreamHandler.hpp:58-64, TcpConnection.cpp:16-56).            *)
THEOREM TlsAfterProceed == SessionSpec => []ProceedBeforeTls
<1>1. SessionInv => ProceedBeforeTls
  BY DEF SessionInv, StreamInv
<1> QED
  BY <1>1, SessionInvCorrect, PTL

(* What goes out in clear is the beginning of a stream, and nothing goes out  *)
(* after an error, whatever closes the connection or drops a write meanwhile  *)
(* (ClientSession.cpp:120-262).                                              *)
THEOREM StreamInOrder == SessionSpec => []WireIsStream
<1>1. SessionInv => WireIsStream
  BY DEF SessionInv, StreamInv
<1> QED
  BY <1>1, SessionInvCorrect, PTL
=============================================================================
