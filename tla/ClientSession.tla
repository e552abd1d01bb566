---------------------------- MODULE ClientSession ----------------------------
(***************************************************************************)
(* A ClientSession (src/xmpp/session/ClientSession.cpp) and its stream       *)
(* handlers on their TcpConnection: the owner of module TcpConnection, with  *)
(* the tokens of each read in place of its free choice of calls, and with    *)
(* what the writes carry.  Every step is a step of TcpConnection or leaves   *)
(* its variables alone.                                                      *)
(*                                                                          *)
(* The thread that has called shutdown() goes on with the tokens that are    *)
(* left of the read, whatever has become of the connection meanwhile.        *)
(***************************************************************************)
EXTENDS TcpConnection, SequencesExt

CONSTANT MaxTokens   \* bound on the tokens of one read

ASSUME MaxTokensAssumption == MaxTokens \in Nat
ASSUME NoneAssumption == "none" \notin Threads

VARIABLES
  streamHandler,  \* _ptrActiveStreamHandler
  reader,         \* the thread in the tokenizer, if any
  tokens,         \* what that thread has still to hand to onXmlToken
  calls,          \* what onXmlToken has still to call for the last one
  outbox,         \* the data of each handler on the strand, if it is a write
  wire,           \* the data for which async_write was called on a usable socket
  crash           \* what the session did that ends the process

protocolVars == <<streamHandler, reader, tokens, calls, outbox, wire, crash>>
sessionVars == <<vars, protocolVars>>

-----------------------------------------------------------------------------
(* Tokens that onXmlToken tells apart and does not ignore; a read may hold   *)
(* none of them.  A misnamed tag is an empty tag whose name TagNode refuses. *)
Tokens == {"open_stream", "close_stream", "starttls", "stanza", "misnamed", "open_other"}
EmptyTags == {"starttls", "stanza", "misnamed"}

(* What the server says.  A refusal and a violation are each a whole stream,  *)
(* of a header, an error and a footer: the refusal answers what does not      *)
(* open a stream, the violation a second opening inside one.                  *)
Payloads == {"header", "features", "proceed", "error", "refusal", "violation", "footer"}
Errors == {"error", "refusal", "violation"}

SessionTypeOK ==
  /\ streamHandler \in {"none", "negotiation", "unimplemented"}
  /\ reader \in Threads \cup {"none"}
  /\ tokens \in BoundedSeq(Tokens, MaxTokens)
  /\ calls \in BoundedSeq(Payloads \cup {"upgrade", "shutdown"}, 3)
  /\ outbox \in Seq(Payloads \cup {"nothing"}) /\ Len(outbox) = Len(strand)
  /\ \A i \in DOMAIN outbox : outbox[i] \in Payloads <=> strand[i] = "write"
  /\ wire \in Seq([data : Payloads, secure : BOOLEAN])
  /\ crash \in {"none", "null_connection", "bad_name"}
  /\ reader = "none" => tokens = <<>> /\ calls = <<>>

SessionInit ==
  /\ Init
  /\ streamHandler = "none" /\ reader = "none" /\ tokens = <<>> /\ calls = <<>>
  /\ outbox = <<>> /\ wire = <<>> /\ crash = "none"

-----------------------------------------------------------------------------
(* onXmlToken                                                               *)

(* The stream handler that a token leaves, and the calls that it makes.     *)
Reaction(next, does) == [next |-> next, does |-> does]

(* UnimplementedStreamHandler, for the stream of a secure connection        *)
Unimplemented == Reaction("unimplemented", <<"header", "error", "shutdown">>)

(* No stream is open: the stream handler's onStart, or a malformed stream.  *)
Opening(token) ==
  IF token # "open_stream" THEN Reaction("none", <<"refusal", "shutdown">>)
  ELSE IF state = "SECURE"
       THEN Unimplemented
       ELSE Reaction("negotiation", <<"header", "features">>)

StartTls_Late == <<"upgrade", "proceed">>                          \* mutant
StartTls == <<"proceed", "upgrade">>

CloseStream_StaysOpen == Reaction(streamHandler, <<"footer">>)      \* mutant
CloseStream == Reaction("none", <<"footer">>)

(* A stream is open.  The handler of a SECURE stream ignores stanzas.       *)
InStream(token) ==
  CASE token = "close_stream" -> CloseStream
    [] token = "open_stream" -> Reaction(streamHandler, <<"violation", "shutdown">>)
    [] token \in EmptyTags /\ streamHandler = "negotiation" ->
         Reaction(streamHandler, IF token = "starttls" THEN StartTls ELSE <<"error", "shutdown">>)
    [] OTHER -> Reaction(streamHandler, <<>>)

(* A handler that is posted takes its data along, and leaves with it.        *)
Carry(data) ==
  outbox' = IF Len(strand') > Len(strand) THEN Append(outbox, data)
            ELSE IF Len(strand') < Len(strand) THEN Tail(outbox) ELSE outbox

(* Thread t is in the tokenizer; after a shutdown it is back from close().  *)
InTokenizer(t) ==
  /\ crash = "none" /\ fault = "none"
  /\ reader = t
  /\ pc[t] = "tokens" \/ (released /\ pc[t] = "idle")

TakeToken(t) ==
  /\ InTokenizer(t) /\ calls = <<>> /\ tokens # <<>>
  /\ LET token == Head(tokens)
         reaction == IF streamHandler = "none" THEN Opening(token) ELSE InStream(token)
     IN  /\ streamHandler' = reaction.next
         /\ calls' = reaction.does
         /\ crash' = IF streamHandler = "none" /\ token = "open_stream" /\ released
                     THEN "null_connection"
                     ELSE IF streamHandler # "none" /\ token = "misnamed" THEN "bad_name"
                     ELSE crash
  /\ tokens' = Tail(tokens)
  /\ UNCHANGED <<vars, reader, outbox, wire>>

(* sendRaw *)
CallWrite(t) ==
  /\ InTokenizer(t) /\ calls # <<>> /\ Head(calls) \in Payloads
  /\ Write(t) \/ (released /\ UNCHANGED vars)
  /\ Carry(Head(calls))
  /\ calls' = Tail(calls)
  /\ UNCHANGED <<streamHandler, reader, tokens, wire, crash>>

(* upgradeTcpConnectionToTls shuts down when the certificate cannot be used. *)
CallUpgrade(t) ==
  /\ InTokenizer(t) /\ calls # <<>> /\ Head(calls) = "upgrade"
  /\ \/ Upgrade(t) /\ calls' = Tail(calls) /\ UNCHANGED crash
     \/ released /\ crash' = "null_connection" /\ UNCHANGED <<vars, calls>>
     \/ calls' = <<"shutdown">> \o Tail(calls) /\ UNCHANGED <<vars, crash>>
  /\ Carry("nothing")
  /\ UNCHANGED <<streamHandler, reader, tokens, wire>>

CallShutdown(t) ==
  /\ InTokenizer(t) /\ calls # <<>> /\ Head(calls) = "shutdown"
  /\ ShutdownOnToken(t) \/ (released /\ UNCHANGED vars)
  /\ calls' = Tail(calls)
  /\ Carry("nothing")
  /\ UNCHANGED <<streamHandler, reader, tokens, wire, crash>>

LeaveTokenizer_Early(t) ==                                         \* mutant
  /\ InTokenizer(t) /\ calls = <<>>
  /\ TokensProcessed(t) \/ (pc[t] = "idle" /\ UNCHANGED vars)
  /\ reader' = "none"
  /\ UNCHANGED <<streamHandler, tokens, calls, outbox, wire, crash>>

(* The tokenizer returns, and the read callback calls process().            *)
LeaveTokenizer(t) ==
  /\ InTokenizer(t) /\ tokens = <<>> /\ calls = <<>>
  /\ TokensProcessed(t) \/ (pc[t] = "idle" /\ UNCHANGED vars)
  /\ reader' = "none"
  /\ UNCHANGED <<streamHandler, tokens, calls, outbox, wire, crash>>

EnterTokenizer(t) ==
  /\ crash = "none"
  /\ Received(t)
  /\ IF pc'[t] = "tokens"
     THEN reader' = t /\ tokens' \in BoundedSeq(Tokens, MaxTokens)
     ELSE UNCHANGED <<reader, tokens>>
  /\ Carry("nothing")
  /\ UNCHANGED <<streamHandler, calls, wire, crash>>

-----------------------------------------------------------------------------
(* The connection, under the session.                                       *)

(* A thread in the tokenizer takes no handler. *)
Free(t) == crash = "none" /\ ~(reader = t /\ pc[t] = "idle")

DeliverWrite(t) ==
  /\ Free(t)
  /\ StrandWrite(t)
  /\ Carry("nothing")
  /\ wire' = IF IsOpen /\ SocketUsable
             THEN Append(wire, [data |-> Head(outbox), secure |-> state = "SECURE"]) ELSE wire
  /\ UNCHANGED <<streamHandler, reader, tokens, calls, crash>>

ConnectionThreadStep(t) ==
  /\ Free(t)
  /\ \/ Aborted(t) \/ Process(t) \/ Read(t) \/ CloseStep(t) \/ HandlerStep(t)
     \/ StrandUpgrade(t) \/ StrandRead(t) \/ StrandCancel(t) \/ StrandClose(t)
  /\ Carry("nothing")
  /\ UNCHANGED <<streamHandler, reader, tokens, calls, wire, crash>>

(* The client says nothing after its last read. *)
ClientStep ==
  /\ crash = "none"
  /\ NetworkStep
  /\ readOp' = "data" /\ readOp # "data" => issued < MaxReads
  /\ UNCHANGED protocolVars

SessionThreadStep(t) ==
  \/ EnterTokenizer(t) \/ TakeToken(t) \/ CallWrite(t) \/ CallUpgrade(t) \/ CallShutdown(t)
  \/ LeaveTokenizer(t) \/ DeliverWrite(t) \/ ConnectionThreadStep(t)

SessionNext == ClientStep \/ \E t \in Threads : SessionThreadStep(t)
SessionSpec == SessionInit /\ [][SessionNext]_sessionVars

-----------------------------------------------------------------------------
(* By the form of its steps the session is an owner that module               *)
(* TcpConnection allows; what is shown there of any owner holds of it        *)
(* (ClientSession.cpp:47-94, 281-315).                                       *)
OwnsConnection == Init /\ [][Next]_vars

(* The client is told to proceed, in clear, before TLS starts, and nothing   *)
(* else goes out in clear after that, although writes, upgrades and the      *)
(* handshake run in handlers of their own                                    *)
(* (NegotiationStreamHandler.hpp:58-64, TcpConnection.cpp:16-56).            *)
ProceedBeforeTls ==
  /\ streams > 0 => \E i \in DOMAIN wire : /\ wire[i] = [data |-> "proceed", secure |-> FALSE]
                                         /\ \A j \in DOMAIN wire : j > i => wire[j].secure
  /\ \A i, j \in DOMAIN wire : i < j /\ wire[i].secure => wire[j].secure

(* What goes out in clear are whole streams and the beginning of one: a       *)
(* header is followed by its features, and a header, or a refusal, which       *)
(* begins with one of its own, comes only at the very beginning and after a   *)
(* footer.  The exception is the violation, whose text repeats the header of  *)
(* the stream that it ends.  In clear or not, nothing goes out after an       *)
(* error, a refusal or a violation.  So it is whatever closes the connection  *)
(* or drops a write meanwhile (ClientSession.cpp:120-262).                   *)
Follows ==
  {<<"header", "features">>}
  \cup ({"features", "proceed"} \X {"proceed", "footer", "error", "violation"})
  \cup ({"footer"} \X {"header", "refusal"})
WireIsStream ==
  /\ wire # <<>> => wire[1].data \in {"header", "refusal"}
  /\ \A i \in 1 .. Len(wire) - 1 :
       /\ wire[i].data \notin Errors
       /\ ~wire[i + 1].secure => <<wire[i].data, wire[i + 1].data>> \in Follows

(* Properties the code does not have.                                        *)

(* Once the session is shut down, it handles no more tokens                  *)
(* (ClientSession.hpp:51).                                                   *)
ShutdownStopsProcessing == [][released => tokens' = tokens]_sessionVars

(* An error that the session writes on an open connection is sent            *)
(* (rfc6120.txt:2676-2680).                                                  *)
ErrorsReachTheClient ==
  [][Len(outbox') < Len(outbox) /\ Head(outbox) \in Errors => wire' # wire]_sessionVars

(* After TLS the stream begins anew: the client's opening over TLS is no      *)
(* violation of the stream before it (rfc6120.txt:3901).                     *)
StreamRestarts ==
  \A i \in DOMAIN wire :
    wire[i].secure /\ (i = 1 \/ ~wire[i - 1].secure) => wire[i].data # "violation"
=============================================================================
