# Verification of xtrpg-cpp-server

TLA+ models of the XMPP server in this repository, the TLC runs that check them
on small instances, and TLAPS proofs of what holds for every size. Paths are
relative to the repository.

The server accepts clients, reads an XML stream from each, asks for STARTTLS,
upgrades the connection and then answers that it is not implemented. What can
go wrong is therefore less in what it says than in when things happen: a
connection is read, written, upgraded, cancelled, closed and deleted by handlers
that run on all io threads, and a session and its manager decide in those
handlers who frees what.

## 1. The system

| component | state it keeps | operations | correct when |
|---|---|---|---|
| `TcpConnection` | `_state`, the socket, the SSL stream and context, `_tlsHandshakeInProgress`, `_closeCallbacks`, its strand | `read`, `write`, `upgrade`, `cancelRead`, `close`, and the handlers they start | each read is answered once; states come in order; deleted once, after CLOSED; no handler finds it deleted or throws; what is released ends |
| `XmlStreamTokenizer` | `State`, buffer, attribute name, current token, error | `process` of one chunk | the tokens are the markup of the text, wherever chunks and full buffers cut it; bounded memory |
| `ClientSession` | stream handler, `_isStopped`, `_isShutdown`, `_completionNotified`, callback | `start`, `stop`, `shutdown`, `process`, `onXmlToken`, `sendRaw`, `upgradeTcpConnectionToTls` | uses its connection by the rules; what it sends is a stream; proceed comes before TLS; errors are sent; nothing after shutdown |
| stream handlers | none (singletons) | `onStart`, `onStanza` (`onEnd` is not called) | react to each token by a fixed sequence of calls |
| `ClientConnectionManager` | `_clientSessionPtrs`, `_isShuttingDown` | `onObservation`, the state and completion callbacks, destructor | each session has one owner; exit releases everything and ends |
| `SocketConnectionListener` | two acceptors, `_isStopped` | `start`, `stop`, accept handlers | goes on accepting until stopped |
| `Observer`, `Observable` | the observer | `setObserver`, `dispatchObservation` | nothing is handed to an observer that has gone |
| `main` | `g_shouldShutdown`, the io threads | configure, check, listen, run, stop, join, destroy | it serves exactly if it is configured well; a signal ends the process |
| `ConfigManager` | three tiers of values per option | `registerModule`, `loadTomlFile`, `parseCLI`, `get` | what was written last on the command line, else in the file, else the default, in any order of registration |
| `Jid` | three parts, cached text | parse, print, bare form, compare by text | printing and parsing agree; the bare form never throws |
| XML nodes | a tree that owns its children | `append` in six forms, attributes, texts, moves, `serialize` | every node deleted once whatever throws; parents and children agree; no cycle; what is written is read back as the tree |
| TLS settings | two paths | `initializeTlsSettings`, `getTlsSettings` | written before the threads start |

How they interact. An accept handler of the listener makes a `TcpConnection` and
hands it to its observer, the manager, which makes a `ClientSession`, registers
it, installs two callbacks (state of the connection, completion of the session)
and starts it. The session calls `read` with a callback; that callback runs on
whatever thread completes the read, feeds the tokenizer, whose observer is the
session itself, and calls `read` again. `shutdown` gives the connection a close
callback that deletes it and tells the manager, which unregisters the session
and posts its deletion. The destructor of the manager, on the main thread after
the io threads are joined, stops the listener, shuts the sessions down, runs the
io context until nothing is left and deletes the sessions.

Before all that `main` lets the registry hand every module's schema to the
`ConfigManager`, loads `./config.toml`, parses the command line, looks for the
certificate and the key, stores their paths as the TLS settings that every
session's upgrade reads later, and gives the port to the manager. `ClientSession`
can build an XML tree with nested consumers and send it. `Jid` stands by itself.

What is hard: completion handlers of reads, writes, handshakes and TLS shutdowns
are bound to no strand, so each runs on any thread, next to the strand's
handlers; `close` tests a state, pushes a callback, posts a handler and
returns, all without a lock; every handler holds a raw `this`; deletions are
themselves handlers; `ioContext.stop()` leaves handlers queued that the
destructor's second `run()` takes up. `PROJECT.json` lists each hazard with its
line.

## 2. The modules

```
ConnectionContract  <----refines----  TcpConnection  <----extends---- ClientSession
        ^                                  |                                |
        | sessions keep to it        TcpConnectionProofs  <-------  ClientSessionProofs
        |
ClientConnectionManager --- ClientConnectionManagerProofs

XmlGrammar <--- agrees with --- XmlStreamTokenizer --- XmlStreamTokenizerProofs
     ^  ^                                                       |
     |  XmlGrammarProofs <--------------------------------------+
     | reads what is written
     XmlNodes --- XmlNodesProofs      ConfigManager <--- StartUp --- StartUpProofs

     Jid --- JidProofs
```

**`TcpConnection`** is one connection at the grain of the memory accesses that
threads share. `pc[t]` is the place in the code of io thread `t`, `cb[t]` the
argument of the `close` it is in, `todo[t]` the close callbacks it still has to
call. `strand` is the queue of posted handlers, `readOp`, `handshakes`,
`writing`, `tlsClosing` and so on are asio's operations in flight and those that
ended and wait for a thread. `close()` is seven actions (`CheckClosed` to
`JoinClosing`), since other threads write `_state` between its loads and collect the
callbacks between its last load and the push. Handlers of
the strand run one at a time and in order, which is what asio documents of a
strand; the model does not say on which thread, and lets other handlers come
between any two of them, where asio often runs a batch. The owner is the read
loop of `ClientSession`, with any sequence of writes, upgrades and shutdowns
for what tokens make it do. `fault` records what ends the process or leaves the
language's rules (an exception out of `run()`, a deleted object, a stream
replaced under its handshake); nothing happens after it.

**`ConnectionContract`** is the abstract specification: state, whether a read
waits for its answer, and who holds the connection. `TcpConnection` refines it,
liveness included, when one thread runs the handlers (`KeepsContract`). With
more threads it does not, because the state can go back (`NeverReopens`) and a callback
can be lost (`ClosesCallBack`).

**`ClientSession`** puts the stream protocol in the place of the owner's free
choice: tokens of a read, the stream handler, the calls each token leads to, the
data of every handler on the strand (`outbox`, place by place with the strand;
only a write has any), and what reaches `async_write` (`wire`). It EXTENDS `TcpConnection`, so all interleavings of
the connection are still there, and each of its steps is, as it is written, a step of
`TcpConnection` (`OwnsConnection`, which the proofs use and no run checks).
`WireIsStream` says that what goes out in clear are whole streams and the beginning of
one, each piece after one that it may follow, and that nothing goes out after an error.
Two replies of the code are whole streams, with a header of their own: the refusal
(`ClientSession.cpp:138-149`), which answers what does not open a stream and so comes at the
beginning or after a footer, and the violation (lines 253-259), which answers a second
opening within a stream. The violation's is the one header in clear that the property lets come
before a footer; it ends everything. The property says no more of what goes out once TLS
runs, because there a piece may be missing: a write that comes while the handshake
is in flight fails (its socket has been moved away), and closes the connection only
when its own handler runs; the handshake may end first and the next write go out.
The run `session` is too short for that, the proof is not: a stronger property that
the run could not refute turned out not to be provable, and a run with four reads
showed why. A token that the session ignores is no
token of the model; a chunk the tokenizer fails on is a read with fewer tokens.
That the certificate cannot be loaded is a choice of `CallUpgrade`.

**`ClientConnectionManager`** is the server around connections: the listener's
accept handlers, the manager's registry and callbacks, the lifetimes of
sessions, `main`'s stop and join, and the destructor statement by statement,
with the main thread running handlers in it. Its connections are at the grain of
`TcpConnection` where it matters for their end: `close()` in its seven steps, the
strand, the upgrade and its handshake handler in three steps, both branches of the
strand handler of `close`, the read, and the collection and the calls of the callbacks. A
job of a thread is its place in this code, with the client it is at work for. What
`TcpConnection` has beyond that is left to it: writes are only a failed one that may
call `close()` at any time once the session has handled tokens; a session upgrades once,
so that the replaced stream stays there; a cancel ends a read, as the network may
(`ReadEnds`); and the descriptor and what throws for the lack of one are left out. Any worker
may take any ready handler. A
thread that goes on with a deleted session or connection is noted in `misuse`
and goes on as if the object were intact, so that the other properties are
those of the program as it is meant, and the two properties about `misuse`
say where it is not. `UsesByContract` says that sessions use their connections as
`ConnectionContract` asks.

**`XmlStreamTokenizer`** has one action for each thing its states do with a
character. It consumes a character at a time; everything the code remembers
between characters is in members, so chunk boundaries need no variable.
**`XmlGrammar`** is the reference: predicates on stretches of the text, no state
machine, from which `Items` says what tokens a text amounts to. A character is
one of its class; the five letters `CDATA` are one symbol.

**`ConfigManager`** is the class: what it stores of each setting and what each
operation does to it. A text of a file or of the command line is the form it has
(digits, quoted, plain, ...), which decides its type, and what it says. A line is a
section, an assignment or ignored; the last covers comments and, what a reader may
not expect, a section header with a comment behind it. **`StartUp`** is `main` up
to the server that listens, with the file, the command line and the order of the
registrations free. Its properties say on their own, from the text as a whole,
what each setting should be: the last assignment under the section that stands
above it, and of arguments that could take one another every second one.

**`XmlNodes`** is the tree of `include/xtrpg/xml/node` with the code that builds it.
`builders` are the consumers at work, outermost first, as they lie on the stack of
`ClientSession::send`; `loose` are the nodes a caller has made by itself. Every
refusal and every exception of a consumer unwinds one consumer at a time, and any
of them may catch. `Send` writes the tree; `ReadsBack` reads the text with the
grammar the tokenizer is checked against, replaces the entities as a client does,
and compares. The nodes cannot check how they are called, so the model's callers keep three
rules: by pointer they append what they own (not a child of another container, nor an
object on somebody's stack) or what `append` refuses; they do not discard or append away
a container in which an `append` with a consumer is at work; and they move only nodes without
children. Everything else they may do, and they do append a node below itself, which the code
accepts.

**`Jid`** has its parsers and printer as operators and a caller that parses,
makes one of parts, takes the bare form and parses what was printed.

`MCTcpConnection`, `MCClientSession`, `MCClientConnectionManager` and
`MCXmlStreamTokenizer` give TLC the symmetry of the threads, clients and acceptors and
the openings of the streams; `MCStartUp` the lines and
arguments of which files and command lines consist, among them a quoted argument, whose
quotes are part of its text as in the code, with the schemas of the two
modules of the program; `MCXmlNodes` names and contents, one of each refused;
`MCJid` all texts over a letter, its capital, both separators, a blank and a
continuation byte.

### Grain of atomicity

* A handler of the strand is one step up to the announcement of CLOSED and the
  calls of the callbacks, which are steps of their own; one critical section of
  the manager under `_callbackMutex` is one step. The lock order is observer, callback (recursive),
  registry and has no cycle.
* `_closeCallbacks` is an unsynchronised vector. `push_back` and the move that
  collects it are single steps; what a data race inside them would do is outside
  the model, and every property with several threads is to be read that way.
* `shutdown()` of a session is one step up to the call of `close`, although it is
  two exchanges of flags: only the thread of the read callback calls it while
  the io threads run, and only the main thread later.
* The destructor's first statements (stop the listener, remove the observer, set
  the flag, take the registry) are one step: no other thread runs any more.
* The calls of `shutdown()` on the main thread, in the destructor, are one step each with
  their `close()`: no other thread runs then.

## 3. The runs

| run | module | instance | states | shows |
|---|---|---|---|---|
| `conn_single` | TcpConnection | 1 thread, 3 reads, 2 writes, 1 upgrade | 6,215 | the contract with its liveness; no handshake outlived by its connection; nothing forgotten; nothing thrown |
| `conn_multi` | TcpConnection | 3 threads, 3 reads, 2 writes, 2 upgrades | 675,014 | reads answered at most once, deletion at most once, the inductive invariant |
| `session` | ClientSession | 2 threads, 3 reads of up to 2 tokens, 2 upgrades | 1,286,544 | proceed before TLS; what goes out in clear is whole streams and the beginning of one, and an error the end of all |
| `manager` | ClientConnectionManager | 3 threads and main, 1 client, 2 acceptors | 996,936 | one owner per session, a signal and the destructor included; acceptors go on |
| `manager_single` | ClientConnectionManager | 1 thread and main, 2 clients, 1 acceptor | 624,241 | exit releases everything and comes; the contract's other side |
| `tokenizer` | XmlStreamTokenizer | 9 openings and 4 characters | 211,955 | tokens agree with the grammar; bounded buffer |
| `startup` | StartUp | files of 3 lines, 3 arguments, 3 registrations | 1,210,141 | each setting is what was written last of it; serves exactly if well configured |
| `nodes` | XmlNodes | 4 nodes, 1 attribute | 680,142 | one owner per node, which its parent tells; what is sent is read back |
| `jid` | Jid | texts of 6 characters, parts of 2 | 18,645 | printing and parsing agree; the bare form |
| `conn_lost` | TcpConnection | 2 threads | violated | a close loses its callback |
| `session_error` | ClientSession | 1 thread | violated | the stream error before a shutdown is dropped |
| `manager_exit` | ClientConnectionManager | 2 threads, 1 client | violated | at exit an aborted read's handler uses the deleted connection |

Each violated property states what a comment or an RFC in the repository says;
`PROJECT.json` quotes it in the finding and explains the trace. Every property of a
passing run is broken by a mutant of the code's model, an operator that stands
before the definition it changes and is marked `mutant`.

Deadlock is checked in `startup` and `jid`. It is not in the others: a connection
ends deleted, a session ends, the server exits, a stream ends, a tree is sent.

### Bounds

`MaxReads` bounds the calls of `read`; the last one ends the session, as a client
that goes away does. Two reads are needed for one to follow an upgrade, a third
for one on the secure connection. One write shows each path of a failing write,
two show two failures at once; `session` is given eight, which its tokens never reach. One
upgrade is all a correct client asks for; two, in `conn_multi` and
`session`, reach the replaced stream. Two threads let a close, a completion handler and a
strand handler overlap, and the traces of the violations need no more; `conn_multi` has a third.
In `manager` three threads
share one client, since all that they can do to each other they do on one connection, and
two acceptors show a pending accept next to one that has ended. In `manager_single` two
clients show that sessions do not disturb each other (a registry that erases the wrong
one, a destructor with one session half closed and one idle); two clients with several threads are too many
states for a run, and are what the proofs of section 5 are for. Each client connects once, since a connection is never used again. `MaxBuffer` is 3 where the code has 999999: comments and CDATA
sections end in three characters, so this is the least bound at which they can be
handed on in the middle, and every off-by-one about it is within four characters.
The openings put the free characters inside each kind of markup.
Three lines let a section be left and entered again and a setting be overridden in
it; three arguments let one take the next and the third decide what becomes of
both. Four nodes are a root, a consumer's tag in it, a consumer's tag in that and
a node that has been appended, which is what an exception can find. The second attribute
name and one of the contents are refused by the code; one content holds every
character that is escaped but a line break, which is treated like a tab. `MaxPart`
is 2 where the code has 1023; six characters hold three parts with both separators
and a blank, or two separators of each kind.

### Fairness

A thread that has something to do goes on: `WF` of each thread's step, because
`io_context::run` takes handlers while there are any, and because a thread is not
suspended for ever. Nothing is assumed of the client or the network: reads and
handshakes may stay pending for ever. `main`'s wait for a signal is not fair
either; `ServerExits` begins once the signal has come. The destructor's run() waits for
what is pending, so `ServerExits` holds only where the code itself ends every operation.

## 4. What the models show of the code

Holds, for the instances above and, where section 5 says so, for all: a read is
answered at most once; a connection is deleted at most once; sessions have exactly one owner;
the output is, until TLS starts, whole streams and the beginning of one, and an error
ends it; the tokenizer agrees with its grammar. With one io thread a connection keeps its
whole contract and exit comes and frees all; `main` starts as many threads as the
hardware has, and with two neither does.

Each setting of the configuration has the value that was written last of it;
every node of a tree is deleted at most once and what is written of it is what was built;
a parsed `Jid` but one kind prints as what it is.

Does not hold, with a run:

1. With two threads a close can lose its callback: it tests for CLOSING, the strand's
   handler collects the callbacks, and then it pushes its own, which nothing calls
   any more (`TcpConnection.cpp:164-165`, 203-204).
2. Stream errors are not sent: the close overtakes them (`ClientSession.cpp:138-150`).
3. At exit an idle client's connection is used after its deletion
   (`TcpConnection.cpp:202-204`).

Does not hold, known from the models, without a run of its own. Where a definition is named,
it stands at the end of its module (or is a property of `manager_single`), and TLC refutes it
when it is put into the configuration of a run of that module, with the threads that are given.

What the repository's own text says otherwise:

* With two threads a session can be deleted under its own callback (`SessionOutlivesCallbacks`).
  `shutdown()` in the read callback posts the deletion of the session to the io context
  (`ClientConnectionManager.cpp:86`), and another thread runs it while the callback is still in
  the tokenizer (`ClientSession.cpp:91-92`); the state callback (lines 64-70) is exposed in the
  same way. `ClientConnectionManager.hpp:21-24` has callbacks "synchronized with destruction".
* With two threads a closing connection can open again, although `TcpConnection.hpp:160-161`
  says that the strand serializes access to the state: the handshake's handler, which is bound
  to no strand, tests for CLOSING (`TcpConnection.cpp:46`), `close()` on the other thread sets
  CLOSING, and the handler sets SECURE (line 53) (`NeverReopens`).
* With two threads the exit can wait for a client for ever. Once the connection has reopened
  like that, the strand handler of `close` starts a TLS shutdown, which has no timeout
  (`TcpConnection.cpp:184-187`), and the `run()` in the manager's destructor waits for the
  answer of a client that is silent (`ServerExits`, against the "graceful shutdown" of
  `main.cpp:110`).
* With two threads the exit can leave a connection behind, whose callback a close has
  lost (`ReleasesEverything`), although `ClientConnectionManager.hpp:33` has everything released.
* After TLS the client's new stream header is answered as a policy violation, since the
  handler of the old stream stays (`ClientSession.cpp:251-262`); rfc6120.txt:3901 asks for
  a restart (`StreamRestarts`).
* `ConfigManager::get` returns nothing for a missing section or key, where its comment
  (`ConfigManager.hpp:237-241`) says that it throws; the calls of `value_or` in `main` rely on the
  former (`MissingSettingThrows`). `ServesIfConfigured` is about `get` as it is.
* `append` accepts what `NodeContainer.hpp:39` says it refuses: a container below
  itself or below its own child, when it has no parent yet (lines 48-53, `NoCycle`);
  destroying it then never ends.
* Parts of a `Jid` are bounded by 1023 code points (`Jid.cpp:83, 95, 106`), which
  may be more than the 1023 octets of rfc7622.txt:312-314, 375-376 and 474-475
  (`PartsFitOctets`). The bound in `TypeOK` is the code's.

What else the models show:

* The read after STARTTLS fails with `bad_descriptor` and closes the connection
  (`TcpConnection.cpp:99`), unless the handshake is done before the strand runs it:
  the descriptor has moved into the SSL stream, while the state says INSECURE until
  the handshake is over (`ReadFindsDescriptor`).
* A disconnect leaves a cancel on the strand of a deleted connection
  (`TcpConnection.cpp:119`): the CLOSED announcement calls `ClientSession::stop` and so
  `cancelRead`, which posts a raw `this`, and the close callbacks that run next
  delete the connection (`CancelFindsConnection`).
* Tokens are handled after `shutdown` (`ClientSession.cpp:91`), which
  `ClientSession.hpp:51` says stops processing, and through a null pointer when they
  start a stream or TLS (lines 155 and 309) (`ShutdownStopsProcessing`).
* The server listens on the low 16 bits of the port it was told: 70000 is 4464, -1 in
  the file is 65535 (`main.cpp:103`, `ListensOnConfiguredPort`). -1 on the command
  line is a text, so start-up fails on it.
* `append` accepts a second parent for a node, which is then deleted twice, and an
  object on somebody's stack; the callers' rules of section 2 leave both out.
* A move leaves the children pointing at the container they came from, and a move
  assignment forgets the children it replaces (`NodeContainer.hpp:26-27`). Since the
  bases declare destructors, names and attributes are copied and not moved.
* A carriage return in a text is written as it is, though in an attribute it is
  escaped (`TextNode.hpp:83-100`, `IAttributes.hpp:107`), and XML readers turn it
  into a line feed.
* "@b@c" is a `Jid` with an empty local part and the domain "b@c", prints as "b@c",
  and so equals the Jid of local part "b" and domain "c" (`Jid.cpp:37-40, 67`). Jids
  made of parts with separators in them do the same. `Jid::parse` returns a
  reference to a temporary (`Jid.hpp:18-20`).
* A section header with a comment behind it is ignored, and what follows belongs to
  the section before (`ConfigManager.cpp:55`). An assignment without a value calls
  `front()` of an empty text (line 77); with the usual library that is the
  terminating zero and `stoll` throws, so start-up fails, as the model says.
* Closing a SECURE connection neither shuts TLS down nor aborts its read:
  `close()` sets CLOSING before it asks `isSecure()` (`TcpConnection.cpp:175, 184`).
  The read ends when the connection is deleted.
* A second `<starttls/>` in one read replaces the stream of the first handshake
  (`TcpConnection.cpp:26`); in the model this is `fault = "lost_stream"`.
* `</ >` is handed on as a close tag without a name
  (`XmlStreamTokenizer.cpp:204-207`, against `XmlToken.hpp:17`); the grammar has it too.
* A tag whose name `TagNode` refuses ends the process (`ClientSession.cpp:195`);
  in the model this is `crash = "bad_name"`.
* `NothingForgotten`, `NothingThrown` and, with two upgrades, `HandshakeOutlived` fail
  with two threads; they are properties of the run with one.

## 5. The proofs

For every set of threads, clients, acceptors, letters, settings and every bound; checked by
TLAPS with nothing assumed but the named ASSUMEs of the modules (the thread set is
not empty, `main` is not in it, and "none" is no thread; bounds are naturals,
`MaxBuffer >= 2`, a client is none of the words for the state of an accept; there is room for
a node, no node is `None` and contents are sequences of strings; no letter is a sign that the
tokenizer tells from letters; those of `StartUp` and
`Jid` are below).

The connection:

* `TcpConnectionProofs!TypeCorrect`: `[]TypeOK`. One lemma per group of actions
  and, in it, one step per action and group of variables.
* In the same module `[]AnsweredAtMostOnce` and `[]NeverDeletedTwice`.
  Neither is inductive: that a read is answered once depends on its callback being
  in one place at a time, on its way from the strand through the operation, `cb`,
  the vector and `todo` to the call. `ReadOnce` and `DeleteOnce` say so for the
  read and for the owner's deletion; `Inv` is their conjunction with `TypeOK`, and
  each action moves at most one of them one place further.
* There too, after these, `[]HandshakeOutlived`, `[]NothingThrown`,
  `[]NothingForgotten` and `ImplementsContract`, the safety part of `KeepsContract`,
  for one io thread and one upgrade, any number of reads and writes and any owner.
  With two threads all of them are false, and with two upgrades, which no correct client asks
  for, the first two are. The inductive invariant is `Inv` with `Alone(t)`: the upgrade is in one
  place (`UpgradedOnce`); a handshake that is not handled to its end keeps the
  connection from being CLOSED and its descriptor open (`HandshakeKeeps`), which
  gives `HandshakeOutlived`; a place of the code goes with the states it can be
  reached in (`PlacesKnowState`); a session stops only on the way into `close` or when
  closed, so that a cancel finds the connection no longer open
  (`StoppedCloses`), which gives `NothingThrown`; a close that has begun has a handler, a
  handshake or a place that ends it (`CloseEnds`), and until the owner lets go it runs or
  has a read to wake it, after that the callback that deletes the connection
  (`NothingLost`), which together give `NothingForgotten`.

The session:

* `ClientSessionProofs`: `AnsweredAtMostOnce` and `NeverDeletedTwice` hold of sessions. The
  lemma behind them, `SessionSpec => OwnsConnection`, follows from how `ClientSession` is
  written, each of its steps being one of `TcpConnection` with what the session does besides; what they
  say of the code is proved in `TcpConnectionProofs`.
* `[]SessionTypeOK`, `[]ProceedBeforeTls` and `[]WireIsStream`, for every number of
  threads, reads, tokens and upgrades. What is on the wire depends on what is
  still on the strand and on what `onXmlToken` is about to call, so `SessionInv`
  follows the stream through all three while the connection is open and in clear
  (`Plain`; once it is not, it never is again, which is `PlainBefore`): each write on the strand may
  follow the last one before it, on the strand or on the wire, and an upgrade follows
  "proceed" (`QueueIsStream`); the stream handler and the calls left follow from
  what was said last (`SpeaksInTurn`); an error is the last of all and leaves
  only the shutdown to be called (`ErrorEnds`). `Plain` is what makes this hold: on such a connection
  no write is dropped or refused. `QuietMove`, `GoesOnPost` and `GoesOnTake` say what posting and taking
  a handler does to the stream; each action is one of these.

The manager:

* `ClientConnectionManagerProofs`: `[]TypeOK`, `[]OwnedOnce` and `[]KeepsListening`, for every
  number of threads, clients and acceptors. `OwnedOnce` needs to know that a connection is accepted once
  and has no session before (`AcceptedOnce`), that no handler runs for a client
  that is not there yet (`StartedFirst`), and that the destructor's list is
  empty until it takes the registry over (`TakenOver`).
* In the same module `[]ReleasesEverything` for one io thread (`OneThread`), and every number of clients
  and acceptors; with two threads it is false (section 4). `ReleaseInv` has three parts.
  `PhaseInv` says who runs in each phase and what the destructor may rely on; with it, the
  thread that runs is alone. `Orderly` says what else goes with a place of the code.
  `ClientInv` speaks of a client and the one job there is: what its place knows of the state
  of the connection, so that no close
  comes between the test and the store of another (`PlaceInv`); the upgrade is posted once
  (`UpgradeInv`); a CLOSING connection has a handler, a handshake or a place that ends it, and
  the callbacks wait for that (`ClosingInv`); a released
  connection is deleted, or the callback that deletes it is among the callbacks or in the job
  (`DeletionInv`); and a session that has left the registry, or that the destructor has
  silenced, has let go of its connection (`SessionInv`). That the run in
  the destructor ends only when nothing is ready or pending is what turns this into
  `ReleasesEverything`.

Start-up:

* `StartUpProofs`: `[]ConfigInv` and `[]ConfiguredAsWritten`, for every file, command
  line, set of modules and order of registration, from the ASSUMEs of `StartUp`: a
  module's name is its own, every module is registered at least once, the modules of
  the program register the settings that `main` reads, with the types and defaults of
  `TlsConfig.hpp:15` and `ClientConnectionManager.hpp:57` (`SchemaAssumption`), `None` is no
  value, the inputs are sequences of lines and arguments, and the two texts the code
  has as literals are strings, which the provers do not know. `ConfiguredAsWritten`
  speaks of the end only; `ConfigInv` says for every line and argument on the way
  that each tier of a setting holds its last place before it, that the section is the
  one the line is in, and that the next argument to be parsed is not one that
  another takes (`TakenNext` relates that to the parity in `IsTaken`).
* `[]ServesIfConfigured`. `ServesInv` adds that start-up comes as far as a phase only if
  all that it has read before is well formed (`ReadInOrder`) and what it has checked
  was there (`Checked`), and that it ends for one of the reasons it names (`Ended`).
* `[]TypeOK`. A port is one of 16 bits only if what is cut to it is a number, so
  `Sound` follows each value that is stored back to its text: the texts that read as
  numbers, and the default 5222, stand for one (`NumbersAssumption`); and what is
  malformed is never stored.

Jids:

* `JidProofs`: `[]TypeOK`, `[]ReadsBack` and `[]BareKeeps`, for texts and parts of every length,
  every alphabet that has the separators and the blank, and every `LowerOf` that maps
  capitals to characters that are neither capitals nor separators nor blanks
  (`CharactersAssumption`). The invariant behind them is `JidInv`: the parts of a Jid
  are trimmed, in lower case and within their bound (`Valid`), and those of a parsed one lack the separators that
  would end them sooner (`Separated`). `ParseSeparates` proves the second of every text;
  `CutAt` says that a word put together at a separator comes apart there, and
  `ParsedIsRead` that therefore a printed Jid is read as it was, unless its
  domain has an "@" and its local part is empty.

The tokenizer:

* `XmlStreamTokenizerProofs`: `[]TypeOK` and `[]FitsBuffer`. `FitsBuffer` needs that
  a text in the buffer is below the bound between characters, and that the current
  token's content is within it (`Bounded`).
* In the same module `[]TokensAgree`: for every text, every set of letters that has no
  delimiter in it (`LettersAssumption`, which `isNameCharacter` justifies) and every
  `MaxBuffer >= 2`, the tokens and the pending text are the items that `XmlGrammar` reads.
  The property says nothing of the markup the tokenizer is in the middle of, so it is far
  from inductive. `AgreeInv` says it of every text that continues what has been read: its
  items are those handed on, then those of the rest from the place s where the tokenizer
  stands (`Follows`). In the text between markups s is the next character; in a
  markup it is its "<", none of the prefixes read so far is a whole markup, and the state
  and the members are what the grammar's parts of it amount to (`Stage`, with one
  predicate for each group of states: `TagReading`, with `BodyReading` and
  `AttributeRead` under it, `SpecialReading`, `CdataReading`). It has to speak of every
  continuation, because the grammar tells where a markup ends only by what follows.
  For each action a lemma `...Follows` shows that one character more leaves the markup open, ends it
  with the token that is emitted, or makes the tokenizer fail where no markup can
  end (`Outcome`); a CDATA section, whose text is handed on as it comes, has lemmas of its own.
* `XmlGrammarProofs` has what these lemmas need of the grammar: that its functions, which refer
  to themselves, exist and come apart at the end of an attribute, of a markup, of a text
  (`ItemsFromIs`, `ItemsPastMarkup`), that each kind of markup ends in one way
  only (`MarkupOfKind`, `OpenTagIs`, `CdataIs`, ...), which attributes a body has when it
  gets one more, and that `FlattenSeq` goes on by one sequence (`FlattenAppend`). Induction
  over positions is had from a least counterexample in a set of naturals (`LeastExists`),
  since the library's induction theorems take an operator as a parameter.

The node tree:

* `XmlNodesProofs!TypeCorrect`: `[]TypeOK`, whatever a caller appends, moves or sends.
* `[]OwnedOnce` and `[]ParentsTell`, for the callers of section 2, who append nodes below
  themselves too, and without whose rules both are false. `OwnershipInv` is their strengthening: the nodes
  without a parent are exactly those
  that a consumer or the caller holds (`RootsHeld`), a node with a parent lives
  among that parent's children and the other way round (`ParentsKnow`,
  `ChildrenKnow`), each is held once (`HeldOnce`), and a consumer's node will be appended to
  the node of a consumer around it or to one of the caller's (`ConsumersNest`). It does not say that nodes are a forest, which is false
  (`NoCycle`). An exception deletes the tree of the innermost
  consumer; `TreeIsClosed` and `TreeOfRoot` say that nodes of that tree have their children
  in it, and all but the root their parent, so that nothing outside refers to what is gone.
  `Ancestors` and `Tree` are least closed sets, which is what a proof can use of them, and
  which a circle does not upset.

Model-checked only: liveness (`KeepsContract`'s promises, `ServerExits`), which
needs fairness and so ENABLED; `UsesByContract`, for one io thread; and the `ReadsBack` of
`XmlNodes`. That one relates two
recursions of different shape, the writer's over the nodes of a tree and the grammar's over
the positions of a text: that a tree's text is read as the markup it was written as
would need an induction over trees in which the reader's stack takes part, and that the
escaped contents have no delimiter, for which the replacement of entities has to be
undone character by character. The lemmas about the grammar above would carry its second half.

## 6. Not modelled

The help and the dump of the configuration, logging, the console's connection count,
the text of what is sent by the stream handlers, partial writes, memory exhaustion,
the number of hardware threads (0 would start none and serve nobody,
`main.cpp:122`), and the inside of asio, OpenSSL and the file system beyond their
documented contracts. Lines and arguments are not put together character by character.
Trees are bounded in depth by `MaxNodes`, so a stack that overflows in a
recursive destructor is outside the model.

Mutexes of the manager are taken in the order observer, callback (recursive),
registry; there is no cycle, and no lock is a variable of a model.

## 7. Plan

1. Done: the connection, its contract and its owner; the session; the tokenizer;
   the manager, the listener and the exit; types and the first invariants proved.
2. Done: the configuration and the start of `main`; the node tree; `Jid`.
3. Done: every invariant that a run checks is proved, but for `ReadsBack` of `XmlNodes`.
4. Done: connections at the code's grain in the manager's model.
5. To come in the models: writes in pieces, two on one stream; the main thread's wait
   composed with start-up. In the proofs: `UsesByContract` for one io thread, `ReadsBack`.
