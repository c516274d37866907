# A TLA+ model of liboizys

liboizys is a small C++ library on top of `boost::asio`: it turns a connected
local stream socket into a *session* that sends and receives whole messages.
The repository also holds example programs in C++ (servers and clients) and
clients in Go, Rust, Python and Zig that speak the same protocol.

This directory models the protocol, the session, two sessions and the socket
between them, the three example servers with the endpoint they listen on, and
the example clients in all five languages. TLC checks the models on small
instances; TLAPS proves all safety properties that these runs check for every
value of the constants. Paths below are relative to the repository's root.

## 1. Inventory

| Part | Code | State | Operations | Talks to |
|---|---|---|---|---|
| frame codec | `src/com_message.*` | header and payload of one message | construct from a content, `parse_header` | session; the codecs of the other languages over the wire |
| session | `src/asio_session.*`, `inc/oizys/session_i.hpp` | socket, two handlers, write queue, one read buffer | `send`, `set_onclose`, `set_onmessage`, `close`, destructor; completion handlers `read_header`, `read_payload`, `write_header`, `write_payload` | user code (calls and callbacks, re-entrant), kernel (asynchronous operations), `shared_ptr` (lifetime) |
| factory | `src/session.cpp` | none | `create_session` | session |
| chat server | `example/chat/chat_server.cpp` | table id → session, last id | accept, broadcast from inside `onmessage`, remove, close, destruction | sessions, signal set |
| notification server | `example/notification/notification_server.cpp` | the same, a timer | accept, broadcast from the timer, remove, close, destruction | sessions, timer, signal set |
| echo server | `example/echo/echo_server.cpp` | none of its own | accept, answer from inside `onmessage` | sessions that own themselves |
| chat clients | `example/chat/chat_client.cpp`, `go/main.go`, `rust/src/main.rs`, `python/chat_client.py`, `zig/chat-client.zig` | a read under way, a line buffer, who waits for what | read frames, read lines, send, end | the chat server, the console, signals |
| echo and notification clients | `example/echo`, `example/notification` (C++, Go, Rust, Python, Zig) | a read under way | one request, or read until the signal or the loss | their servers, signals |
| `main` of the servers | the three `*_server.cpp` | the file at the endpoint, a flag for the signal | unlink, bind, listen, loop, last unlink | other processes on the same path, signals |
| version | `src/version.cpp` | none | three constants | - |
| build | `CMakeLists.txt`, `oizys.pc.in`, `cmake/` | - | - | - |

What is hard here, and hard to test:

* **Re-entrancy.** Every session method may be called from inside every
  callback, of its own session or of another. `close` may run inside `onclose`,
  `send` inside `onmessage`, a close handler may be set on a closed session.
  Handlers are `std::function`s that the code itself overwrites.
* **Two chains of asynchronous operations** on one session, each started from
  several places (`set_onmessage` and the read handlers; `send` and the write
  handlers), with completions that wait while something else runs. The size of
  the write queue doubles as the flag "a writer runs".
* **Lifetime.** Nobody but outstanding operations and user code own a session;
  handlers may own it too, which makes a cycle that only the close breaks.
* **A stream that is cut anywhere**, and a peer that goes at any moment.
* **Shutdown order** in the servers: the `io_context`, which still owns
  operations, outlives the server whose `this` the handlers captured.
* **Waiting for two things at once** in the clients, five times differently.
* **One path, several processes.** A server is started twice, or again before
  the old one has ended, or after a crash; each removes what it finds.

`PROJECT.json` lists each of these under `hazards`, at its line, with the
properties that cover it.

What makes the parts correct:

* codec: a reader of any language computes the length that a writer of any
  language meant, and accepts nothing else;
* session: one read and one write at a time; no message stranded in the queue;
  an open session always reads; the close handler is called once and with the
  right error; nothing outlives its owner; closed sessions are destroyed;
* two sessions: a pair of FIFO channels of whole messages;
* servers: all clients see one conversation; the table finds every session; a
  peer that does not read delays nobody; nothing runs in a destroyed server;
* clients: what the server sends is shown once and in order; what is typed is
  sent; the loss of the server is noticed, and the signal;
* `main`: a server that is alone at its endpoint is reachable there, whatever
  was left behind.

## 2. Modules

| Module | Models | Notes |
|---|---|---|
| `ComMessage` | `com_message` | headers are four bytes; operators only |
| `Framing` | one header from a writer to a reader, each of any language | extends `ComMessage` |
| `AsioSession` | any number of sessions on one thread, with their user code | extends `ComMessage` for the verdict on headers |
| `SessionLink` | two sessions, byte streams between them | extends `AsioSession`, adds wires and partly done reads and writes |
| `MessageChannel` | abstract: a pair of FIFO channels | `SessionLink` implements it |
| `ExampleServers` | the three servers as users of sessions | extends `AsioSession` |
| `Clients` | echo, notification and chat clients in five languages, one connection | |
| `Endpoint` | the main functions of any number of servers on one path | |
| `ComMessageProofs`, `FramingProofs`, `AsioSessionProofs`, `SessionLinkProofs`, `ExampleServersProofs`, `ClientsProofs`, `EndpointProofs` | theorems about the module of that name | |
| `Induction` | induction over numbers, and the lemmas about `FlattenSeq` that follow | used by `SessionLinkProofs` and `ClientsProofs` |
| `MC*` | the constants of the TLC runs | |

The properties stand at the end of each module. Definitions whose comment
begins with "Mutant" are not part of the model: each is a plausible bug which
`PROJECT.json` names for a property, to show that the property can tell the
difference.

### From the code to the model

**AsioSession.** `socket_`, `onmessage`, `onclose` and `write_queue` are the
members of the same name. `reading` and `writing` stand for the outstanding
`async_read` and `async_write` (none, header or payload; pending, succeeded,
failed, aborted; two at a time are the state "overlap"). One thread runs
everything, as README.md of the repository asks. Between two steps either the
thread is in the `io_context` (empty `stack`) or user code runs inside of
callbacks (`stack`, innermost first); so a callback is the sequence of steps
from the push of its frame to its pop, in which user code may call any method
of any session. What the code does *after* a callback returns
(`onclose = [](auto){}`, `onmessage = ...`, the next `read_header()`) is the
step that pops the frame. An exception out of a callback is caught by the code
on all three paths and has the effect of a return.

| Code | Action |
|---|---|
| `send`, `set_onclose`, `set_onmessage`, `close` | `Send`, `SetOnClose`, `SetOnMessage`, `Close` |
| `close_intern` up to the call of the handler; after it | `CloseIntern`; `ReturnFromOnClose` |
| the callback of `set_onclose` on a closed session | `ReturnFromLateOnClose` |
| handlers of `read_header`, `read_payload` | `HandleReadHeader`, `HandleReadPayload`, `ReturnFromOnMessage` |
| handlers of `write_header`, `write_payload` | `HandleWriteHeader`, `HandleWritePayload` |
| `~asio_session`, last `shared_ptr` gone | `Destroy` |
| user code drops its `shared_ptr` | `Release` |
| kernel: an operation completes | `ReadDone`, `WriteDone` |

A session without owner is destroyed before anything else happens
(`NoGarbage`). Close cancels outstanding operations: their handlers still run,
with `aborted`.

**SessionLink** keeps those actions and adds what the bytes do: the kernel
moves one byte at a time into and out of a buffer of `Capacity` bytes, so
headers and payloads are cut everywhere. A write to a closed peer fails; a read
fails at the end of the stream, after the bytes that are left. The
parsed header is now that of the bytes that came, and no longer any of
`PeerHeader`. Both users install their handlers first, as the README of the
repository recommends.

**ExampleServers** replaces "user code may do anything" by the three programs.
`sessions` and `id` are the members; `captured` is the id that the lambdas
captured; `phase` says how far `main` is: running, in the loop of `close()`,
server destroyed, context destroyed. The body of a callback and the return from
it are separate steps where `send` or `remove` happen in between. `remove`
does what the code does: nothing, since its test of the iterator is the wrong
way round (see findings).

**Clients** has one module for fifteen programs (`program`, `lang`), since they
differ in few decisions: what they begin with (`InitEcho`, `InitNotification`,
`InitChat`), what a finished or failed read does (`ReadPayload` with `Offers`
and `GoOn`, `ReadFails`, `ReadsShort`, `EndsAtLoss`), what remains of the input
after a line (`Remainder`), what a line becomes (`Message`: Go and Python trim
it, Rust takes a carriage return off, and C++ sends no empty one, `MessagesOf`),
what becomes of the read under way when a line comes (`Abandon`), who writes and
who waits for it (below), and what an error or the end of the input means
(`WriteFails`, `ConsoleFails`). An echo client sends one `Request`, and its server
answers no more than that (`FramesToSend`). A frame has two header and two payload
bytes, which is what it takes to cut a frame in each of its parts.

| Code | Action |
|---|---|
| a read of the console returns some of what was typed | `ReadConsole` |
| a complete line is taken out of the buffer; or the rest, at the end of the input (Go, Rust, Python) | `TakeLine` |
| `readUntilDelimiterAlloc` fails with 1024 characters (Zig); `readline` fails beyond its limit (Python) | `LineTooLong` |
| Go's `select` receives the line and begins to write | `ReceiveLine` |
| header and data are written; writing fails | `Written`, `WriteFails` |
| the input is at its end | `ConsoleFails`, then `FloodStalls` and `FloodFails` for the empty lines of Go and Python |

A write is a state of its own (`console = "writing"`), which lasts for as long as
the server does not read (`serverReads`). Go writes in a case of its `select`, and
Rust awaits in a branch of its `select!`: they read no frame and take no signal
until it ends (`Busy`). The session of C++ has a queue, Zig a second thread, and
Python a second task. `MaxLine` stands for both limits, 1023 characters before the
end of the line in Zig and 65536 in Python, where it depends on the console
whether `aioconsole` reads from a stream that has it: there the model may take
such a line and may fail. The C++ clients' use
of their session is reduced to what AsioSession shows it to do. (The C++ chat
client reads the console through descriptor 2; on a terminal that is the same
device.)

**Endpoint** follows `main` of a server from the registration of its signals to
the last `unlink`; `pc` says how far each process is, `path` whose socket the
file is.

| Code | Action |
|---|---|
| the process begins, `signals.async_wait` | `Start` |
| `unlink` before the server is constructed | `Unlink` |
| constructor of the acceptor | `Bind` (or the exception, `"failed"`), `Listen` |
| a signal: noted by the loop, the default action once `signals` is destroyed | `Signal` |
| end of the loop, end of the `try` block | `Leave` |
| the last `unlink` | `End` |
| the process is killed, or terminates by a fault | `Crash` |

`overlapped` remembers whether another process ran `main` on the same path
since this one began. A process can start again and again, so that no bound is
needed, and deadlock is checked.

## 3. Runs

| Run | Question | Bounds |
|---|---|---|
| `framing` | do writers and readers of six codecs agree? | 17 lengths on both sides of every byte border and of both limits; 2 texts that are not ASCII; 24 stray headers |
| `framing_readme` | finding | the same |
| `asio_session` | does a session keep its promises under all orders of calls, completions and failures? | one session, 2 messages, queue up to 3 when user code sends, all handlers, all results |
| `asio_session_error_code`, `asio_session_lifetime` | findings | one message |
| `session_link` | do two sessions implement FIFO channels? | 2 messages of 1 and 2 bytes, 2 sends, capacity of one frame (6 bytes) |
| `example_servers` | are the table, the broadcasts and the shutdown right? | 2 clients, ids 1..2 besides 0, 2 messages that arrive or that the timer sends, all three servers |
| `example_servers_liveness` | does a stalled peer delay others; are echo sessions destroyed? | 1 message, chat and echo |
| `example_servers_remove` | finding | as `example_servers` |
| `clients` | is everything shown and sent, and does the client end? | 2 frames and 2 lines, 3 together; an empty line, one of one letter, one of a letter and a carriage return, which is too long (`MaxLine` is 1); the end of the input may cut one off; three programs in five languages |
| `clients_rust` | finding | the same, the chat client in Rust only |
| `endpoint` | who is reachable at an endpoint, which starts fail, what is left behind? | 3 processes, started any number of times |

Why these bounds are enough to be interesting:

* *One session* in `asio_session`: sessions share nothing but the thread and
  the call stack. The proofs cover any number of sessions; TLC's part is to
  find errors in the formulas, and the liveness. A queue of three tells "empty",
  "one, being written" and "more behind it" apart, from inside every handler.
* `session_link`: the kernel holds one frame but not two, so that a writer may
  have to wait anywhere inside of its second frame; two messages of different
  lengths make a wrong length visible.
* `example_servers`: two clients are a sender and another one. `create_id`
  has to pass over 0 for the first of them and over an id in use for the
  second; ids are never freed, so that with fewer clients than ids it never
  wraps around.
* `clients`: a second frame is needed to be out of step, a second line to
  be typed ahead. The carriage return is blank, so that trimming and Rust's
  `next_line` can be told from each other and from the identity, and a line over
  the limit is both the first and the second one.
* `endpoint`: two processes are in each other's way; a third one comes between
  them, or has left its file before.
* Deadlock is not checked where a system may really stop: everything closed, or
  the bounds used up.

Named bounds: `QueueBound` (AsioSession), `SendBound` (SessionLink), `LogBound`
(ExampleServers), `FrameBound`, `LineBound` and `WorkBound` (Clients). They stop
users, servers, timers and peers from sending more; they never stop a handler of
the library. `LogBound` holds back the arrival of a payload as long as those
that have arrived and are not handled yet would exceed it (`Room`).

### Fairness

| Module | Assumed | Because |
|---|---|---|
| AsioSession | completion handlers run, callbacks return, destructors run | `io_context::run` serves its queue in turn. Nothing is assumed of users or the kernel, so a peer may be silent for ever |
| SessionLink | in addition: the kernel moves bytes and reports a lost peer | a local socket between two processes that both run |
| ExampleServers | handlers as above, `main` goes on after the signal, and peers outside `Stalled` read | what is assumed of a peer is only what the property is about; `Stalled` peers may stop |
| Clients | each loop, task, goroutine and thread gets its turn, and a `select` does not starve a branch; a write ends if the server reads, and a write or the request of an echo client fails if it is gone | Go and tokio choose among ready branches at random. A write is not assumed to end while the server does not read (`serverReads`), and nobody is assumed to read, to type or to close. Not assumed either for the Python task that reads frames while the other one floods: that loop need not suspend (`Starved`) |
| Endpoint | `main` of each process goes on | nothing in it waits for another process; nobody has to start, signal or crash one |

### What the runs show

Each passing run lists its properties in `PROJECT.json`, and each property has
the comment that says what it is about. The main results:

* **A session** never has two reads or two writes, never strands a message,
  always reads while it is open and has a message handler, calls its close
  handler exactly once with the first cause, delivers nothing after the close,
  and lives as long as its operations; it notices a loss that a read reports,
  and it is destroyed when user code has let it go.
* **Two sessions** implement `MessageChannel`: FIFO, nothing twice, nothing
  changed, a suffix lost at most; messages arrive while both are open, and the
  close of one closes the other.
* **The servers** never look for an id that is not in the table, change no
  table under the loop of `close()`, run no handler after their destruction,
  and are not delayed by a peer that stops reading.
* **The clients** show what was sent, and send the message of each line typed,
  as their language converts it, once and in order. The named exceptions are
  the dropped read in Rust, the cut frame at the end of the stream in Zig, lines
  typed ahead in C++ and Go, a line that is too long for Zig or Python with what
  follows it, the flooding Python client, and Go and Rust while they write to a
  server that does not read: those show nothing until it does. They end
  when the server is gone, except for those that wait in a goroutine, a
  `select!` or a second thread, and for the C++ echo client, which has no close
  handler. A Zig client ends after the signal with the next message, no sooner.
* **A server that is alone** on its endpoint is reachable there, also after a
  crash at any point; starts fail only through another server at the same time;
  whoever comes to the end of `main` leaves no file of his own. Servers that
  overlap are promised nothing, and the model shows why: the second start, a
  start that fails and the last `unlink` of an old server all remove the file of
  the other one, which then listens unseen.

### Findings

1. `example/chat/go/main.go:30` (and the other Go clients) compute the length
   in eight bits. Run `framing_readme`, whose counterexample is a frame of 256
   bytes. The property it checks is `FramesAgree` without its two exceptions;
   the other exception is `example/echo/echo_client.py:31`, which counts
   characters, not bytes.
2. `src/asio_session.cpp:46`: a close handler that is set after an error closed
   the session is told "success". Run `asio_session_error_code`.
3. `src/asio_session.cpp:82`: a close handler that drops the last pointer to
   its session destroys it under the running `close_intern`. Run
   `asio_session_lifetime`.
4. `example/chat/chat_server.cpp:108` and `notification_server.cpp:107`:
   `remove` tests `it == end()`, so that closed sessions stay in the table. Run
   `example_servers_remove`. The properties about the table hold *because*
   nothing is ever erased: with the test the other way round alone, `close()`
   would erase under its own iterator (the mutant of `TableStableUnderLoop`).
5. `example/chat/rust/src/main.rs:70`: a line that is typed while a frame
   arrives drops the bytes already read. Run `clients_rust`.

## 4. Proofs

All proofs are checked by TLAPS down to the last leaf, for all values of the
constants that satisfy the named assumptions of the modules.

Between them they state every invariant and every action property of the
passing runs, with the inductive invariants that these need.

**ComMessageProofs** assumes nothing. `HeaderRoundTrip`: for every size from 1
to 16777215 `parse_header` accepts the header of that size and returns it.
`AcceptedHeaderIsCanonical`: an accepted header is the one the constructor would
write. Both are arithmetic with base-256 digits (`BytesOfLength`).

**FramingProofs** (assumes `ContentAssumption`, `StrayHeaderAssumption`). From
those two and the inductive invariant `FramingInv` follow `FramingTypeOK`,
`FramesAgreeAlways` and `AcceptedIsCanonicalAlways`.

**AsioSessionProofs** (assumes `SessionAssumption`). The invariant `SessionInv`
is type correctness and the six safety invariants, strengthened by four facts
without which it is not inductive:

* `StackShape`: completion handlers, and the message handlers they call, are at
  the bottom of the stack, and a session's close handler is on it at most once.
  Without it, a return from a callback could resume a read on a session whose
  other frame does the same.
* `ReadChain`: reading starts with the message handler and pauses while it
  runs. Without it `set_onmessage` could start a second read.
* `ClosedOperations`: nothing is pending on a closed socket, and a read that
  succeeded before the close finds no user handler. Without it a closed session
  could deliver, and an abort could be taken for a cause.
* `CloseHistory`: an open session has reported nothing, and the no-op handler
  is only found on closed ones. Without it a second report could not be
  excluded.

There is one lemma per action, and one for `close_intern`, which six actions
share (`ClosingPreserves`); lemmas on pushing and popping frames say how
`Running` and `OwnedByRunningHandler` change. `StepSessionInv` combines them.
The three action properties (`QueueFrontStable`, `NoDeliveryAfterClose`,
`RunningHandlerStable`) follow from one step lemma each under the invariant.
TLC checks the seven conjuncts that are properties; the four facts that
strengthen them are proved, and in no run.

**Induction** assumes nothing. The induction theorems of the proof library take
an operator as a parameter, which the provers cannot instantiate. Here a
statement is the *set* of numbers for which it holds: a set of numbers that is
not empty has a smallest element (from the library's theorem on well-founded
relations), so one with zero and all successors is all of `Nat`. That is enough
to show that the recursive function inside of `FlattenSeq` exists
(`FlatExists`, `FlatStep`), and what the models need of it: its type, and that it
takes an element at the end, another sequence at the end, or the first element
away (`FlattenAppend`, `FlattenConcat`, `FlattenFirst`).

**SessionLinkProofs** (assumes `LinkAssumption`: two sessions, every message a
sequence of bytes of a size that `com_message` accepts, `Capacity` at least 1;
any number of messages and sends). The invariant `LinkInv` is `SessionInv`, the
types of the bytes, and for each session

* `Ready`: its user has set both handlers and keeps it, and a closed one writes
  nothing any more. Without it a session could be waiting for nobody, and its
  bytes would not be accounted for.
* `ReaderFits`: a read has all the bytes it asked for exactly when it has
  succeeded, and a read of a payload asks for what the parsed header said.
* `WriterFits`: a write that has not succeeded has something left to write, and
  the next one begins at the start of its buffer.
* `Flow`: what an open session has delivered is a prefix of what the other one
  was told to send, and the *frames of the rest* are the bytes it has read, the
  bytes on the wire and the bytes not yet written, in that order; of a peer that
  has closed, the end may be missing.

`Flow` is the reason for all the others: a completed header read is the header
of the first message of the rest, by the first four bytes of its frame, and
`HeaderRoundTrip` gives its length; so the payload read is that message, and the
delivery extends the prefix by it. `StreamIntactAlways` follows from `Flow`, and so
does `NeverBadMessageAlways`, as the header is always one that was written.
`ImplementsChannelSafety` is the refinement: under the map of `ImplementsChannel`,
initial states are initial states of `MessageChannel` and every step is one of
its actions or a stutter (`ChannelStep`).

**ExampleServersProofs** (assumes `SessionAssumption` and `ServerAssumption`:
finitely many sessions, fewer than ids). `ServerInv` is
`ServerTypeOK` and

* `SessionsFine`: `SessionInv` for as long as the `io_context` exists. Its
  destructor drops operations of echo sessions that are still open, which no
  user of a session can do: from there on only the types are claimed.
* `AcceptedOnce`: both handlers are set together; until then a connection is
  untouched, and afterwards the table of a broadcast server owns it. Without it
  a second `accept` could put a session into the table again.
* `TableFits`: the table and the captured ids are inverses. `create_id` finds a
  free id because of it: the table is then an injection from ids to sessions
  other than the new one, and those are too few (`IdFree`, by cardinalities); its
  count, which wraps around, comes by every id (`CreateIdIsFree`).
* `AnswerPending`: between the call of a message handler and its answer no
  session is destroyed and no other handler runs; callbacks are those of
  accepted sessions.
* `LogFits`: the queue of an open session is what it is owed (`QueueOwed`), and
  no queue is longer than the log.
* `LoopFits`: the sessions that are still open are ahead of the loop in
  `close()`. Therefore none is open when the server is destroyed, and none has
  a callback (`NoCallbackAfterServerAlways`).

Steps of sessions that the server lets run reuse the lemmas on AsioSession. A
broadcast is a row of `send`s in one step: the lemma `SendAllInv` shows what it does
to all queues at once. `TableStableUnderLoopAlways` holds since no step in the
phase `"closing"` but the destruction assigns the table: `remove` erases
nothing (finding 4).

**ClientsProofs** (assumes `ClientAssumption`: lines of characters other than
the end of the line, which is a character, empty lines included; any blanks, any
limit, any number of frames and lines).
`TypeInv` strengthens `ClientTypeOK` by what the echo clients send.
`ShownInOrder` rests on `ReadInv`, which says where a client in step with the
stream stands in it (`InStep`): the bytes read are four for each message shown,
those of the header, and those of the read under way. `LinesSent` rests on
`LinesInv`: the lines typed are `a` and then `b` (`Split`), where the messages of
`a` are those written or on their way, and the characters in the buffers are the
text of `b`, or the first line of `b` has been given up; or all is taken, and what
the end of the input cut off as well (`RestTaken`). What is pending begins with
the first line of `b` if it has the end of a line at all (`FirstPending`, from
`CutLine` and `SameFirstLine`), so that taking a line moves one line from `b` to `a`.
The split is stated on sequences instead of a number, which is what
`LinesSentAsTyped` says (`SplitIsTheProperty`), since appending to `b` and taking
its head are then steps of sequences. Both theorems have the exceptions that the
properties name.

**EndpointProofs** (assumes `ServerAssumption`). `EndpointInv` adds two facts to
`EndpointTypeOK`, `FailsOnlyByRace` and `NoFileLeft`: two processes that run
have seen each other (`OverlapSeen`), and a process that is alone knows what the
file is from its `unlink` on (`FileAlone`). `ReachableAlone` follows from the
second one, which is not inductive without the first: it takes the steps of
other processes to be those of processes that overlap.

**Only model-checked**: liveness, which is out of the prover's reach (it cannot
reason about ENABLED): `Reclaimed`, `LossNoticed`, `StalledPeersDelayNobody`,
`EchoSessionReclaimed`, `FramesShown`, `LossEndsClient`, `SignalStopsReader`,
`StartServes`, `SignalEnds`; and of `ImplementsChannel` the fairness that
`MessageChannel` states: that messages arrive while both ends are open, and that
the close of one end closes the other. The findings are counterexamples of TLC.

## 5. Not modelled

* Calls that throw before they change anything: a `send` of a content that
  `com_message` refuses (the refusal itself is in `ComMessage`), a `connect`
  that fails. (Who is found by a `connect` is in Endpoint.)
* Use from several threads, which README.md of the repository excludes.
* Failed accepts in the servers: they change no state and are repeated.
* Command lines, output, the payload format of protobuf (only its verdict on a
  message), version numbers, build files.
* Memory: queues grow without limit in the code, too.
* A client that is not connected yet, or whose connection is refused.
* The moment inside of `close_intern` at which `onclose = ...` destroys the last
  owner of the session, if only the handler's captures own it: the model destroys
  the session right after that step. It takes what finding 3 takes, a user who
  lets go of a session that is being closed.

## 6. Plan

Order of work, most important first:

1. *(done)* `ComMessage`, `Framing`, `AsioSession`: the library itself, with
   the proofs of its type and safety invariants.
2. *(done)* `SessionLink`, `MessageChannel`: what two sessions promise together.
3. *(done)* `ExampleServers`, `Clients`: the programs around it.
4. *(done)* `Endpoint` with its proofs: starts, ends and crashes on one path.
5. *(done)* Proofs about `ExampleServers`, for any number of clients and ids.
6. *(done)* Proofs about `SessionLink`, and the safety half of the refinement to
   `MessageChannel`.
7. *(done)* Proofs about `Clients`.
8. A session whose close handler is set late and owns it, which is never
   reclaimed: a property of its own beside `Reclaimed`.
9. Properties of single steps that carry the liveness arguments, stated and
   proved without ENABLED: for `Reclaimed`, that an unowned closed session has
   fewer and fewer obligations.
