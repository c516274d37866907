--------------------------- MODULE ExampleServers ---------------------------
(***************************************************************************)
(* chat_server, notification_server and echo_server: what the three        *)
(* example servers do with the sessions of AsioSession.                    *)
(*                                                                         *)
(* The server is the user of the sessions.  It accepts connections, keeps  *)
(* them in a table under an id (chat and notification) or lets each        *)
(* session own itself through its message handler (echo), answers from     *)
(* inside onmessage or from a timer, and at a signal stops the io_context, *)
(* closes all sessions and destroys first itself, then the io_context with *)
(* the operations that are still outstanding.                              *)
(*                                                                         *)
(* A session that is not accepted yet is a connection in the backlog of    *)
(* the listening socket.  A message is named after its sender, the timer   *)
(* included; nothing distinguishes two messages of one client.             *)
(***************************************************************************)
EXTENDS AsioSession, FiniteSets

CONSTANTS
  Kind,        (* the servers, of {"chat", "notification", "echo"}          *)
  IdCount,     (* number of values of an id, 2^32 in the code               *)
  LogBound,    (* bound: messages that arrive, the timer's included         *)
  Stalled,     (* sessions whose peer may stop reading                      *)
  Timer

ASSUME ServerAssumption ==
  /\ IsFiniteSet(Session) /\ Cardinality(Session) < IdCount
  /\ Kind \subseteq {"chat", "notification", "echo"}
  /\ Timer \notin Session /\ Message = Session \cup {Timer}
  /\ Stalled \subseteq Session
  /\ IdCount \in Nat /\ LogBound \in Nat

VARIABLES
  kind,       (* which server this is                                       *)
  sessions,   (* the table: a function from ids to sessions                 *)
  id,         (* the id that was given last                                 *)
  captured,   (* the id that the session's handlers captured                *)
  phase,      (* how far main has come                                      *)
  unclosed,   (* ids that the loop of close() has not reached yet           *)
  argument,   (* what the running onmessage has been called with            *)
  log,        (* history: the messages in the order of the server's sends   *)
  joined,     (* history: the length of log when the session was accepted   *)
  popped      (* history: how many messages have been written               *)

serverVars == <<kind, sessions, id, captured, phase, unclosed, argument, log,
                joined, popped>>

ServerTypeOK ==
  /\ TypeOK
  /\ kind \in Kind
  /\ DOMAIN sessions \subseteq 1 .. IdCount - 1
  /\ \A i \in DOMAIN sessions : sessions[i] \in Session
  /\ id \in 0 .. IdCount - 1
  /\ captured \in [Session -> 0 .. IdCount - 1]
  /\ phase \in {"running", "closing", "destroyed", "gone"}
  /\ unclosed \subseteq DOMAIN sessions
  /\ argument \in {"none", "message", "malformed"}
  /\ log \in Seq(Message)
  /\ joined \in [Session -> Nat]
  /\ popped \in [Session -> Nat]

ServerInit ==
  /\ Init
  /\ socket_ = [s \in Session |-> TRUE]
  /\ kind \in Kind
  /\ sessions = <<>>
  /\ id = 0
  /\ captured = [s \in Session |-> 0]
  /\ phase = "running"
  /\ unclosed = {}
  /\ argument = "none"
  /\ log = <<>>
  /\ joined = [s \in Session |-> 0]
  /\ popped = [s \in Session |-> 0]
-----------------------------------------------------------------------------
(* The table of sessions. *)

Broadcasts == kind \in {"chat", "notification"}

Accepted(s) == onclose[s] # "unset"

Registered == {sessions[i] : i \in DOMAIN sessions}

(* Mutant: every id is the successor of the last one. *)
CreateIdUnchecked == id

(* From the last id on, wrapping around, the first that is neither 0 nor   *)
(* in use.  (With all ids in use the loop of the code does not end.)       *)
CreateId ==
  LET candidate(k) == (id + k) % IdCount
      Free(i) == i # 0 /\ i \notin DOMAIN sessions
  IN  candidate(CHOOSE k \in 0 .. IdCount - 1 :
                  /\ Free(candidate(k))
                  /\ \A j \in 0 .. k - 1 : ~Free(candidate(j)))

(* emplace leaves an entry that exists as it is. *)
Emplaced(i, s) ==
  [j \in DOMAIN sessions \cup {i} |-> IF j \in DOMAIN sessions THEN sessions[j] ELSE s]

(* Mutant: remove with its condition the other way round. *)
RemoveErases(i) ==
  sessions' = [j \in DOMAIN sessions \ {i} |-> sessions[j]]

(* What remove does with an id in the table: nothing.  With another id it  *)
(* would dereference end(); CallbacksFindTheirSession shows that there is  *)
(* never another one.                                                      *)
Remove(i) == i \in DOMAIN sessions /\ UNCHANGED sessions
-----------------------------------------------------------------------------
(* The acceptor's handler.  (With an error it only calls do_accept again.) *)
Accept(s) ==
  /\ phase = "running" /\ stack = <<>>
  /\ ~Accepted(s)
  /\ onclose' = [onclose EXCEPT ![s] = "user"]
  /\ onmessage' = [onmessage EXCEPT ![s] =
                     CASE kind = "chat" -> "user"
                       [] kind = "notification" -> "noop"
                       [] kind = "echo" -> "owner"]
  /\ reading' = [reading EXCEPT ![s] = Begin(@, "header", socket_[s])]
  /\ held' = [held EXCEPT ![s] = Broadcasts]
  /\ IF Broadcasts
       THEN /\ id' = CreateId
            /\ sessions' = Emplaced(id', s)
            /\ captured' = [captured EXCEPT ![s] = id']
       ELSE UNCHANGED <<id, sessions, captured>>
  /\ joined' = [joined EXCEPT ![s] = Len(log)]
  /\ UNCHANGED <<socket_, write_queue, writing, alive, stack, cause, reports,
                 kind, phase, unclosed, argument, log, popped>>

(* Mutant: the sender does not get its own message back. *)
SendAllButSender(m) ==
  LET to == Registered \ {m}
      count(s) == Len(write_queue[s]) + 1
  IN  /\ write_queue' = [s \in Session |->
                           IF s \in to THEN Append(write_queue[s], m) ELSE write_queue[s]]
      /\ writing' = [s \in Session |->
                       IF s \in to /\ StartsWriter(count(s))
                         THEN Begin(writing[s], "header", socket_[s])
                         ELSE writing[s]]
      /\ log' = Append(log, m)

(* session->send for all sessions of the table, or for the sender's (echo), *)
(* closed ones included.  No send calls back.                               *)
SendAll(m) ==
  LET to == IF Broadcasts THEN Registered ELSE {m}
      count(s) == Len(write_queue[s]) + 1
  IN  /\ write_queue' = [s \in Session |->
                           IF s \in to THEN Append(write_queue[s], m) ELSE write_queue[s]]
      /\ writing' = [s \in Session |->
                       IF s \in to /\ StartsWriter(count(s))
                         THEN Begin(writing[s], "header", socket_[s])
                         ELSE writing[s]]
      /\ log' = Append(log, m)

Delivers(s) == Succeeded(reading[s]) /\ onmessage[s] \in UserHandler

(* What has arrived and is not handled yet: complete reads whose handler   *)
(* has not run, and the message that the running handler has.              *)
Unhandled ==
  Cardinality({s \in Session : reading[s].step = "payload" /\ Delivers(s)})
    + (IF argument = "none" THEN 0 ELSE 1)

(* The bound holds back what comes from outside, and no handler. *)
Room == Len(log) + Unhandled < LogBound

(* The handler of the timer that notify() starts. *)
Notify ==
  /\ phase = "running" /\ stack = <<>>
  /\ kind = "notification" /\ Room
  /\ SendAll(Timer)
  /\ UNCHANGED <<socket_, onmessage, onclose, reading, held, alive, stack, cause,
                 reports, kind, sessions, id, captured, phase, unclosed, argument,
                 joined, popped>>

(* A payload has arrived.  Only chat looks into it, with ParseFromString.  *)
Receive(s) ==
  /\ phase = "running"
  /\ HandleReadPayload(s)
  /\ IF Delivers(s)
       THEN argument' \in {"message"} \cup (IF kind = "chat" THEN {"malformed"} ELSE {})
       ELSE UNCHANGED argument
  /\ UNCHANGED <<kind, sessions, id, captured, phase, unclosed, log, joined, popped>>

(* The body of the message handler. *)
OnMessage ==
  /\ argument # "none"
  /\ argument' = "none"
  /\ LET s == Head(stack).s
     IN  \/ /\ argument = "malformed"
            /\ Remove(captured[s])
            /\ UNCHANGED <<write_queue, writing, log>>
         \/ /\ argument = "message"
            /\ SendAll(s)
            /\ UNCHANGED sessions
  /\ UNCHANGED <<socket_, onmessage, onclose, reading, held, alive, stack, cause,
                 reports, kind, id, captured, phase, unclosed, joined, popped>>

ReturnOnMessage ==
  /\ argument = "none"
  /\ ReturnFromOnMessage
  /\ UNCHANGED serverVars

(* The body of the close handler and the return from it. *)
OnClose ==
  /\ ReturnFromOnClose
  /\ IF Broadcasts THEN Remove(captured[Head(stack).s]) ELSE UNCHANGED sessions
  /\ UNCHANGED <<kind, id, captured, phase, unclosed, argument, log, joined, popped>>

ReadHeader(s) ==
  /\ phase = "running"
  /\ \E h \in PeerHeader : HandleReadHeader(s, h)
  /\ UNCHANGED serverVars

Write(s) ==
  /\ phase = "running"
  /\ WriteHandler(s)
  /\ popped' = [popped EXCEPT ![s] =
                  IF writing[s].step = "payload" /\ Succeeded(writing[s]) THEN @ + 1 ELSE @]
  /\ UNCHANGED <<kind, sessions, id, captured, phase, unclosed, argument, log, joined>>

(* The reactor belongs to the io_context and stops with it.  What becomes   *)
(* complete during a handler cannot be told from what does right after it.  *)
ReadCompletes(s) ==
  /\ phase = "running" /\ stack = <<>>
  /\ \/ /\ reading[s].step = "payload" /\ onmessage[s] \in UserHandler => Room
        /\ ReadDone(s, "ok")
     \/ ReadDone(s, "io_error")
  /\ UNCHANGED serverVars

WriteCompletes(s) ==
  /\ phase = "running" /\ stack = <<>>
  /\ \E res \in {"ok", "io_error"} : WriteDone(s, res)
  /\ UNCHANGED serverVars
-----------------------------------------------------------------------------
(* Shutdown. *)

(* Mutant: main returns without server.close(). *)
ToCloseNone == {}

(* echo_server has no table and no close(). *)
ToClose == DOMAIN sessions

(* The signal's handler stops the io_context: run() returns, no handler is *)
(* run any more, and main enters the loop of close().                      *)
Signal ==
  /\ phase = "running" /\ stack = <<>>
  /\ phase' = "closing"
  /\ unclosed' = ToClose
  /\ UNCHANGED <<vars, kind, sessions, id, captured, argument, log, joined, popped>>

(* One round of the loop, up to the call of onclose. *)
CloseNext(i) ==
  /\ phase = "closing" /\ stack = <<>>
  /\ i \in unclosed
  /\ LET s == sessions[i]
     IN  CloseIntern(s, "success", "user", reading[s], writing[s])
  /\ unclosed' = unclosed \ {i}
  /\ UNCHANGED <<write_queue, held, alive, kind, sessions, id, captured, phase,
                 argument, log, joined, popped>>

(* main leaves the scope of the server: timer and table are gone. *)
DestroyServer ==
  /\ phase = "closing" /\ stack = <<>> /\ unclosed = {}
  /\ phase' = "destroyed"
  /\ sessions' = <<>>
  /\ held' = [s \in Session |-> ~Accepted(s)]
  /\ UNCHANGED <<socket_, onmessage, onclose, write_queue, reading, writing, alive,
                 stack, cause, reports, kind, id, captured, unclosed, argument, log,
                 joined, popped>>

(* ~io_context: handlers that have not run are destroyed. *)
DestroyContext ==
  /\ phase = "destroyed" /\ stack = <<>>
  /\ phase' = "gone"
  /\ reading' = [s \in Session |-> Idle]
  /\ writing' = [s \in Session |-> Idle]
  /\ UNCHANGED <<socket_, onmessage, onclose, write_queue, held, alive, stack, cause,
                 reports, kind, sessions, id, captured, unclosed, argument, log,
                 joined, popped>>

DestroySession(s) == Destroy(s) /\ UNCHANGED serverVars
-----------------------------------------------------------------------------
ServerIo(s) == ReadHeader(s) \/ Receive(s) \/ Write(s)

ServerCallback == OnMessage \/ ReturnOnMessage \/ OnClose

Stop == (\E i \in unclosed : CloseNext(i)) \/ DestroyServer \/ DestroyContext

ServerNext ==
  \/ \E s \in Session : DestroySession(s)
  \/ NoGarbage /\ \E s \in Session :
       Accept(s) \/ ServerIo(s) \/ ReadCompletes(s) \/ WriteCompletes(s)
  \/ NoGarbage /\ (Notify \/ ServerCallback \/ Signal \/ Stop)

allVars == <<vars, serverVars>>

(* The io_context runs what is complete, callbacks return, main goes on    *)
(* after the signal; a peer that is not stalled reads what it is sent.     *)
(* Nobody has to connect, to send, or to send the signal.                  *)
ServerFairness ==
  /\ WF_allVars(NoGarbage /\ ServerCallback)
  /\ WF_allVars(NoGarbage /\ Stop)
  /\ \A s \in Session :
       /\ WF_allVars(DestroySession(s))
       /\ WF_allVars(NoGarbage /\ (ReadHeader(s) \/ Receive(s)))
       /\ WF_allVars(NoGarbage /\ Write(s))
  /\ \A s \in Session \ Stalled : WF_allVars(NoGarbage /\ WriteCompletes(s))

ServerSpec == ServerInit /\ [][ServerNext]_allVars /\ ServerFairness
-----------------------------------------------------------------------------
(* What a client is to be sent: everything since it joined, whoever sent   *)
(* it, or as many of its own messages as were handled (echo).              *)
Owed(s) ==
  IF Broadcasts THEN SubSeq(log, joined[s] + 1, Len(log))
  ELSE [i \in 1 .. Cardinality({j \in DOMAIN log : log[j] = s}) |-> s]

(* Every open session has been written, or has in its queue, exactly what  *)
(* it is owed, in the one order of the server: all chat clients see the    *)
(* same conversation, and the loss of a client takes nothing from others.  *)
EveryoneGetsEverything ==
  \A s \in Session :
    Accepted(s) /\ socket_[s] /\ phase = "running" =>
      write_queue[s] = SubSeq(Owed(s), popped[s] + 1, Len(Owed(s)))

(* The ids captured by a session's handlers name that session for as long  *)
(* as the server exists: no accepted session is lost because of a taken    *)
(* id, and remove() never reaches the branch that dereferences end().      *)
CallbacksFindTheirSession ==
  \A s \in Session :
    Broadcasts /\ Accepted(s) /\ phase \in {"running", "closing"} =>
      /\ captured[s] \in DOMAIN sessions
      /\ sessions[captured[s]] = s

(* The loop of close() calls onclose, which calls remove(): the table must *)
(* not change under the loop's iterator.                                   *)
TableStableUnderLoop ==
  [][phase = "closing" /\ phase' = "closing" => sessions' = sessions]_allVars

(* The handlers of the broadcast servers capture "this".  Operations are   *)
(* outstanding until the io_context is destroyed, after the server, and    *)
(* sessions die then: no handler runs in that time.                        *)
NoCallbackAfterServer ==
  Broadcasts /\ phase \in {"destroyed", "gone"} => stack = <<>>

(* A peer that stops reading, or whose connection is closed but still in   *)
(* the table, delays nobody else: every other client gets what it is owed. *)
StalledPeersDelayNobody ==
  \A s \in Session \ Stalled :
    Accepted(s) /\ popped[s] < Len(Owed(s))
      ~> popped[s] = Len(Owed(s)) \/ ~socket_[s] \/ phase # "running"

(* An echo session owns itself through its message handler, and nobody     *)
(* else knows it: the loss of the connection destroys it.                  *)
EchoSessionReclaimed ==
  \A s \in Session : kind = "echo" /\ ~socket_[s] ~> ~alive[s]
-----------------------------------------------------------------------------
(* The close handlers of both broadcast servers call remove(id), "clean up *)
(* data assiciated with the session" in the words of session_i.hpp, after  *)
(* which get() is to say "session gone".                                   *)
ClosedSessionsRemoved ==
  \A s \in Session :
    ~socket_[s] /\ ~Running(s, "onclose") => s \notin Registered
=============================================================================
