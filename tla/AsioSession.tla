---------------------------- MODULE AsioSession ----------------------------
(***************************************************************************)
(* oizys::asio_session: the sessions of one process and the single thread  *)
(* that runs them.                                                         *)
(*                                                                         *)
(* Two kinds of code run on that thread: the completion handlers that the  *)
(* io_context calls, and the user's code, which calls the session methods. *)
(* User code runs at the top level (main, timers, other handlers of the    *)
(* io_context) and inside the two callbacks, and may call any method of    *)
(* any session there.  A call of a callback is therefore a frame on a call *)
(* stack: the steps after it, up to the step that returns from it, are the *)
(* calls that the callback makes, and returning (or throwing: both are     *)
(* caught) performs the rest of the function that called it.  Completion   *)
(* handlers only start on an empty stack.                                  *)
(*                                                                         *)
(* Sessions are reference counted.  Completion handlers own the session    *)
(* through "self"; a session that nobody owns is destroyed at once.        *)
(***************************************************************************)
EXTENDS Naturals, Sequences, ComMessage

CONSTANTS
  Session,          (* the sessions of the process                          *)
  Message,          (* contents that com_message can hold                   *)
  PeerHeader,       (* headers that a peer may send                         *)
  QueueBound,       (* bound: user code sends no more into a longer queue   *)
  ReleaseInHandler  (* may a session's callback drop the user's pointer     *)

ASSUME SessionAssumption ==
  /\ PeerHeader \subseteq Header
  /\ QueueBound \in Nat
  /\ ReleaseInHandler \in BOOLEAN

VARIABLES
  socket_,      (* socket_.is_open()                                        *)
  onmessage,    (* the message handler                                      *)
  onclose,      (* the close handler                                        *)
  write_queue,
  reading,      (* the outstanding async_read                               *)
  writing,      (* the outstanding async_write                              *)
  held,         (* user code owns the session outside of its handlers       *)
  alive,        (* the destructor has not begun                             *)
  stack,        (* callbacks that run, the innermost first                  *)
  cause,        (* history: the error that closed the session               *)
  reports       (* history: the errors passed to the user's close handler   *)

vars == <<socket_, onmessage, onclose, write_queue, reading, writing, held,
          alive, stack, cause, reports>>

(* A std::function: empty; the user's; the user's, with a shared_ptr to    *)
(* its own session captured; or the [](auto){} that replaces it.           *)
Handler == {"unset", "user", "owner", "noop"}
UserHandler == {"user", "owner"}

(* boost::system::error_code: none; EBADMSG; an error or end of file from  *)
(* the socket; operation_aborted or bad_descriptor after a local close.    *)
Error == {"success", "bad_message", "io_error", "aborted"}

(* An asynchronous operation, with its result once it is complete.  While  *)
(* it is complete its handler waits to be run.  "overlap" is the           *)
(* undefined state of two operations on one buffer.                        *)
Op == [step : {"idle", "header", "payload", "overlap"},
       res  : {"pending", "ok", "io_error", "aborted"}]

Idle == [step |-> "idle", res |-> "ok"]

(* A callback that runs: for which session and called by whom, a           *)
(* completion handler (which owns the session), a method or the destructor. *)
Frame == [call : {"onmessage", "onclose", "late"}, s : Session,
          by   : {"handler", "user", "destructor"}]

TypeOK ==
  /\ socket_ \in [Session -> BOOLEAN]
  /\ onmessage \in [Session -> Handler]
  /\ onclose \in [Session -> Handler]
  /\ write_queue \in [Session -> Seq(Message)]
  /\ reading \in [Session -> Op]
  /\ writing \in [Session -> Op]
  /\ held \in [Session -> BOOLEAN]
  /\ alive \in [Session -> BOOLEAN]
  /\ stack \in Seq(Frame)
  /\ cause \in [Session -> Error \cup {"none"}]
  /\ reports \in [Session -> Seq(Error)]

(* create_session takes any socket; the tests also pass unconnected ones. *)
Init ==
  /\ socket_ \in [Session -> BOOLEAN]
  /\ onmessage = [s \in Session |-> "unset"]
  /\ onclose = [s \in Session |-> "unset"]
  /\ write_queue = [s \in Session |-> <<>>]
  /\ reading = [s \in Session |-> Idle]
  /\ writing = [s \in Session |-> Idle]
  /\ held = [s \in Session |-> TRUE]
  /\ alive = [s \in Session |-> TRUE]
  /\ stack = <<>>
  /\ cause = [s \in Session |-> "none"]
  /\ reports = [s \in Session |-> <<>>]
-----------------------------------------------------------------------------
(* Ownership. *)

InCallback(s) == \E i \in 1 .. Len(stack) : stack[i].s = s

Running(s, call) == \E i \in 1 .. Len(stack) : stack[i].s = s /\ stack[i].call = call

OwnedByRunningHandler(s) ==
  \E i \in 1 .. Len(stack) : stack[i].s = s /\ stack[i].by = "handler"

(* Mutant: the completion handlers capture "this" only. *)
ReferencedByUser(s) == held[s] \/ "owner" \in {onmessage[s], onclose[s]}

(* Somebody holds a shared_ptr: user code, the self of an outstanding      *)
(* operation or of the completion handler that runs, a handler's capture.  *)
Referenced(s) ==
  \/ held[s]
  \/ "owner" \in {onmessage[s], onclose[s]}
  \/ reading[s].step # "idle"
  \/ writing[s].step # "idle"
  \/ OwnedByRunningHandler(s)

NoGarbage == \A s \in Session : alive[s] => Referenced(s)

(* User code can reach a session that it holds, and the one that the       *)
(* running handler captured.                                               *)
CanCall(s) ==
  /\ alive[s]
  /\ \/ held[s]
     \/ /\ stack # <<>>
        /\ Head(stack).s = s
        /\ IF Head(stack).call = "onmessage"
             THEN onmessage[s] = "owner"
             ELSE onclose[s] = "owner"
-----------------------------------------------------------------------------
(* Asynchronous operations. *)

(* async_read or async_write; on a closed socket it fails, asynchronously. *)
Begin(op, step, open) ==
  [step |-> IF op.step = "idle" THEN step ELSE "overlap",
   res  |-> IF open THEN "pending" ELSE "aborted"]

(* socket_.close() aborts what is not complete yet. *)
Cancelled(op) ==
  IF op.step # "idle" /\ op.res = "pending" THEN [op EXCEPT !.res = "aborted"] ELSE op

(* Mutant: the test of err is forgotten. *)
FailedAlways(op) == op.res # "pending"

Failed(op) == op.res \in {"io_error", "aborted"}

Succeeded(op) == op.res = "ok"

(* The kernel completes a read or a write.  The peer may have sent the     *)
(* data, closed its end or gone.  The handler runs later.                  *)
ReadDone(s, res) ==
  /\ reading[s].step # "idle" /\ reading[s].res = "pending"
  /\ reading' = [reading EXCEPT ![s].res = res]
  /\ UNCHANGED <<socket_, onmessage, onclose, write_queue, writing, held,
                 alive, stack, cause, reports>>

WriteDone(s, res) ==
  /\ writing[s].step # "idle" /\ writing[s].res = "pending"
  /\ writing' = [writing EXCEPT ![s].res = res]
  /\ UNCHANGED <<socket_, onmessage, onclose, write_queue, reading, held,
                 alive, stack, cause, reports>>
-----------------------------------------------------------------------------
(* Closing. *)

(* Mutant: handlers survive the close. *)
RemovedNever(h) == h

(* if (handler) handler = [](auto){} *)
Removed(h) == IF h = "unset" THEN "unset" ELSE "noop"

(* Mutant: close_intern runs again on a closed session. *)
MustCloseAlways(s) == TRUE

MustClose(s) == socket_[s]

(* close_intern up to the call of onclose, or to its end if there is none. *)
(* rd and wr are the operations of s that the caller leaves outstanding.   *)
CloseIntern(s, err, by, rd, wr) ==
  \/ /\ ~MustClose(s)
     /\ reading' = [reading EXCEPT ![s] = rd]
     /\ writing' = [writing EXCEPT ![s] = wr]
     /\ UNCHANGED <<socket_, onmessage, onclose, stack, cause, reports>>
  \/ /\ MustClose(s)
     /\ socket_' = [socket_ EXCEPT ![s] = FALSE]
     /\ cause' = [cause EXCEPT ![s] = err]
     /\ reading' = [reading EXCEPT ![s] = Cancelled(rd)]
     /\ writing' = [writing EXCEPT ![s] = Cancelled(wr)]
     /\ \/ /\ onclose[s] = "unset"
           /\ onmessage' = [onmessage EXCEPT ![s] = Removed(@)]
           /\ UNCHANGED <<onclose, stack, reports>>
        \/ /\ onclose[s] # "unset"
           /\ stack' = <<[call |-> "onclose", s |-> s, by |-> by]>> \o stack
           /\ reports' = [reports EXCEPT ![s] = Append(@, err)]
           /\ UNCHANGED <<onmessage, onclose>>

(* onclose returned or threw: the rest of close_intern.  A session that    *)
(* died during the call has no members left to assign to.  (One that only  *)
(* the captures of onclose still own dies in the middle of this step in    *)
(* the code, when line 89 assigns to it, and here behind it; that takes a  *)
(* user who has released it before or in that call, as in AliveDuringClose.) *)
ReturnFromOnClose ==
  /\ stack # <<>>
  /\ Head(stack).call = "onclose"
  /\ stack' = Tail(stack)
  /\ LET s == Head(stack).s
     IN  IF alive[s]
           THEN /\ onclose' = [onclose EXCEPT ![s] = "noop"]
                /\ onmessage' = [onmessage EXCEPT ![s] = Removed(@)]
           ELSE UNCHANGED <<onmessage, onclose>>
  /\ UNCHANGED <<socket_, write_queue, reading, writing, held, alive, cause, reports>>

(* onclose, called by set_onclose on a closed session, returned or threw. *)
ReturnFromLateOnClose ==
  /\ stack # <<>>
  /\ Head(stack).call = "late"
  /\ stack' = Tail(stack)
  /\ UNCHANGED <<socket_, onmessage, onclose, write_queue, reading, writing,
                 held, alive, cause, reports>>

(* ~asio_session, right after the last shared_ptr is gone. *)
Destroy(s) ==
  /\ alive[s] /\ ~Referenced(s)
  /\ alive' = [alive EXCEPT ![s] = FALSE]
  /\ CloseIntern(s, "success", "destructor", reading[s], writing[s])
  /\ UNCHANGED <<write_queue, held>>
-----------------------------------------------------------------------------
(* The read chain. *)

(* The handler of read_header's async_read; h are the four bytes. *)
HandleReadHeader(s, h) ==
  /\ stack = <<>>
  /\ reading[s].step = "header"
  /\ \/ /\ Succeeded(reading[s])
        /\ AcceptsHeader(h)
        /\ reading' = [reading EXCEPT ![s] = Begin(Idle, "payload", socket_[s])]
        /\ UNCHANGED <<socket_, onmessage, onclose, writing, stack, cause, reports>>
     \/ /\ Succeeded(reading[s])
        /\ ~AcceptsHeader(h)
        /\ CloseIntern(s, "bad_message", "handler", Idle, writing[s])
     \/ /\ Failed(reading[s])
        /\ CloseIntern(s, reading[s].res, "handler", Idle, writing[s])
  /\ UNCHANGED <<write_queue, held, alive>>

(* Mutant: the handler of a payload's read returns without closing.        *)
HandleReadPayloadIgnoresErr(s) ==
  /\ stack = <<>>
  /\ reading[s].step = "payload"
  /\ Failed(reading[s])
  /\ reading' = [reading EXCEPT ![s] = Begin(Idle, "header", socket_[s])]
  /\ UNCHANGED <<socket_, onmessage, onclose, write_queue, writing, held, alive,
                 stack, cause, reports>>

(* The handler of read_payload's async_read, up to the call of onmessage.  *)
HandleReadPayload(s) ==
  /\ stack = <<>>
  /\ reading[s].step = "payload"
  /\ \/ /\ Succeeded(reading[s])
        /\ onmessage[s] \in UserHandler
        /\ reading' = [reading EXCEPT ![s] = Idle]
        /\ stack' = <<[call |-> "onmessage", s |-> s, by |-> "handler"]>>
        /\ UNCHANGED <<socket_, onmessage, onclose, writing, cause, reports>>
     \/ /\ Succeeded(reading[s])
        /\ onmessage[s] \notin UserHandler
        /\ reading' = [reading EXCEPT ![s] = Begin(Idle, "header", socket_[s])]
        /\ UNCHANGED <<socket_, onmessage, onclose, writing, stack, cause, reports>>
     \/ /\ Failed(reading[s])
        /\ CloseIntern(s, reading[s].res, "handler", Idle, writing[s])
  /\ UNCHANGED <<write_queue, held, alive>>

(* Mutant: the next read is forgotten. *)
ReturnFromOnMessageWithoutRead ==
  /\ stack # <<>>
  /\ Head(stack).call = "onmessage"
  /\ stack' = Tail(stack)
  /\ UNCHANGED <<socket_, onmessage, onclose, write_queue, reading, writing,
                 held, alive, cause, reports>>

(* onmessage returned or threw: the trailing read_header(). *)
ReturnFromOnMessage ==
  /\ stack # <<>>
  /\ Head(stack).call = "onmessage"
  /\ stack' = Tail(stack)
  /\ LET s == Head(stack).s
     IN  reading' = [reading EXCEPT ![s] = Begin(reading[s], "header", socket_[s])]
  /\ UNCHANGED <<socket_, onmessage, onclose, write_queue, writing, held,
                 alive, cause, reports>>
-----------------------------------------------------------------------------
(* The write chain. *)

(* write_header and write_payload return at once on an empty queue. *)
WriteNext(queue, step, open) ==
  IF queue = <<>> THEN Idle ELSE Begin(Idle, step, open)

(* Mutant: the message is popped when its header is written. *)
HandleWriteHeaderPops(s) ==
  /\ stack = <<>>
  /\ writing[s].step = "header"
  /\ Succeeded(writing[s])
  /\ write_queue' = [write_queue EXCEPT ![s] = Tail(@)]
  /\ writing' = [writing EXCEPT ![s] = Begin(Idle, "payload", socket_[s])]
  /\ UNCHANGED <<socket_, onmessage, onclose, reading, held, alive, stack, cause, reports>>

(* The handler of write_header's async_write. *)
HandleWriteHeader(s) ==
  /\ stack = <<>>
  /\ writing[s].step = "header"
  /\ \/ /\ Succeeded(writing[s])
        /\ writing' = [writing EXCEPT ![s] = WriteNext(write_queue[s], "payload", socket_[s])]
        /\ UNCHANGED <<socket_, onmessage, onclose, reading, stack, cause, reports>>
     \/ /\ Failed(writing[s])
        /\ CloseIntern(s, writing[s].res, "handler", reading[s], Idle)
  /\ UNCHANGED <<write_queue, held, alive>>

(* Mutant: the next message waits for the next send. *)
HandleWritePayloadStops(s) ==
  /\ stack = <<>>
  /\ writing[s].step = "payload"
  /\ Succeeded(writing[s])
  /\ write_queue' = [write_queue EXCEPT ![s] = Tail(@)]
  /\ writing' = [writing EXCEPT ![s] = Idle]
  /\ UNCHANGED <<socket_, onmessage, onclose, reading, held, alive, stack, cause, reports>>

(* The handler of write_payload's async_write: pop, then write_header().   *)
HandleWritePayload(s) ==
  /\ stack = <<>>
  /\ writing[s].step = "payload"
  /\ \/ /\ Succeeded(writing[s])
        /\ write_queue' = [write_queue EXCEPT ![s] = Tail(@)]
        /\ writing' = [writing EXCEPT ![s] =
                         WriteNext(Tail(write_queue[s]), "header", socket_[s])]
        /\ UNCHANGED <<socket_, onmessage, onclose, reading, stack, cause, reports>>
     \/ /\ Failed(writing[s])
        /\ CloseIntern(s, writing[s].res, "handler", reading[s], Idle)
        /\ UNCHANGED write_queue
  /\ UNCHANGED <<held, alive>>
-----------------------------------------------------------------------------
(* The methods, called by user code.  What a method refuses by throwing    *)
(* leaves the session as it is and is left out: an illegal content in      *)
(* send, a second handler in set_onclose and set_onmessage.                *)

(* Mutant: every send starts a write. *)
StartsWriterAlways(count) == count >= 1

(* Mutant: the writer starts one message late. *)
StartsWriterLate(count) == count = 2

StartsWriter(count) == count = 1

Send(s, m) ==
  /\ CanCall(s)
  /\ Len(write_queue[s]) < QueueBound
  /\ write_queue' = [write_queue EXCEPT ![s] = Append(@, m)]
  /\ IF StartsWriter(Len(write_queue[s]) + 1)
       THEN writing' = [writing EXCEPT ![s] = Begin(@, "header", socket_[s])]
       ELSE UNCHANGED writing
  /\ UNCHANGED <<socket_, onmessage, onclose, reading, held, alive, stack, cause, reports>>

(* On a closed session the handler is called before set_onclose returns.  *)
SetOnClose(s, handler) ==
  /\ CanCall(s)
  /\ onclose[s] = "unset"
  /\ onclose' = [onclose EXCEPT ![s] = handler]
  /\ IF socket_[s]
       THEN UNCHANGED <<stack, reports>>
       ELSE /\ stack' = <<[call |-> "late", s |-> s, by |-> "user"]>> \o stack
            /\ reports' = [reports EXCEPT ![s] = Append(@, "success")]
  /\ UNCHANGED <<socket_, onmessage, write_queue, reading, writing, held, alive, cause>>

SetOnMessage(s, handler) ==
  /\ CanCall(s)
  /\ onmessage[s] = "unset"
  /\ onmessage' = [onmessage EXCEPT ![s] = handler]
  /\ reading' = [reading EXCEPT ![s] = Begin(@, "header", socket_[s])]
  /\ UNCHANGED <<socket_, onclose, write_queue, writing, held, alive, stack, cause, reports>>

Close(s) ==
  /\ CanCall(s)
  /\ MustClose(s)
  /\ CloseIntern(s, "success", "user", reading[s], writing[s])
  /\ UNCHANGED <<write_queue, held, alive>>

(* User code drops its shared_ptr to the session. *)
Release(s) ==
  /\ held[s]
  /\ ReleaseInHandler \/ ~InCallback(s)
  /\ held' = [held EXCEPT ![s] = FALSE]
  /\ UNCHANGED <<socket_, onmessage, onclose, write_queue, reading, writing,
                 alive, stack, cause, reports>>
-----------------------------------------------------------------------------
User(s) ==
  \/ \E m \in Message : Send(s, m)
  \/ \E handler \in UserHandler : SetOnClose(s, handler) \/ SetOnMessage(s, handler)
  \/ Close(s)
  \/ Release(s)

Kernel(s) == \E res \in {"ok", "io_error"} : ReadDone(s, res) \/ WriteDone(s, res)

ReadHandler(s) ==
  \/ \E h \in PeerHeader : HandleReadHeader(s, h)
  \/ HandleReadPayload(s)

WriteHandler(s) == HandleWriteHeader(s) \/ HandleWritePayload(s)

IoContext(s) == ReadHandler(s) \/ WriteHandler(s)

Return == ReturnFromOnClose \/ ReturnFromLateOnClose \/ ReturnFromOnMessage

(* A destructor runs before anything else does. *)
Next ==
  \/ \E s \in Session : Destroy(s)
  \/ NoGarbage /\ \E s \in Session : User(s) \/ Kernel(s) \/ IoContext(s)
  \/ NoGarbage /\ Return

(* The io_context runs the handlers of completed operations in turn,       *)
(* callbacks return, and destructors run.  Nothing is assumed of the users *)
(* and of the kernel.                                                      *)
Fairness ==
  /\ WF_vars(NoGarbage /\ Return)
  /\ \A s \in Session :
       /\ WF_vars(Destroy(s))
       /\ WF_vars(NoGarbage /\ ReadHandler(s))
       /\ WF_vars(NoGarbage /\ WriteHandler(s))

Spec == Init /\ [][Next]_vars /\ Fairness
-----------------------------------------------------------------------------
(* Safety. *)

(* A session has at most one async_read and one async_write at a time:     *)
(* message_to_read and the socket's stream are never shared by two.  The   *)
(* starts are scattered over set_onmessage, send and four handlers.        *)
OneReadOneWrite ==
  \A s \in Session : reading[s].step # "overlap" /\ writing[s].step # "overlap"

(* The size of the queue stands for "a write is in progress": send tests   *)
(* it, the handlers pop.  On an open session the two always agree, so no   *)
(* message waits for a writer that stopped; and whenever a write is        *)
(* outstanding there is a front message whose buffers it uses.             *)
WriterMatchesQueue ==
  \A s \in Session :
    /\ writing[s].step # "idle" => write_queue[s] # <<>>
    /\ socket_[s] /\ write_queue[s] # <<>> => writing[s].step # "idle"

(* An open session with a message handler is reading, or runs the handler  *)
(* after which it reads on, however that handler ends: a closed peer is    *)
(* always noticed.                                                         *)
ReadArmed ==
  \A s \in Session :
    socket_[s] /\ onmessage[s] # "unset" =>
      reading[s].step # "idle" \/ Running(s, "onmessage")

(* A close handler is called exactly once, be the session closed by the    *)
(* user, by a failed read and a failed write one after the other, by close *)
(* in the close handler itself, or before the handler was set.             *)
CloseHandlerOnce ==
  \A s \in Session :
    /\ Len(reports[s]) <= 1
    /\ ~socket_[s] /\ onclose[s] # "unset" => Len(reports[s]) = 1

(* A handler that was set in time gets the error that closed the session.  *)
(* The errors of operations that a close aborted come later and are never  *)
(* taken for the cause.                                                    *)
ReportedCause ==
  \A s \in Session :
    /\ cause[s] # "aborted"
    /\ onclose[s] = "noop" => reports[s] = <<cause[s]>>

(* Completion handlers own their session: it exists while an operation     *)
(* uses its buffers, while the completion handler runs and while user code *)
(* that the handler called runs.                                           *)
AliveWhileInUse ==
  \A s \in Session :
    \/ reading[s].step # "idle"
    \/ writing[s].step # "idle"
    \/ OwnedByRunningHandler(s)
    => alive[s]

(* A std::function is not assigned to while it runs, which would destroy   *)
(* the captures of the running closure.  The one exception is onmessage    *)
(* when its session is closed meanwhile.                                   *)
RunningHandlerStable ==
  [][\A s \in Session :
       /\ Running(s, "onclose") /\ Running(s, "onclose")' => onclose'[s] = onclose[s]
       /\ Running(s, "onmessage") /\ Running(s, "onmessage")' =>
            onmessage'[s] = onmessage[s] \/ ~socket_'[s]]_vars

(* After close no message reaches the user, although a read may have       *)
(* succeeded before and its handler may still wait to be run.              *)
NoDeliveryAfterClose ==
  [][\A s \in Session :
       ~Running(s, "onmessage") /\ Running(s, "onmessage")' => socket_[s]]_vars

(* The kernel reads the buffers of the front message from the start of the *)
(* header's write to the end of the payload's: until then the front stays. *)
QueueFrontStable ==
  [][\A s \in Session :
       writing[s].step # "idle" /\ ~(writing[s].step = "payload" /\ Succeeded(writing[s]))
         => write_queue'[s] # <<>> /\ Head(write_queue'[s]) = Head(write_queue[s])]_vars
-----------------------------------------------------------------------------
(* Why the safety properties hold: what is true between any two steps of   *)
(* the code and makes them inductive.                                      *)

(* Completion handlers, and the message handlers they call, run at the     *)
(* bottom of the stack; a session's close handler is on it at most once,   *)
(* and only when it reports why the session is closed.                     *)
StackShape ==
  /\ \A i \in 1 .. Len(stack) :
       /\ stack[i].by = "handler" => i = Len(stack)
       /\ stack[i].call = "onmessage" => stack[i].by = "handler"
       /\ stack[i].call = "onclose" =>
            /\ ~socket_[stack[i].s]
            /\ onclose[stack[i].s] # "unset"
            /\ reports[stack[i].s] = <<cause[stack[i].s]>>
  /\ \A i, j \in 1 .. Len(stack) :
       stack[i].call = "onclose" /\ stack[j].call = "onclose" /\ stack[i].s = stack[j].s
         => i = j

(* Reading begins with the registration of the message handler and pauses  *)
(* while that runs.                                                        *)
ReadChain ==
  \A s \in Session :
    /\ onmessage[s] = "unset" => reading[s].step = "idle"
    /\ Running(s, "onmessage") => onmessage[s] # "unset" /\ reading[s].step = "idle"

(* Nothing is pending on a closed socket, nothing is aborted on an open    *)
(* one, and a read that succeeded before the close finds no user handler.  *)
ClosedOperations ==
  \A s \in Session :
    /\ socket_[s] => reading[s].res # "aborted" /\ writing[s].res # "aborted"
    /\ ~socket_[s] => reading[s].res # "pending"
    /\ reading[s].step = "idle" => reading[s] = Idle
    /\ ~socket_[s] /\ reading[s].step # "idle" /\ Succeeded(reading[s]) =>
         onmessage[s] \notin UserHandler \/ Running(s, "onclose")

CloseHistory ==
  \A s \in Session :
    /\ socket_[s] \/ onclose[s] = "unset" => reports[s] = <<>>
    /\ onclose[s] = "noop" => ~socket_[s]

SessionInv ==
  /\ TypeOK /\ OneReadOneWrite /\ WriterMatchesQueue /\ ReadArmed
  /\ CloseHandlerOnce /\ ReportedCause /\ AliveWhileInUse
  /\ StackShape /\ ReadChain /\ ClosedOperations /\ CloseHistory
-----------------------------------------------------------------------------
(* Liveness. *)

(* Handlers may own their session.  Closing breaks the cycle: a closed     *)
(* session whose two handlers were set in time is destroyed once user code *)
(* has let it go.                                                          *)
Reclaimed ==
  \A s \in Session :
    [](socket_[s] /\ onclose[s] # "unset" /\ onmessage[s] # "unset"
         => (~socket_[s] /\ ~held[s] ~> ~alive[s]))

(* A read that failed closes the session, whatever callbacks and writes    *)
(* are pending.                                                            *)
LossNoticed ==
  \A s \in Session : reading[s].res = "io_error" ~> ~socket_[s]
-----------------------------------------------------------------------------
(* What the documentation says and the code does not do. *)

(* README.md: each error closes the session and "The error code is instead *)
(* provided to the close handler."                                         *)
ErrorCodeProvided ==
  \A s \in Session :
    reports[s] # <<>> /\ cause[s] # "none" => reports[s] = <<cause[s]>>

(* session_i.hpp: the close handler "may be used to clean up data          *)
(* assiciated with the session"; a session exists until the close that     *)
(* calls the handler has returned.                                         *)
AliveDuringClose ==
  \A i \in 1 .. Len(stack) :
    stack[i].call = "onclose" /\ stack[i].by # "destructor" => alive[stack[i].s]
=============================================================================
