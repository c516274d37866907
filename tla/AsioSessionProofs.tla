------------------------- MODULE AsioSessionProofs -------------------------
(***************************************************************************)
(* Proofs about AsioSession for any set of sessions, messages and peer     *)
(* headers, and any bound on the queues.                                   *)
(***************************************************************************)
EXTENDS AsioSession, SequenceTheorems, TLAPS

(* Calling a callback puts a frame on the stack. *)
LEMMA PushFrame ==
  ASSUME NEW f \in Frame, NEW st \in Seq(Frame)
  PROVE  /\ <<f>> \o st \in Seq(Frame)
         /\ Len(<<f>> \o st) = Len(st) + 1
         /\ (<<f>> \o st)[1] = f
         /\ \A i \in 1 .. Len(st) : (<<f>> \o st)[i + 1] = st[i]
         /\ \A i \in 2 .. Len(st) + 1 : (<<f>> \o st)[i] = st[i - 1]
  <1>1. <<f>> \in Seq(Frame) /\ Len(<<f>>) = 1 /\ <<f>>[1] = f
    OBVIOUS
  <1>2. <<f>> \o st \in Seq(Frame) /\ Len(<<f>> \o st) = Len(st) + 1
    BY <1>1, ConcatProperties
  <1>3. \A i \in 1 .. Len(st) + 1 :
          (<<f>> \o st)[i] = IF i <= 1 THEN <<f>>[i] ELSE st[i - 1]
    BY <1>1, ConcatProperties
  <1> QED
    BY <1>1, <1>2, <1>3

(* Returning from it takes the frame off again. *)
LEMMA PopFrame ==
  ASSUME NEW st \in Seq(Frame), st # <<>>
  PROVE  /\ Tail(st) \in Seq(Frame)
         /\ Len(st) >= 1
         /\ Head(st) = st[1]
         /\ Head(st) \in Frame
         /\ Len(Tail(st)) = Len(st) - 1
         /\ \A i \in 1 .. Len(st) - 1 : Tail(st)[i] = st[i + 1]
  OBVIOUS

(* A new frame runs its callback, and all others go on. *)
LEMMA PushRunning ==
  ASSUME NEW f \in Frame, stack \in Seq(Frame), stack' = <<f>> \o stack,
         NEW s \in Session, NEW call
  PROVE  Running(s, call)' <=> (f.s = s /\ f.call = call) \/ Running(s, call)
  <1>1. Running(s, call)' => (f.s = s /\ f.call = call) \/ Running(s, call)
    BY PushFrame DEF Running
  <1>2. ASSUME f.s = s /\ f.call = call PROVE Running(s, call)'
    <2>1. 1 \in 1 .. Len(stack') /\ stack'[1] = f
      BY PushFrame
    <2> QED
      BY <1>2, <2>1 DEF Running
  <1>3. ASSUME Running(s, call) PROVE Running(s, call)'
    <2>1. PICK i \in 1 .. Len(stack) : stack[i].s = s /\ stack[i].call = call
      BY <1>3 DEF Running
    <2>2. i + 1 \in 1 .. Len(stack') /\ stack'[i + 1] = stack[i]
      BY PushFrame
    <2> QED
      BY <2>1, <2>2 DEF Running
  <1> QED
    BY <1>1, <1>2, <1>3

(* A return ends the call of the innermost callback and no other.          *)
LEMMA PopRunning ==
  ASSUME stack \in Seq(Frame), stack # <<>>, stack' = Tail(stack),
         NEW s \in Session, NEW call
  PROVE  /\ Running(s, call)' => Running(s, call)
         /\ Running(s, call) =>
              Running(s, call)' \/ (Head(stack).s = s /\ Head(stack).call = call)
  <1>1. ASSUME Running(s, call)' PROVE Running(s, call)
    <2>1. PICK i \in 1 .. Len(stack') : stack'[i].s = s /\ stack'[i].call = call
      BY <1>1 DEF Running
    <2>2. i + 1 \in 1 .. Len(stack) /\ stack'[i] = stack[i + 1]
      BY PopFrame
    <2> QED
      BY <2>1, <2>2 DEF Running
  <1>2. ASSUME Running(s, call), ~(Head(stack).s = s /\ Head(stack).call = call)
        PROVE  Running(s, call)'
    <2>1. PICK i \in 1 .. Len(stack) : stack[i].s = s /\ stack[i].call = call
      BY <1>2 DEF Running
    <2>2. i # 1
      BY <1>2, <2>1, PopFrame
    <2>3. i - 1 \in 1 .. Len(stack') /\ stack'[i - 1] = stack[i]
      BY <2>2, PopFrame
    <2> QED
      BY <2>1, <2>3 DEF Running
  <1> QED
    BY <1>1, <1>2
-----------------------------------------------------------------------------
(* Closing.  The lemma covers every call of close_intern: by the           *)
(* destructor, the four completion handlers and the user.                  *)

(* socket_.close() leaves an operation what it is, but never pending.      *)
LEMMA CancelledOp ==
  ASSUME NEW op \in Op
  PROVE  /\ Cancelled(op) \in Op
         /\ Cancelled(op).step = op.step
         /\ op.step # "idle" => Cancelled(op).res # "pending"
         /\ Succeeded(Cancelled(op)) => Succeeded(op)
         /\ op = Idle => Cancelled(op) = Idle
  BY DEF Cancelled, Op, Succeeded, Idle

(* A callback that a method calls makes no session owned by a handler.     *)
LEMMA PushOwned ==
  ASSUME NEW f \in Frame, stack \in Seq(Frame), stack' = <<f>> \o stack,
         NEW s \in Session
  PROVE  OwnedByRunningHandler(s)' => (f.s = s /\ f.by = "handler") \/ OwnedByRunningHandler(s)
  BY PushFrame DEF OwnedByRunningHandler

(* A return gives no session a new owner.                                  *)
LEMMA PopOwned ==
  ASSUME stack \in Seq(Frame), stack # <<>>, stack' = Tail(stack), NEW s \in Session
  PROVE  OwnedByRunningHandler(s)' => OwnedByRunningHandler(s)
  <1> SUFFICES ASSUME OwnedByRunningHandler(s)' PROVE OwnedByRunningHandler(s)
    OBVIOUS
  <1>1. PICK i \in 1 .. Len(stack') : stack'[i].s = s /\ stack'[i].by = "handler"
    BY DEF OwnedByRunningHandler
  <1>2. i + 1 \in 1 .. Len(stack) /\ stack'[i] = stack[i + 1]
    BY PopFrame
  <1> QED
    BY <1>1, <1>2 DEF OwnedByRunningHandler

(* close_intern, whoever calls it, up to its call of onclose.              *)
LEMMA ClosingPreserves ==
  ASSUME SessionInv, NEW s \in Session, NEW err \in Error, NEW by \in {"handler", "user", "destructor"},
         NEW rd \in {reading[s], Idle}, NEW wr \in {writing[s], Idle},
         CloseIntern(s, err, by, rd, wr), UNCHANGED <<write_queue, held>>,
         err = "aborted" => ~socket_[s],
         by = "handler" => stack = <<>> /\ alive'[s],
         \/ alive' = alive
         \/ alive' = [alive EXCEPT ![s] = FALSE] /\ ~Referenced(s) /\ by = "destructor"
  PROVE  SessionInv'
  <1> DEFINE f == [call |-> "onclose", s |-> s, by |-> by]
  <1> USE DEF SessionInv
  <1>0. Idle \in Op /\ rd \in Op /\ wr \in Op /\ f \in Frame
    BY DEF Idle, Op, Frame, TypeOK
  <1>i. Idle.step = "idle" /\ Idle.res = "ok"
    BY DEF Idle
  <1>alive. \A t \in Session :
             (reading[t].step # "idle" \/ writing[t].step # "idle" \/ OwnedByRunningHandler(t))
               => alive'[t]
    BY DEF TypeOK, AliveWhileInUse, Referenced
  <1>b. alive' \in [Session -> BOOLEAN]
    BY DEF TypeOK
  <1>1. CASE /\ ~socket_[s]
             /\ reading' = [reading EXCEPT ![s] = rd]
             /\ writing' = [writing EXCEPT ![s] = wr]
             /\ UNCHANGED <<socket_, onmessage, onclose, stack, cause, reports>>
    <2>r. \A t \in Session : Running(t, "onmessage")' = Running(t, "onmessage")
                             /\ Running(t, "onclose")' = Running(t, "onclose")
                             /\ OwnedByRunningHandler(t)' = OwnedByRunningHandler(t)
      BY <1>1 DEF Running, OwnedByRunningHandler
    <2>0. \A t \in Session : reading'[t] \in {reading[t], Idle} /\ writing'[t] \in {writing[t], Idle}
                             /\ (t # s => reading'[t] = reading[t] /\ writing'[t] = writing[t])
      BY <1>1 DEF TypeOK
    <2>1. TypeOK'
      BY <1>0, <1>1, <1>b DEF TypeOK
    <2>2. OneReadOneWrite' /\ WriterMatchesQueue' /\ ReadArmed'
      BY <1>1, <1>i, <2>0, <2>r DEF OneReadOneWrite, WriterMatchesQueue, ReadArmed
    <2>3. CloseHandlerOnce' /\ ReportedCause' /\ CloseHistory'
      BY <1>1 DEF CloseHandlerOnce, ReportedCause, CloseHistory
    <2>4. AliveWhileInUse'
      BY <1>alive, <1>i, <2>0, <2>r DEF AliveWhileInUse
    <2>5. StackShape'
      BY <1>1 DEF StackShape
    <2>6. ReadChain' /\ ClosedOperations'
      BY <1>1, <1>i, <2>0, <2>r DEF ReadChain, ClosedOperations, Succeeded
    <2> QED
      BY <2>1, <2>2, <2>3, <2>4, <2>5, <2>6
  <1>2. CASE /\ socket_[s]
             /\ socket_' = [socket_ EXCEPT ![s] = FALSE]
             /\ cause' = [cause EXCEPT ![s] = err]
             /\ reading' = [reading EXCEPT ![s] = Cancelled(rd)]
             /\ writing' = [writing EXCEPT ![s] = Cancelled(wr)]
             /\ onclose' = onclose
             /\ \/ /\ onclose[s] = "unset"
                   /\ onmessage' = [onmessage EXCEPT ![s] = Removed(onmessage[s])]
                   /\ UNCHANGED <<stack, reports>>
                \/ /\ onclose[s] # "unset"
                   /\ stack' = <<f>> \o stack
                   /\ reports' = [reports EXCEPT ![s] = Append(reports[s], err)]
                   /\ onmessage' = onmessage
    <2>h. /\ reports[s] = <<>> /\ ~Running(s, "onclose") /\ stack \in Seq(Frame)
          /\ err # "aborted" /\ onclose[s] # "noop"
          /\ \A i \in 1 .. Len(stack) : stack[i].call = "onclose" => stack[i].s # s
      <3>1. /\ reports[s] = <<>> /\ onclose[s] # "noop" /\ err # "aborted"
        BY <1>2 DEF CloseHistory
      <3>2. /\ stack \in Seq(Frame)
            /\ \A i \in 1 .. Len(stack) : stack[i].call = "onclose" => stack[i].s # s
        BY <1>2 DEF StackShape, TypeOK
      <3> QED
        BY <3>1, <3>2 DEF Running
    <2>0. \A t \in Session :
            /\ t # s => /\ reading'[t] = reading[t] /\ writing'[t] = writing[t]
                        /\ socket_'[t] = socket_[t] /\ cause'[t] = cause[t]
                        /\ reports'[t] = reports[t] /\ onmessage'[t] = onmessage[t]
      BY <1>2 DEF TypeOK
    <2>s. /\ ~socket_'[s] /\ cause'[s] = err
          /\ reading'[s] = Cancelled(rd) /\ writing'[s] = Cancelled(wr)
          /\ rd.step = reading[s].step \/ rd.step = "idle"
          /\ wr.step = writing[s].step \/ wr.step = "idle"
          /\ onmessage'[s] # "unset" <=> onmessage[s] # "unset"
          /\ onclose[s] # "unset" => reports'[s] = <<err>>
          /\ onclose[s] = "unset" => reports'[s] = <<>>
      BY <1>2, <1>i, <2>h DEF TypeOK, Removed
    <2>c. /\ reading'[s] \in Op /\ reading'[s].step = rd.step /\ reading'[s].res # "pending"
          /\ writing'[s] \in Op /\ writing'[s].step = wr.step
          /\ Succeeded(reading'[s]) => Succeeded(rd)
      <3>1. rd.step = "idle" => rd = Idle
        BY <1>i DEF ClosedOperations
      <3> QED
        BY <1>0, <1>i, <2>s, <3>1, CancelledOp
    <2>r. \A t \in Session :
            /\ Running(t, "onmessage")' <=> Running(t, "onmessage")
            /\ t # s => (Running(t, "onclose")' <=> Running(t, "onclose"))
            /\ onclose[s] # "unset" => Running(s, "onclose")'
            /\ OwnedByRunningHandler(t)' => OwnedByRunningHandler(t) \/ alive'[t]
      <3>1. CASE onclose[s] = "unset"
        <4>1. stack' = stack
          BY <1>2, <3>1
        <4> QED
          BY <3>1, <4>1 DEF Running, OwnedByRunningHandler
      <3>2. CASE stack' = <<f>> \o stack
        <4>1. /\ \A t \in Session : Running(t, "onmessage")' <=>
                    (f.s = t /\ f.call = "onmessage") \/ Running(t, "onmessage")
              /\ \A t \in Session : Running(t, "onclose")' <=>
                    (f.s = t /\ f.call = "onclose") \/ Running(t, "onclose")
          BY <1>0, <2>h, <3>2, PushRunning
        <4>2. \A t \in Session : OwnedByRunningHandler(t)' =>
                (f.s = t /\ f.by = "handler") \/ OwnedByRunningHandler(t)
          BY <1>0, <2>h, <3>2, PushOwned
        <4>3. f.s = s /\ f.call = "onclose" /\ f.by = by
          OBVIOUS
        <4> HIDE DEF f
        <4>4. Running(s, "onclose")'
          BY <4>1, <4>3
        <4>5. \A t \in Session : OwnedByRunningHandler(t)' => OwnedByRunningHandler(t) \/ alive'[t]
          BY <4>2, <4>3
        <4>6. \A t \in Session : /\ Running(t, "onmessage")' <=> Running(t, "onmessage")
                                 /\ t # s => (Running(t, "onclose")' <=> Running(t, "onclose"))
          BY <4>1, <4>3
        <4> QED
          BY <4>4, <4>5, <4>6
      <3> QED
        BY <1>2, <3>1, <3>2
    <2>1. TypeOK'
      <3>1. stack' \in Seq(Frame)
        <4>1. <<f>> \o stack \in Seq(Frame)
          BY <1>0, <2>h, PushFrame
        <4> QED
          BY <1>2, <2>h, <4>1
      <3>2. reports' \in [Session -> Seq(Error)]
        <4>1. Append(reports[s], err) \in Seq(Error)
          BY DEF TypeOK
        <4> QED
          BY <1>2, <4>1 DEF TypeOK
      <3>3. onmessage' \in [Session -> Handler]
        BY <1>2 DEF TypeOK, Removed, Handler
      <3>4. /\ reading' \in [Session -> Op] /\ writing' \in [Session -> Op]
            /\ cause' \in [Session -> Error \cup {"none"}]
            /\ socket_' \in [Session -> BOOLEAN]
        BY <1>0, <1>2, CancelledOp DEF TypeOK
      <3> QED
        BY <1>2, <1>b, <3>1, <3>2, <3>3, <3>4 DEF TypeOK
    <2>2. OneReadOneWrite' /\ WriterMatchesQueue' /\ ReadArmed'
      BY <1>i, <2>0, <2>s, <2>c, <2>r DEF OneReadOneWrite, WriterMatchesQueue, ReadArmed
    <2>3. CloseHandlerOnce' /\ ReportedCause' /\ CloseHistory'
      <3>1. /\ onclose[s] # "unset" => Len(reports'[s]) = 1
            /\ Len(reports'[s]) <= 1
        <4>1. /\ Len(Append(reports[s], err)) = 1 /\ Len(Append(reports[s], err)) <= 1
              /\ Len(reports[s]) <= 1
          BY <2>h DEF TypeOK
        <4>2. CASE onclose[s] = "unset"
          BY <1>2, <4>1, <4>2
        <4>3. CASE onclose[s] # "unset"
          <5>1. reports'[s] = Append(reports[s], err)
            BY <1>2, <4>3 DEF TypeOK
          <5> QED
            BY <4>1, <4>3, <5>1
        <4> QED
          BY <4>2, <4>3
      <3>2. CloseHandlerOnce'
        <4>1. Len(reports'[s]) <= 1 /\ (onclose'[s] # "unset" => Len(reports'[s]) = 1)
          BY <1>2, <3>1
        <4>2. \A t \in Session : t # s =>
                /\ Len(reports'[t]) <= 1
                /\ ~socket_'[t] /\ onclose'[t] # "unset" => Len(reports'[t]) = 1
          BY <1>2, <2>0 DEF CloseHandlerOnce
        <4> QED
          BY <4>1, <4>2 DEF CloseHandlerOnce
      <3>3. ReportedCause' /\ CloseHistory'
        BY <1>2, <2>0, <2>s, <2>h DEF ReportedCause, CloseHistory
      <3> QED
        BY <3>2, <3>3
    <2>4. AliveWhileInUse'
      BY <1>alive, <1>i, <2>0, <2>s, <2>c, <2>r DEF AliveWhileInUse
    <2>5. StackShape'
      <3>0. \A i \in 1 .. Len(stack) : stack[i].s \in Session
        <4>1. \A i \in 1 .. Len(stack) : stack[i] \in Frame
          BY <2>h
        <4> QED
          BY <4>1 DEF Frame
      <3>1. CASE onclose[s] = "unset"
        <4>1. stack' = stack /\ onclose' = onclose
          BY <1>2, <3>1
        <4>2. \A i \in 1 .. Len(stack) : stack[i].call = "onclose" =>
                /\ stack[i].s \in Session /\ stack[i].s # s /\ ~socket_[stack[i].s]
                /\ onclose[stack[i].s] # "unset"
                /\ reports[stack[i].s] = <<cause[stack[i].s]>>
          BY <2>h, <3>0 DEF StackShape
        <4>3. \A i \in 1 .. Len(stack) : stack[i].call = "onclose" =>
                /\ ~socket_'[stack[i].s]
                /\ onclose'[stack[i].s] # "unset"
                /\ reports'[stack[i].s] = <<cause'[stack[i].s]>>
          BY <2>0, <4>1, <4>2
        <4> QED
          BY <4>1, <4>3 DEF StackShape
      <3>2. CASE stack' = <<f>> \o stack /\ onclose[s] # "unset"
        <4>1. /\ Len(stack') = Len(stack) + 1 /\ stack'[1] = f /\ Len(stack) \in Nat
              /\ \A i \in 2 .. Len(stack) + 1 : /\ i - 1 \in 1 .. Len(stack)
                                                /\ stack'[i] = stack[i - 1]
          BY <1>0, <2>h, <3>2, PushFrame
        <4>2. by = "handler" => Len(stack) = 0
          <5>1. by = "handler" => stack = <<>>
            OBVIOUS
          <5> QED
            BY <5>1
        <4>3. f.s = s /\ f.call = "onclose" /\ f.by = by
          OBVIOUS
        <4>4. reports'[s] = <<cause'[s]>> /\ onclose' = onclose
          BY <1>2, <2>s, <3>2
        <4> HIDE DEF f
        <4>5. ASSUME NEW i \in 1 .. Len(stack')
              PROVE  /\ stack'[i].by = "handler" => i = Len(stack')
                     /\ stack'[i].call = "onmessage" => stack'[i].by = "handler"
                     /\ stack'[i].call = "onclose" =>
                          /\ ~socket_'[stack'[i].s]
                          /\ onclose'[stack'[i].s] # "unset"
                          /\ reports'[stack'[i].s] = <<cause'[stack'[i].s]>>
          <5>1. CASE i = 1
            BY <2>s, <3>2, <4>1, <4>2, <4>3, <4>4, <5>1
          <5>2. CASE i # 1
            <6>1. PICK k \in 1 .. Len(stack) : stack'[i] = stack[k] /\ i = k + 1
              BY <4>1, <5>2
            <6>2. /\ stack[k].by = "handler" => k = Len(stack)
                  /\ stack[k].call = "onmessage" => stack[k].by = "handler"
                  /\ stack[k].call = "onclose" =>
                       /\ stack[k].s \in Session /\ stack[k].s # s /\ ~socket_[stack[k].s]
                       /\ onclose[stack[k].s] # "unset"
                       /\ reports[stack[k].s] = <<cause[stack[k].s]>>
              BY <2>h, <3>0 DEF StackShape
            <6> QED
              BY <2>0, <4>1, <4>4, <6>1, <6>2
          <5> QED
            BY <5>1, <5>2
        <4>6. ASSUME NEW i \in 1 .. Len(stack'), NEW j \in 1 .. Len(stack'),
                     stack'[i].call = "onclose", stack'[j].call = "onclose",
                     stack'[i].s = stack'[j].s
              PROVE  i = j
          <5>1. i = 1 <=> j = 1
            BY <2>h, <4>1, <4>3, <4>6
          <5>2. CASE i # 1 /\ j # 1
            <6>1. /\ i - 1 \in 1 .. Len(stack) /\ stack'[i] = stack[i - 1]
                  /\ j - 1 \in 1 .. Len(stack) /\ stack'[j] = stack[j - 1]
              BY <4>1, <5>2
            <6>2. i - 1 = j - 1
              BY <4>6, <6>1 DEF StackShape
            <6> QED
              BY <4>1, <6>2
          <5> QED
            BY <5>1, <5>2
        <4> QED
          BY <4>5, <4>6 DEF StackShape
      <3> QED
        BY <1>2, <3>1, <3>2
    <2>6. ReadChain'
      BY <1>i, <2>0, <2>s, <2>c, <2>r DEF ReadChain
    <2>7. ClosedOperations'
      <3>1. reading'[s].step = "idle" => reading'[s] = Idle
        BY <1>0, <1>i, <2>s, <2>c, CancelledOp DEF ClosedOperations
      <3>2. reading'[s].step # "idle" /\ Succeeded(reading'[s]) =>
              onmessage'[s] \notin UserHandler \/ Running(s, "onclose")'
        BY <1>2, <2>r DEF TypeOK, Removed, UserHandler
      <3> QED
        BY <2>0, <2>s, <2>c, <2>r, <3>1, <3>2 DEF ClosedOperations, Succeeded
    <2> QED
      BY <2>1, <2>2, <2>3, <2>4, <2>5, <2>6, <2>7
  <1> QED
    BY <1>1, <1>2 DEF CloseIntern, MustClose
-----------------------------------------------------------------------------
(* Steps that only start, complete or chain operations, or use the queue. *)

(* async_read and async_write start the step they are asked for.           *)
LEMMA BeginOp ==
  ASSUME NEW op \in Op, NEW step \in {"header", "payload"}, NEW open \in BOOLEAN
  PROVE  /\ Begin(op, step, open) \in Op
         /\ Begin(op, step, open).step # "idle"
         /\ op.step = "idle" => Begin(op, step, open).step = step
         /\ Begin(op, step, open).res = IF open THEN "pending" ELSE "aborted"
  BY DEF Begin, Op

(* The idle operation is one, and is complete.                             *)
LEMMA IdleOp == Idle \in Op /\ Idle.step = "idle" /\ Idle.res = "ok"
  BY DEF Idle, Op

(* What an idle session starts is pending exactly on an open socket.       *)
LEMMA StartedOp ==
  ASSUME TypeOK, NEW s \in Session, NEW step \in {"header", "payload"}
  PROVE  /\ Begin(Idle, step, socket_[s]) \in Op
         /\ Begin(Idle, step, socket_[s]).step = step
         /\ Begin(Idle, step, socket_[s]).res = IF socket_[s] THEN "pending" ELSE "aborted"
  <1>1. socket_[s] \in BOOLEAN
    BY DEF TypeOK
  <1> QED
    BY <1>1 DEF Begin, Idle, Op

(* A step that only changes the operations and the queue of one session,   *)
(* and keeps both chains in order.                                         *)
LEMMA OperationPreserves ==
  ASSUME SessionInv, NEW s \in Session, NEW rd \in Op, NEW wr \in Op, NEW q \in Seq(Message),
         reading' = [reading EXCEPT ![s] = rd],
         writing' = [writing EXCEPT ![s] = wr],
         write_queue' = [write_queue EXCEPT ![s] = q],
         held' \in [Session -> BOOLEAN],
         UNCHANGED <<socket_, onmessage, onclose, alive, stack, cause, reports>>,
         rd.step # "overlap" /\ wr.step # "overlap",
         rd.step # "idle" <=> reading[s].step # "idle",
         rd.step = "idle" => rd = Idle,
         wr.step # "idle" => q # <<>> /\ alive[s],
         socket_[s] /\ q # <<>> => wr.step # "idle",
         socket_[s] => rd.res # "aborted" /\ wr.res # "aborted",
         ~socket_[s] => rd.res # "pending",
         ~socket_[s] /\ rd.step # "idle" /\ Succeeded(rd) => rd = reading[s]
  PROVE  SessionInv'
  <1> USE DEF SessionInv
  <1>r. \A t \in Session : Running(t, "onmessage")' = Running(t, "onmessage")
                           /\ Running(t, "onclose")' = Running(t, "onclose")
                           /\ OwnedByRunningHandler(t)' = OwnedByRunningHandler(t)
    BY DEF Running, OwnedByRunningHandler
  <1>0. /\ reading'[s] = rd /\ writing'[s] = wr /\ write_queue'[s] = q
        /\ \A t \in Session : t # s => /\ reading'[t] = reading[t] /\ writing'[t] = writing[t]
                                       /\ write_queue'[t] = write_queue[t]
    BY DEF TypeOK
  <1>1. TypeOK'
    BY DEF TypeOK
  <1>2. OneReadOneWrite' /\ WriterMatchesQueue' /\ ReadArmed'
    BY <1>0, <1>r DEF OneReadOneWrite, WriterMatchesQueue, ReadArmed
  <1>3. CloseHandlerOnce' /\ ReportedCause' /\ CloseHistory' /\ StackShape'
    BY DEF CloseHandlerOnce, ReportedCause, CloseHistory, StackShape
  <1>4. AliveWhileInUse' /\ ReadChain'
    BY <1>0, <1>r DEF AliveWhileInUse, ReadChain
  <1>5. ClosedOperations'
    BY <1>0, <1>r DEF ClosedOperations
  <1> QED
    BY <1>1, <1>2, <1>3, <1>4, <1>5

(* The kernel completes a read or a write.                                 *)
LEMMA KernelPreserves ==
  ASSUME SessionInv, NEW s \in Session, Kernel(s)
  PROVE  SessionInv'
  <1> USE DEF SessionInv
  <1> PICK res \in {"ok", "io_error"} : ReadDone(s, res) \/ WriteDone(s, res)
    BY DEF Kernel
  <1>q. /\ write_queue' = [write_queue EXCEPT ![s] = write_queue[s]]
        /\ write_queue[s] \in Seq(Message) /\ held' \in [Session -> BOOLEAN]
        /\ reading[s] \in Op /\ writing[s] \in Op
    BY DEF ReadDone, WriteDone, TypeOK
  <1>1. CASE ReadDone(s, res)
    <2> DEFINE rd == [reading[s] EXCEPT !.res = res]
    <2>1. /\ reading' = [reading EXCEPT ![s] = rd]
          /\ writing' = [writing EXCEPT ![s] = writing[s]]
          /\ rd \in Op /\ rd.step = reading[s].step /\ rd.res = res
          /\ socket_[s] /\ reading[s].step # "idle"
      BY <1>1, <1>q DEF ReadDone, TypeOK, Op, ClosedOperations
    <2>2. /\ UNCHANGED <<socket_, onmessage, onclose, alive, stack, cause, reports>>
          /\ writing[s].step # "overlap" /\ reading[s].step # "overlap"
          /\ writing[s].step # "idle" => write_queue[s] # <<>> /\ alive[s]
          /\ write_queue[s] # <<>> => writing[s].step # "idle"
          /\ writing[s].res # "aborted"
      BY <1>1, <2>1 DEF ReadDone, ClosedOperations, OneReadOneWrite, WriterMatchesQueue, AliveWhileInUse
    <2> HIDE DEF rd
    <2> QED
      BY <1>q, <2>1, <2>2, OperationPreserves
  <1>2. CASE WriteDone(s, res)
    <2> DEFINE wr == [writing[s] EXCEPT !.res = res]
    <2>1. /\ writing' = [writing EXCEPT ![s] = wr]
          /\ reading' = [reading EXCEPT ![s] = reading[s]]
          /\ wr \in Op /\ wr.step = writing[s].step /\ wr.res = res
          /\ writing[s].step # "idle"
      BY <1>2, <1>q DEF WriteDone, TypeOK, Op
    <2>2. /\ UNCHANGED <<socket_, onmessage, onclose, alive, stack, cause, reports>>
          /\ writing[s].step # "overlap" /\ reading[s].step # "overlap"
          /\ reading[s].step # "idle" => alive[s]
          /\ write_queue[s] # <<>> /\ alive[s]
      BY <1>2, <2>1 DEF WriteDone, OneReadOneWrite, WriterMatchesQueue, AliveWhileInUse
    <2>3. res # "aborted"
      OBVIOUS
    <2> HIDE DEF wr
    <2> QED
      BY <1>q, <2>1, <2>2, <2>3, OperationPreserves DEF ClosedOperations
  <1> QED
    BY <1>1, <1>2
-----------------------------------------------------------------------------
(* The completion handlers.  A handler whose operation failed closes the   *)
(* session; the others chain the next operation or call onmessage.         *)

(* A completion handler that closes its session because of an error.       *)
LEMMA FailedHandlerPreserves ==
  ASSUME SessionInv, NEW s \in Session, stack = <<>>, NEW err,
         \/ /\ reading[s].step # "idle"
            /\ \/ err = "bad_message"
               \/ Failed(reading[s]) /\ err = reading[s].res
            /\ CloseIntern(s, err, "handler", Idle, writing[s])
         \/ /\ writing[s].step # "idle"
            /\ Failed(writing[s]) /\ err = writing[s].res
            /\ CloseIntern(s, err, "handler", reading[s], Idle),
         UNCHANGED <<write_queue, held, alive>>
  PROVE  SessionInv'
  <1>1. err \in Error /\ (err = "aborted" => ~socket_[s])
    BY DEF Error, Failed, SessionInv, ClosedOperations
  <1>2. alive'[s]
    BY DEF SessionInv, AliveWhileInUse
  <1> QED
    BY <1>1, <1>2, ClosingPreserves

(* The handler of read_header.                                             *)
LEMMA ReadHeaderPreserves ==
  ASSUME SessionInv, NEW s \in Session, NEW h, HandleReadHeader(s, h)
  PROVE  SessionInv'
  <1>1. CASE /\ Succeeded(reading[s])
             /\ reading' = [reading EXCEPT ![s] = Begin(Idle, "payload", socket_[s])]
             /\ UNCHANGED <<socket_, onmessage, onclose, writing, stack, cause, reports>>
    <2> DEFINE rd == Begin(Idle, "payload", socket_[s])
    <2>1. /\ rd \in Op /\ rd.step = "payload" /\ ~Succeeded(rd)
          /\ rd.res = IF socket_[s] THEN "pending" ELSE "aborted"
      BY StartedOp DEF SessionInv, Succeeded
    <2>2. /\ reading' = [reading EXCEPT ![s] = rd]
          /\ writing' = [writing EXCEPT ![s] = writing[s]]
          /\ write_queue' = [write_queue EXCEPT ![s] = write_queue[s]]
          /\ writing[s] \in Op /\ write_queue[s] \in Seq(Message)
          /\ held' \in [Session -> BOOLEAN] /\ alive' = alive
          /\ reading[s].step = "header"
      BY <1>1 DEF HandleReadHeader, SessionInv, TypeOK
    <2>3. /\ writing[s].step # "overlap"
          /\ writing[s].step # "idle" => write_queue[s] # <<>> /\ alive[s]
          /\ socket_[s] /\ write_queue[s] # <<>> => writing[s].step # "idle"
          /\ socket_[s] => writing[s].res # "aborted"
      BY DEF SessionInv, ClosedOperations, OneReadOneWrite, WriterMatchesQueue, AliveWhileInUse
    <2>4. /\ UNCHANGED <<socket_, onmessage, onclose, alive, stack, cause, reports>>
          /\ reading[s].step # "idle" /\ rd.step # "idle" /\ rd.step # "overlap"
          /\ socket_[s] => rd.res # "aborted"
          /\ ~socket_[s] => rd.res # "pending"
      BY <1>1, <2>1, <2>2
    <2> HIDE DEF rd
    <2> QED
      BY <2>1, <2>2, <2>3, <2>4, OperationPreserves
  <1>2. CASE \/ CloseIntern(s, "bad_message", "handler", Idle, writing[s])
             \/ Failed(reading[s]) /\ CloseIntern(s, reading[s].res, "handler", Idle, writing[s])
    BY <1>2, FailedHandlerPreserves DEF HandleReadHeader
  <1> QED
    BY <1>1, <1>2 DEF HandleReadHeader

(* The handler of read_payload, up to the call of onmessage.               *)
LEMMA ReadPayloadPreserves ==
  ASSUME SessionInv, NEW s \in Session, HandleReadPayload(s)
  PROVE  SessionInv'
  <1>0. reading[s].step = "payload" /\ stack = <<>> /\ UNCHANGED <<write_queue, held, alive>>
    BY DEF HandleReadPayload
  <1>1. CASE /\ onmessage[s] \in UserHandler
             /\ reading' = [reading EXCEPT ![s] = Idle]
             /\ stack' = <<[call |-> "onmessage", s |-> s, by |-> "handler"]>>
             /\ UNCHANGED <<socket_, onmessage, onclose, writing, cause, reports>>
    <2> DEFINE f == [call |-> "onmessage", s |-> s, by |-> "handler"]
    <2> USE DEF SessionInv
    <2>1. f \in Frame /\ f.s = s /\ f.call = "onmessage" /\ f.by = "handler" /\ stack' = <<f>>
      BY <1>1 DEF Frame
    <2> HIDE DEF f
    <2>2. stack' \in Seq(Frame) /\ Len(stack') = 1 /\ stack'[1] = f
      BY <2>1
    <2>3. \A t \in Session :
            /\ Running(t, "onmessage")' <=> t = s
            /\ ~Running(t, "onclose")'
            /\ ~Running(t, "onclose")
            /\ ~Running(t, "onmessage")
            /\ OwnedByRunningHandler(t)' => t = s
      BY <1>0, <2>1, <2>2 DEF Running, OwnedByRunningHandler
    <2>4. /\ reading'[s] = Idle
          /\ \A t \in Session : t # s => reading'[t] = reading[t]
      BY <1>1 DEF TypeOK
    <2>5. TypeOK'
      BY <1>0, <1>1, <2>2, IdleOp DEF TypeOK
    <2>6. OneReadOneWrite' /\ WriterMatchesQueue' /\ ReadArmed' /\ ReadChain' /\ ClosedOperations'
      BY <1>0, <1>1, <2>3, <2>4, IdleOp DEF OneReadOneWrite, WriterMatchesQueue, ReadArmed, ReadChain,
         ClosedOperations, UserHandler
    <2>7. CloseHandlerOnce' /\ ReportedCause' /\ CloseHistory'
      BY <1>1 DEF CloseHandlerOnce, ReportedCause, CloseHistory
    <2>8. AliveWhileInUse'
      BY <1>0, <1>1, <2>3, <2>4, IdleOp DEF AliveWhileInUse
    <2>9. StackShape'
      BY <2>1, <2>2 DEF StackShape
    <2> QED
      BY <2>5, <2>6, <2>7, <2>8, <2>9
  <1>2. CASE /\ Succeeded(reading[s])
             /\ reading' = [reading EXCEPT ![s] = Begin(Idle, "header", socket_[s])]
             /\ UNCHANGED <<socket_, onmessage, onclose, writing, stack, cause, reports>>
    <2> DEFINE rd == Begin(Idle, "header", socket_[s])
    <2>1. /\ rd \in Op /\ rd.step = "header" /\ ~Succeeded(rd)
          /\ rd.res = IF socket_[s] THEN "pending" ELSE "aborted"
      BY StartedOp DEF SessionInv, Succeeded
    <2>2. /\ reading' = [reading EXCEPT ![s] = rd]
          /\ writing' = [writing EXCEPT ![s] = writing[s]]
          /\ write_queue' = [write_queue EXCEPT ![s] = write_queue[s]]
          /\ writing[s] \in Op /\ write_queue[s] \in Seq(Message)
          /\ held' \in [Session -> BOOLEAN]
      BY <1>0, <1>2 DEF SessionInv, TypeOK
    <2>3. /\ writing[s].step # "overlap"
          /\ writing[s].step # "idle" => write_queue[s] # <<>> /\ alive[s]
          /\ socket_[s] /\ write_queue[s] # <<>> => writing[s].step # "idle"
          /\ socket_[s] => writing[s].res # "aborted"
      BY DEF SessionInv, ClosedOperations, OneReadOneWrite, WriterMatchesQueue, AliveWhileInUse
    <2>4. /\ UNCHANGED <<socket_, onmessage, onclose, alive, stack, cause, reports>>
          /\ reading[s].step # "idle" /\ rd.step # "idle" /\ rd.step # "overlap"
          /\ socket_[s] => rd.res # "aborted"
          /\ ~socket_[s] => rd.res # "pending"
      BY <1>0, <1>2, <2>1, <2>2
    <2> HIDE DEF rd
    <2> QED
      BY <2>1, <2>2, <2>3, <2>4, OperationPreserves
  <1>3. CASE Failed(reading[s]) /\ CloseIntern(s, reading[s].res, "handler", Idle, writing[s])
    BY <1>0, <1>3, FailedHandlerPreserves
  <1> QED
    BY <1>1, <1>2, <1>3 DEF HandleReadPayload

(* The handlers of write_header and write_payload.                         *)
LEMMA WriteHandlerPreserves ==
  ASSUME SessionInv, NEW s \in Session, WriteHandler(s)
  PROVE  SessionInv'
  <1>0. /\ writing[s].step # "idle" /\ stack = <<>> /\ UNCHANGED <<held, alive>>
        /\ write_queue[s] # <<>> /\ write_queue[s] \in Seq(Message) /\ alive[s]
    BY DEF WriteHandler, HandleWriteHeader, HandleWritePayload, SessionInv, WriterMatchesQueue,
       AliveWhileInUse, TypeOK
  <1>1. CASE Failed(writing[s]) /\ write_queue' = write_queue
             /\ CloseIntern(s, writing[s].res, "handler", reading[s], Idle)
    BY <1>0, <1>1, FailedHandlerPreserves
  <1>2. ASSUME NEW q \in Seq(Message), NEW step \in {"header", "payload"},
               write_queue' = [write_queue EXCEPT ![s] = q],
               writing' = [writing EXCEPT ![s] = WriteNext(q, step, socket_[s])],
               UNCHANGED <<socket_, onmessage, onclose, reading, stack, cause, reports>>
        PROVE  SessionInv'
    <2> DEFINE wr == WriteNext(q, step, socket_[s])
    <2>1. /\ wr \in Op /\ wr.step # "overlap" /\ (wr.step # "idle" <=> q # <<>>)
          /\ socket_[s] => wr.res # "aborted"
      BY <1>2, IdleOp, StartedOp DEF WriteNext, SessionInv
    <2>2. /\ reading' = [reading EXCEPT ![s] = reading[s]]
          /\ writing' = [writing EXCEPT ![s] = wr]
          /\ reading[s] \in Op /\ held' \in [Session -> BOOLEAN]
      BY <1>0, <1>2 DEF SessionInv, TypeOK
    <2>3. /\ reading[s].step # "overlap"
          /\ reading[s].step = "idle" => reading[s] = Idle
          /\ socket_[s] => reading[s].res # "aborted"
          /\ ~socket_[s] => reading[s].res # "pending"
      BY DEF SessionInv, ClosedOperations, OneReadOneWrite
    <2> HIDE DEF wr
    <2> QED
      BY <1>0, <1>2, <2>1, <2>2, <2>3, OperationPreserves
  <1>3. CASE HandleWriteHeader(s)
    <2>1. write_queue' = write_queue => write_queue' = [write_queue EXCEPT ![s] = write_queue[s]]
      BY DEF SessionInv, TypeOK
    <2> QED
      BY <1>0, <1>1, <1>2, <1>3, <2>1 DEF HandleWriteHeader
  <1>4. CASE HandleWritePayload(s)
    <2>1. /\ Tail(write_queue[s]) \in Seq(Message)
          /\ [write_queue EXCEPT ![s] = Tail(@)] = [write_queue EXCEPT ![s] = Tail(write_queue[s])]
      BY <1>0
    <2> QED
      BY <1>0, <1>1, <1>2, <1>4, <2>1 DEF HandleWritePayload
  <1> QED
    BY <1>3, <1>4 DEF WriteHandler
-----------------------------------------------------------------------------
(* The methods. *)

(* send, called anywhere, on an open or a closed session.                  *)
LEMMA SendPreserves ==
  ASSUME SessionInv, NEW s \in Session, NEW m \in Message, Send(s, m)
  PROVE  SessionInv'
  <1> DEFINE q == Append(write_queue[s], m)
  <1>1. /\ write_queue[s] \in Seq(Message) /\ writing[s] \in Op /\ reading[s] \in Op
        /\ q \in Seq(Message) /\ q # <<>>
        /\ write_queue' = [write_queue EXCEPT ![s] = q]
        /\ reading' = [reading EXCEPT ![s] = reading[s]]
        /\ held' \in [Session -> BOOLEAN] /\ alive[s]
        /\ UNCHANGED <<socket_, onmessage, onclose, alive, stack, cause, reports>>
    BY DEF Send, CanCall, SessionInv, TypeOK
  <1>2. /\ reading[s].step # "overlap"
        /\ reading[s].step = "idle" => reading[s] = Idle
        /\ socket_[s] => reading[s].res # "aborted"
        /\ ~socket_[s] => reading[s].res # "pending"
        /\ writing[s].step # "overlap"
        /\ socket_[s] => writing[s].res # "aborted"
    BY DEF SessionInv, ClosedOperations, OneReadOneWrite
  <1> HIDE DEF q
  <1>3. CASE write_queue[s] = <<>>
    <2> DEFINE wr == Begin(writing[s], "header", socket_[s])
    <2>1. writing[s].step = "idle" /\ Len(write_queue[s]) = 0
      BY <1>1, <1>3 DEF SessionInv, WriterMatchesQueue
    <2>2. socket_[s] \in BOOLEAN
      BY DEF SessionInv, TypeOK
    <2>3. /\ writing' = [writing EXCEPT ![s] = wr]
          /\ wr \in Op /\ wr.step = "header" /\ (socket_[s] => wr.res # "aborted")
      <3>1. StartsWriter(Len(write_queue[s]) + 1)
        BY <2>1 DEF StartsWriter
      <3>2. writing' = [writing EXCEPT ![s] = wr]
        BY <3>1 DEF Send
      <3>3. /\ wr \in Op /\ wr.step = "header" /\ (socket_[s] => wr.res # "aborted")
        BY <1>1, <2>1, <2>2, BeginOp
      <3> QED
        BY <3>2, <3>3
    <2> HIDE DEF wr
    <2> QED
      BY <1>1, <1>2, <2>3, OperationPreserves
  <1>4. CASE write_queue[s] # <<>>
    <2>1. Len(write_queue[s]) # 0 /\ Len(write_queue[s]) \in Nat
      BY <1>1, <1>4, EmptySeq
    <2>2. writing' = [writing EXCEPT ![s] = writing[s]]
      BY <2>1 DEF Send, StartsWriter, SessionInv, TypeOK
    <2>3. socket_[s] => writing[s].step # "idle"
      BY <1>4 DEF SessionInv, WriterMatchesQueue
    <2> QED
      BY <1>1, <1>2, <2>2, <2>3, OperationPreserves
  <1> QED
    BY <1>3, <1>4

(* User code drops its pointer.                                            *)
LEMMA ReleasePreserves ==
  ASSUME SessionInv, NEW s \in Session, Release(s)
  PROVE  SessionInv'
  <1> USE DEF SessionInv
  <1>1. TypeOK'
    BY DEF Release, TypeOK
  <1>2. UNCHANGED <<socket_, onmessage, onclose, write_queue, reading, writing,
                    alive, stack, cause, reports>>
    BY DEF Release
  <1> HIDE DEF SessionInv
  <1>3. OneReadOneWrite' /\ WriterMatchesQueue'
    BY <1>2 DEF SessionInv, OneReadOneWrite, WriterMatchesQueue
  <1>4. ReadArmed' /\ ReadChain'
    BY <1>2 DEF SessionInv, ReadArmed, ReadChain, Running
  <1>5. CloseHandlerOnce' /\ ReportedCause' /\ CloseHistory'
    BY <1>2 DEF SessionInv, CloseHandlerOnce, ReportedCause, CloseHistory
  <1>6. AliveWhileInUse'
    BY <1>2 DEF SessionInv, AliveWhileInUse, OwnedByRunningHandler
  <1>7. StackShape'
    BY <1>2 DEF SessionInv, StackShape
  <1>8. ClosedOperations'
    BY <1>2 DEF SessionInv, ClosedOperations, Running, Succeeded
  <1> QED
    BY <1>1, <1>3, <1>4, <1>5, <1>6, <1>7, <1>8 DEF SessionInv

(* close, called anywhere, also from a callback.                           *)
LEMMA ClosePreserves ==
  ASSUME SessionInv, NEW s \in Session, Close(s)
  PROVE  SessionInv'
  BY ClosingPreserves DEF Close, Error

(* set_onmessage, which starts the read chain.                             *)
LEMMA SetOnMessagePreserves ==
  ASSUME SessionInv, NEW s \in Session, NEW handler \in UserHandler, SetOnMessage(s, handler)
  PROVE  SessionInv'
  <1> USE DEF SessionInv
  <1> DEFINE rd == Begin(reading[s], "header", socket_[s])
  <1>1. /\ alive[s] /\ onmessage[s] = "unset" /\ handler # "unset" /\ handler \in Handler
        /\ onmessage' = [onmessage EXCEPT ![s] = handler]
        /\ reading' = [reading EXCEPT ![s] = rd]
        /\ UNCHANGED <<socket_, onclose, write_queue, writing, held, alive, stack, cause, reports>>
    BY DEF SetOnMessage, CanCall, UserHandler, Handler
  <1>2. reading[s].step = "idle" /\ ~Running(s, "onmessage")
    BY <1>1 DEF ReadChain
  <1>3. /\ rd \in Op /\ rd.step = "header" /\ ~Succeeded(rd)
        /\ socket_[s] => rd.res # "aborted"
        /\ ~socket_[s] => rd.res # "pending"
    <2>1. socket_[s] \in BOOLEAN /\ reading[s] \in Op
      BY DEF TypeOK
    <2> QED
      BY <1>2, <2>1, BeginOp DEF Succeeded
  <1> HIDE DEF rd
  <1>r. \A t \in Session : Running(t, "onmessage")' = Running(t, "onmessage")
                           /\ Running(t, "onclose")' = Running(t, "onclose")
                           /\ OwnedByRunningHandler(t)' = OwnedByRunningHandler(t)
    BY <1>1 DEF Running, OwnedByRunningHandler
  <1>0. /\ reading'[s] = rd /\ onmessage'[s] = handler
        /\ \A t \in Session : t # s => reading'[t] = reading[t] /\ onmessage'[t] = onmessage[t]
    BY <1>1 DEF TypeOK
  <1>4. TypeOK'
    BY <1>1, <1>3 DEF TypeOK
  <1>5. OneReadOneWrite' /\ WriterMatchesQueue' /\ ReadArmed'
    BY <1>1, <1>3, <1>0, <1>r DEF OneReadOneWrite, WriterMatchesQueue, ReadArmed
  <1>6. CloseHandlerOnce' /\ ReportedCause' /\ CloseHistory' /\ StackShape'
    BY <1>1 DEF CloseHandlerOnce, ReportedCause, CloseHistory, StackShape
  <1>7. AliveWhileInUse' /\ ReadChain'
    BY <1>1, <1>2, <1>3, <1>0, <1>r DEF AliveWhileInUse, ReadChain
  <1>8. ClosedOperations'
    BY <1>1, <1>3, <1>0, <1>r DEF ClosedOperations
  <1> QED
    BY <1>4, <1>5, <1>6, <1>7, <1>8

(* set_onclose, which calls the handler at once on a closed session.       *)
LEMMA SetOnClosePreserves ==
  ASSUME SessionInv, NEW s \in Session, NEW handler \in UserHandler, SetOnClose(s, handler)
  PROVE  SessionInv'
  <1> USE DEF SessionInv
  <1> DEFINE f == [call |-> "late", s |-> s, by |-> "user"]
  <1>1. /\ onclose[s] = "unset" /\ handler \notin {"unset", "noop"} /\ handler \in Handler
        /\ onclose' = [onclose EXCEPT ![s] = handler]
        /\ UNCHANGED <<socket_, onmessage, write_queue, reading, writing, held, alive, cause>>
        /\ reports[s] = <<>> /\ stack \in Seq(Frame)
    BY DEF SetOnClose, UserHandler, Handler, CloseHistory, TypeOK
  <1>2. onclose' \in [Session -> Handler] /\ onclose'[s] = handler
        /\ \A t \in Session : t # s => onclose'[t] = onclose[t]
    BY <1>1 DEF TypeOK
  <1>3. \A i \in 1 .. Len(stack) : /\ stack[i].s \in Session
                                   /\ stack[i].call = "onclose" => stack[i].s # s
    <2>1. \A i \in 1 .. Len(stack) : stack[i] \in Frame
      BY <1>1
    <2> QED
      BY <1>1, <2>1 DEF Frame, StackShape
  <1>4. CASE socket_[s] /\ UNCHANGED <<stack, reports>>
    <2>1. TypeOK'
      BY <1>1, <1>2, <1>4 DEF TypeOK
    <2>2. StackShape'
      BY <1>1, <1>2, <1>3, <1>4 DEF StackShape
    <2>3. CloseHandlerOnce' /\ ReportedCause' /\ CloseHistory'
      BY <1>1, <1>2, <1>4 DEF CloseHandlerOnce, ReportedCause, CloseHistory
    <2> QED
      BY <1>1, <1>4, <2>1, <2>2, <2>3 DEF OneReadOneWrite, WriterMatchesQueue, ReadArmed,
         AliveWhileInUse, ReadChain, ClosedOperations, Running, OwnedByRunningHandler
  <1>5. CASE /\ ~socket_[s] /\ stack' = <<f>> \o stack
             /\ reports' = [reports EXCEPT ![s] = Append(reports[s], "success")]
    <2>1. f \in Frame /\ f.s = s /\ f.call = "late" /\ f.by = "user"
      BY DEF Frame
    <2> HIDE DEF f
    <2>2. /\ stack' \in Seq(Frame) /\ Len(stack') = Len(stack) + 1 /\ stack'[1] = f /\ Len(stack) \in Nat
          /\ \A i \in 2 .. Len(stack) + 1 : /\ i - 1 \in 1 .. Len(stack)
                                            /\ stack'[i] = stack[i - 1]
      BY <1>1, <1>5, <2>1, PushFrame
    <2>3. \A t \in Session : /\ Running(t, "onmessage")' <=> Running(t, "onmessage")
                             /\ Running(t, "onclose")' <=> Running(t, "onclose")
                             /\ OwnedByRunningHandler(t)' => OwnedByRunningHandler(t)
      BY <1>1, <1>5, <2>1, PushRunning, PushOwned
    <2>4. /\ reports' \in [Session -> Seq(Error)]
          /\ Len(reports'[s]) <= 1 /\ Len(reports'[s]) = 1
          /\ \A t \in Session : t # s => reports'[t] = reports[t]
      <3>1. /\ Append(reports[s], "success") \in Seq(Error)
            /\ Len(Append(reports[s], "success")) <= 1 /\ Len(Append(reports[s], "success")) = 1
        BY <1>1 DEF TypeOK, Error
      <3> QED
        BY <1>5, <3>1 DEF TypeOK
    <2>5. TypeOK'
      BY <1>1, <1>2, <2>2, <2>4 DEF TypeOK
    <2>6. CloseHandlerOnce' /\ ReportedCause' /\ CloseHistory'
      BY <1>1, <1>2, <1>5, <2>4 DEF CloseHandlerOnce, ReportedCause, CloseHistory
    <2>7. StackShape'
      <3>1. ASSUME NEW i \in 1 .. Len(stack')
            PROVE  /\ stack'[i].by = "handler" => i = Len(stack')
                   /\ stack'[i].call = "onmessage" => stack'[i].by = "handler"
                   /\ stack'[i].call = "onclose" =>
                        /\ ~socket_'[stack'[i].s]
                        /\ onclose'[stack'[i].s] # "unset"
                        /\ reports'[stack'[i].s] = <<cause'[stack'[i].s]>>
        <4>1. CASE i = 1
          BY <2>1, <2>2, <4>1
        <4>2. CASE i # 1
          <5>1. PICK k \in 1 .. Len(stack) : stack'[i] = stack[k] /\ i = k + 1
            BY <2>2, <4>2
          <5>2. /\ stack[k].by = "handler" => k = Len(stack)
                /\ stack[k].call = "onmessage" => stack[k].by = "handler"
                /\ stack[k].call = "onclose" =>
                     /\ stack[k].s \in Session /\ stack[k].s # s /\ ~socket_[stack[k].s]
                     /\ onclose[stack[k].s] # "unset"
                     /\ reports[stack[k].s] = <<cause[stack[k].s]>>
            BY <1>3 DEF StackShape
          <5> QED
            BY <1>1, <1>2, <2>2, <2>4, <5>1, <5>2
        <4> QED
          BY <4>1, <4>2
      <3>2. ASSUME NEW i \in 1 .. Len(stack'), NEW j \in 1 .. Len(stack'),
                   stack'[i].call = "onclose", stack'[j].call = "onclose",
                   stack'[i].s = stack'[j].s
            PROVE  i = j
        <4>1. i # 1 /\ j # 1
          BY <2>1, <2>2, <3>2
        <4>2. /\ i - 1 \in 1 .. Len(stack) /\ stack'[i] = stack[i - 1]
              /\ j - 1 \in 1 .. Len(stack) /\ stack'[j] = stack[j - 1]
          BY <2>2, <4>1
        <4>3. i - 1 = j - 1
          BY <3>2, <4>2 DEF StackShape
        <4> QED
          BY <2>2, <4>3
      <3> QED
        BY <3>1, <3>2 DEF StackShape
    <2>8. OneReadOneWrite' /\ WriterMatchesQueue' /\ ReadArmed' /\ AliveWhileInUse' /\ ReadChain'
          /\ ClosedOperations'
      BY <1>1, <2>3 DEF OneReadOneWrite, WriterMatchesQueue, ReadArmed, AliveWhileInUse, ReadChain,
         ClosedOperations
    <2> QED
      BY <2>5, <2>6, <2>7, <2>8
  <1> QED
    BY <1>4, <1>5 DEF SetOnClose
-----------------------------------------------------------------------------
(* Returning from callbacks. *)

(* The frames below the innermost one are not affected by its return.      *)
LEMMA PopShape ==
  ASSUME SessionInv, stack # <<>>, stack' = Tail(stack), UNCHANGED <<socket_, cause, reports>>,
         \A t \in Session : onclose[t] # "unset" => onclose'[t] # "unset"
  PROVE  /\ StackShape'
         /\ Head(stack) = stack[1] /\ Head(stack) \in Frame /\ Head(stack).s \in Session
         /\ Len(stack) \in Nat \ {0} /\ stack' \in Seq(Frame)
  <1> USE DEF SessionInv
  <1>1. /\ stack \in Seq(Frame) /\ stack' \in Seq(Frame)
        /\ Len(stack) \in Nat \ {0} /\ Len(stack') = Len(stack) - 1
        /\ Head(stack) = stack[1] /\ Head(stack) \in Frame
        /\ \A i \in 1 .. Len(stack') : stack'[i] = stack[i + 1]
    BY PopFrame DEF TypeOK
  <1>2. \A i \in 1 .. Len(stack) : stack[i].s \in Session
    <2>1. \A i \in 1 .. Len(stack) : stack[i] \in Frame
      BY <1>1
    <2> QED
      BY <2>1 DEF Frame
  <1>3. ASSUME NEW i \in 1 .. Len(stack')
        PROVE  /\ stack'[i].by = "handler" => i = Len(stack')
               /\ stack'[i].call = "onmessage" => stack'[i].by = "handler"
               /\ stack'[i].call = "onclose" =>
                    /\ ~socket_'[stack'[i].s]
                    /\ onclose'[stack'[i].s] # "unset"
                    /\ reports'[stack'[i].s] = <<cause'[stack'[i].s]>>
    <2>1. i + 1 \in 1 .. Len(stack) /\ stack'[i] = stack[i + 1]
      BY <1>1
    <2>2. /\ stack[i + 1].by = "handler" => i + 1 = Len(stack)
          /\ stack[i + 1].call = "onmessage" => stack[i + 1].by = "handler"
          /\ stack[i + 1].call = "onclose" =>
               /\ stack[i + 1].s \in Session /\ ~socket_[stack[i + 1].s]
               /\ onclose[stack[i + 1].s] # "unset"
               /\ reports[stack[i + 1].s] = <<cause[stack[i + 1].s]>>
      BY <1>2, <2>1 DEF StackShape
    <2>3. i + 1 = Len(stack) => i = Len(stack')
      <3>1. \A a, b, c \in Int : a = b - 1 /\ c + 1 = b => c = a
        OBVIOUS
      <3>2. i \in Int /\ Len(stack) \in Int /\ Len(stack') \in Int /\ Len(stack') = Len(stack) - 1
        BY <1>1
      <3> QED
        BY <3>1, <3>2, Zenon
    <2> DEFINE k == stack[i + 1]
    <2>4. stack'[i] = k
      BY <2>1
    <2>5. k.call = "onclose" => /\ ~socket_'[k.s] /\ onclose'[k.s] # "unset"
                                /\ reports'[k.s] = <<cause'[k.s]>>
      BY <2>2
    <2> HIDE DEF k
    <2> QED
      BY <2>2, <2>3, <2>4, <2>5 DEF k
  <1>4. ASSUME NEW i \in 1 .. Len(stack'), NEW j \in 1 .. Len(stack'),
               stack'[i].call = "onclose", stack'[j].call = "onclose", stack'[i].s = stack'[j].s
        PROVE  i = j
    <2>1. /\ i + 1 \in 1 .. Len(stack) /\ stack'[i] = stack[i + 1]
          /\ j + 1 \in 1 .. Len(stack) /\ stack'[j] = stack[j + 1]
      BY <1>1
    <2>2. i + 1 = j + 1
      BY <1>4, <2>1 DEF StackShape
    <2> QED
      BY <1>1, <2>2
  <1> QED
    BY <1>1, <1>2, <1>3, <1>4 DEF StackShape, Frame

(* The rest of close_intern after onclose, on a live or a dead session.    *)
LEMMA ReturnFromOnClosePreserves ==
  ASSUME SessionInv, ReturnFromOnClose
  PROVE  SessionInv'
  <1> USE DEF SessionInv
  <1> DEFINE s == Head(stack).s
  <1>1. /\ stack # <<>> /\ stack' = Tail(stack) /\ Head(stack).call = "onclose"
        /\ UNCHANGED <<socket_, write_queue, reading, writing, held, alive, cause, reports>>
    BY DEF ReturnFromOnClose
  <1>2. /\ alive[s] => /\ onclose' = [onclose EXCEPT ![s] = "noop"]
                       /\ onmessage' = [onmessage EXCEPT ![s] = Removed(onmessage[s])]
        /\ ~alive[s] => UNCHANGED <<onmessage, onclose>>
    BY DEF ReturnFromOnClose
  <1>3. \A t \in Session : onclose[t] # "unset" => onclose'[t] # "unset"
    BY <1>2 DEF TypeOK
  <1>4. StackShape' /\ Head(stack) = stack[1] /\ s \in Session /\ stack' \in Seq(Frame)
        /\ Len(stack) \in Nat \ {0}
    BY <1>1, <1>3, PopShape
  <1>5. /\ ~socket_[s] /\ reports[s] = <<cause[s]>> /\ onclose[s] # "unset"
    <2>1. 1 \in 1 .. Len(stack) /\ stack[1].call = "onclose" /\ stack[1].s = s
      BY <1>1, <1>4
    <2>2. \A i \in 1 .. Len(stack) : stack[i].call = "onclose" =>
            /\ ~socket_[stack[i].s] /\ onclose[stack[i].s] # "unset"
            /\ reports[stack[i].s] = <<cause[stack[i].s]>>
      BY DEF StackShape
    <2> QED
      BY <2>1, <2>2
  <1>6. \A t \in Session :
          /\ Running(t, "onmessage")' <=> Running(t, "onmessage")
          /\ t # s => (Running(t, "onclose")' <=> Running(t, "onclose"))
          /\ OwnedByRunningHandler(t)' => OwnedByRunningHandler(t)
    BY <1>1, PopRunning, PopOwned DEF TypeOK
  <1> HIDE DEF s
  <1>7. /\ \A t \in Session : t # s => onclose'[t] = onclose[t] /\ onmessage'[t] = onmessage[t]
        /\ alive[s] => onclose'[s] = "noop" /\ onmessage'[s] \notin UserHandler
        /\ ~alive[s] => onclose'[s] = onclose[s] /\ onmessage'[s] = onmessage[s]
        /\ onmessage'[s] = "unset" <=> onmessage[s] = "unset"
    BY <1>2, <1>4 DEF TypeOK, Removed, UserHandler
  <1>8. TypeOK'
    <2>1. onclose' \in [Session -> Handler] /\ onmessage' \in [Session -> Handler]
      BY <1>2, <1>4 DEF TypeOK, Removed, Handler
    <2> QED
      BY <1>1, <1>4, <2>1 DEF TypeOK
  <1>9. OneReadOneWrite' /\ WriterMatchesQueue' /\ ReadArmed' /\ AliveWhileInUse' /\ ReadChain'
    BY <1>1, <1>5, <1>6, <1>7 DEF OneReadOneWrite, WriterMatchesQueue, ReadArmed, AliveWhileInUse,
       ReadChain
  <1>10. ClosedOperations'
    <2>1. ~alive[s] => reading[s].step = "idle"
      BY <1>4 DEF AliveWhileInUse
    <2> QED
      BY <1>1, <1>6, <1>7, <2>1 DEF ClosedOperations
  <1>11. CloseHandlerOnce' /\ ReportedCause' /\ CloseHistory'
    BY <1>1, <1>4, <1>5, <1>7 DEF CloseHandlerOnce, ReportedCause, CloseHistory
  <1> QED
    BY <1>4, <1>8, <1>9, <1>10, <1>11

(* The return to set_onclose.                                              *)
LEMMA ReturnFromLateOnClosePreserves ==
  ASSUME SessionInv, ReturnFromLateOnClose
  PROVE  SessionInv'
  <1> USE DEF SessionInv
  <1>1. /\ stack # <<>> /\ stack' = Tail(stack) /\ Head(stack).call = "late"
        /\ UNCHANGED <<socket_, onmessage, onclose, write_queue, reading, writing, held, alive,
                       cause, reports>>
    BY DEF ReturnFromLateOnClose
  <1>2. StackShape' /\ stack' \in Seq(Frame)
    BY <1>1, PopShape
  <1>3. \A t \in Session :
          /\ Running(t, "onmessage")' <=> Running(t, "onmessage")
          /\ Running(t, "onclose")' <=> Running(t, "onclose")
          /\ OwnedByRunningHandler(t)' => OwnedByRunningHandler(t)
    BY <1>1, PopRunning, PopOwned DEF TypeOK
  <1>4. TypeOK'
    BY <1>1, <1>2 DEF TypeOK
  <1> QED
    BY <1>1, <1>2, <1>3, <1>4 DEF OneReadOneWrite, WriterMatchesQueue, ReadArmed, AliveWhileInUse,
       ReadChain, ClosedOperations, CloseHandlerOnce, ReportedCause, CloseHistory

(* The read_header after onmessage, also when that closed the session.     *)
LEMMA ReturnFromOnMessagePreserves ==
  ASSUME SessionInv, ReturnFromOnMessage
  PROVE  SessionInv'
  <1> USE DEF SessionInv
  <1> DEFINE s == Head(stack).s
             rd == Begin(reading[s], "header", socket_[s])
  <1>1. /\ stack # <<>> /\ stack' = Tail(stack) /\ Head(stack).call = "onmessage"
        /\ reading' = [reading EXCEPT ![s] = rd]
        /\ UNCHANGED <<socket_, onmessage, onclose, write_queue, writing, held, alive, cause, reports>>
    BY DEF ReturnFromOnMessage
  <1>2. StackShape' /\ Head(stack) = stack[1] /\ s \in Session /\ stack' \in Seq(Frame)
        /\ Len(stack) \in Nat \ {0}
    BY <1>1, PopShape
  <1>3. Len(stack) = 1 /\ stack[1].by = "handler"
    <2>1. 1 \in 1 .. Len(stack) /\ stack[1].call = "onmessage"
      BY <1>1, <1>2
    <2>2. \A i \in 1 .. Len(stack) :
            /\ stack[i].by = "handler" => i = Len(stack)
            /\ stack[i].call = "onmessage" => stack[i].by = "handler"
      BY DEF StackShape
    <2> QED
      BY <2>1, <2>2
  <1>4. Running(s, "onmessage") /\ alive[s] /\ reading[s].step = "idle" /\ onmessage[s] # "unset"
    <2>1. Running(s, "onmessage") /\ OwnedByRunningHandler(s)
      BY <1>1, <1>2, <1>3 DEF Running, OwnedByRunningHandler
    <2> QED
      BY <1>2, <2>1 DEF AliveWhileInUse, ReadChain
  <1>5. Len(stack') = 0
    BY <1>1, <1>2, <1>3, PopFrame DEF TypeOK
  <1>6. \A t \in Session :
          /\ ~Running(t, "onmessage")' /\ ~Running(t, "onclose")' /\ ~OwnedByRunningHandler(t)'
          /\ ~Running(t, "onclose")
          /\ t # s => ~Running(t, "onmessage")
    BY <1>1, <1>2, <1>3, <1>5 DEF Running, OwnedByRunningHandler
  <1>7. /\ rd \in Op /\ rd.step = "header" /\ ~Succeeded(rd)
        /\ socket_[s] => rd.res # "aborted"
        /\ ~socket_[s] => rd.res # "pending"
    <2>1. socket_[s] \in BOOLEAN /\ reading[s] \in Op
      BY <1>2 DEF TypeOK
    <2> QED
      BY <1>4, <2>1, BeginOp DEF Succeeded
  <1>8. /\ reading'[s] = rd /\ reading' \in [Session -> Op]
        /\ \A t \in Session : t # s => reading'[t] = reading[t]
    BY <1>1, <1>2, <1>7 DEF TypeOK
  <1> HIDE DEF s, rd
  <1>9. TypeOK'
    BY <1>1, <1>2, <1>8 DEF TypeOK
  <1>10. OneReadOneWrite' /\ WriterMatchesQueue' /\ ReadArmed' /\ AliveWhileInUse' /\ ReadChain'
    BY <1>1, <1>4, <1>6, <1>7, <1>8 DEF OneReadOneWrite, WriterMatchesQueue, ReadArmed,
       AliveWhileInUse, ReadChain
  <1>11. ClosedOperations'
    BY <1>1, <1>6, <1>7, <1>8 DEF ClosedOperations
  <1>12. CloseHandlerOnce' /\ ReportedCause' /\ CloseHistory'
    BY <1>1 DEF CloseHandlerOnce, ReportedCause, CloseHistory
  <1> QED
    BY <1>2, <1>9, <1>10, <1>11, <1>12
-----------------------------------------------------------------------------
(* The invariant. *)

(* Fresh sessions, open or not, satisfy the invariant.                     *)
LEMMA InitSessionInv == Init => SessionInv
  <1> SUFFICES ASSUME Init PROVE SessionInv
    OBVIOUS
  <1>1. stack = <<>> /\ Len(stack) = 0
    BY DEF Init
  <1>2. \A s \in Session : ~OwnedByRunningHandler(s) /\ ~Running(s, "onmessage")
    BY <1>1 DEF OwnedByRunningHandler, Running
  <1>3. TypeOK
    BY IdleOp DEF Init, TypeOK, Handler
  <1>4. CloseHandlerOnce
    <2>1. \A s \in Session : reports[s] = <<>> /\ onclose[s] = "unset"
      BY DEF Init
    <2>2. \A r : r = <<>> => Len(r) <= 1
      OBVIOUS
    <2> QED
      BY <2>1, <2>2 DEF CloseHandlerOnce
  <1>5. StackShape
    BY <1>1 DEF StackShape
  <1>6. OneReadOneWrite /\ WriterMatchesQueue /\ ReadArmed /\ AliveWhileInUse
    BY <1>2, IdleOp DEF Init, OneReadOneWrite, WriterMatchesQueue, ReadArmed, AliveWhileInUse
  <1>7. ReportedCause /\ ReadChain /\ ClosedOperations /\ CloseHistory
    BY <1>2, IdleOp DEF Init, ReportedCause, ReadChain, ClosedOperations, CloseHistory
  <1> QED
    BY <1>3, <1>4, <1>5, <1>6, <1>7 DEF SessionInv

(* Every step of every session preserves the invariant of all of them.     *)
LEMMA StepSessionInv == SessionInv /\ [Next]_vars => SessionInv'
  <1> SUFFICES ASSUME SessionInv, [Next]_vars PROVE SessionInv'
    OBVIOUS
  <1>1. ASSUME NEW s \in Session, Destroy(s) PROVE SessionInv'
    BY <1>1, ClosingPreserves DEF Destroy, Error
  <1>2. ASSUME NEW s \in Session, User(s) PROVE SessionInv'
    BY <1>2, SendPreserves, SetOnClosePreserves, SetOnMessagePreserves, ClosePreserves,
       ReleasePreserves DEF User
  <1>3. ASSUME NEW s \in Session, Kernel(s) PROVE SessionInv'
    BY <1>3, KernelPreserves
  <1>4. ASSUME NEW s \in Session, IoContext(s) PROVE SessionInv'
    BY <1>4, ReadHeaderPreserves, ReadPayloadPreserves, WriteHandlerPreserves
       DEF IoContext, ReadHandler
  <1>5. CASE Return
    BY <1>5, ReturnFromOnClosePreserves, ReturnFromLateOnClosePreserves, ReturnFromOnMessagePreserves
       DEF Return
  <1>6. CASE UNCHANGED vars
    BY <1>6 DEF vars, SessionInv, TypeOK, OneReadOneWrite, WriterMatchesQueue, ReadArmed,
       CloseHandlerOnce, ReportedCause, AliveWhileInUse, StackShape, ReadChain, ClosedOperations,
       CloseHistory, Running, OwnedByRunningHandler, Succeeded
  <1> QED
    BY <1>1, <1>2, <1>3, <1>4, <1>5, <1>6 DEF Next

(* All the safety invariants of a session hold, with what makes them       *)
(* inductive, whatever the users of any number of sessions do in and       *)
(* outside of their callbacks.                                             *)
THEOREM SessionInvariant == Spec => []SessionInv
  <1> QED
    BY InitSessionInv, StepSessionInv, PTL DEF Spec

(* The states of the model are what they are meant to be.                  *)
THEOREM SessionTypeOK == Spec => []TypeOK
  <1>1. SessionInv => TypeOK
    BY DEF SessionInv
  <1> QED
    BY <1>1, SessionInvariant, PTL

(* message_to_read and the stream never serve two reads, or two writes.    *)
THEOREM OneReadOneWriteAlways == Spec => []OneReadOneWrite
  <1>1. SessionInv => OneReadOneWrite
    BY DEF SessionInv
  <1> QED
    BY <1>1, SessionInvariant, PTL

(* No message waits in the queue of an open session without a writer, and  *)
(* a writer always has a message.                                          *)
THEOREM WriterMatchesQueueAlways == Spec => []WriterMatchesQueue
  <1>1. SessionInv => WriterMatchesQueue
    BY DEF SessionInv
  <1> QED
    BY <1>1, SessionInvariant, PTL

(* An open session with a message handler never stops reading.             *)
THEOREM ReadArmedAlways == Spec => []ReadArmed
  <1>1. SessionInv => ReadArmed
    BY DEF SessionInv
  <1> QED
    BY <1>1, SessionInvariant, PTL

(* The close handler is called once, neither less nor more.                *)
THEOREM CloseHandlerOnceAlways == Spec => []CloseHandlerOnce
  <1>1. SessionInv => CloseHandlerOnce
    BY DEF SessionInv
  <1> QED
    BY <1>1, SessionInvariant, PTL

(* It is called with the error that closed the session.                    *)
THEOREM ReportedCauseAlways == Spec => []ReportedCause
  <1>1. SessionInv => ReportedCause
    BY DEF SessionInv
  <1> QED
    BY <1>1, SessionInvariant, PTL

(* No buffer and no running completion handler outlives its session.       *)
THEOREM AliveWhileInUseAlways == Spec => []AliveWhileInUse
  <1>1. SessionInv => AliveWhileInUse
    BY DEF SessionInv
  <1> QED
    BY <1>1, SessionInvariant, PTL
-----------------------------------------------------------------------------
(* The action properties. *)

(* close_intern changes neither the queue nor onclose, starts no message   *)
(* handler, and replaces one only as it closes the session.                *)
LEMMA CloseInternEffect ==
  ASSUME TypeOK, NEW s \in Session, NEW err, NEW by \in {"handler", "user", "destructor"},
         NEW rd, NEW wr, CloseIntern(s, err, by, rd, wr), NEW t \in Session
  PROVE  /\ onclose' = onclose
         /\ Running(t, "onmessage")' => Running(t, "onmessage")
         /\ onmessage'[t] = onmessage[t] \/ ~socket_'[t]
  <1> DEFINE f == [call |-> "onclose", s |-> s, by |-> by]
  <1>1. onclose' = onclose
    BY DEF CloseIntern
  <1>2. stack' = stack \/ stack' = <<f>> \o stack
    BY DEF CloseIntern
  <1>3. f \in Frame /\ f.call # "onmessage" /\ stack \in Seq(Frame)
    BY DEF Frame, TypeOK
  <1>4. Running(t, "onmessage")' => Running(t, "onmessage")
    <2>1. CASE stack' = stack
      BY <2>1 DEF Running
    <2>2. CASE stack' = <<f>> \o stack
      <3> HIDE DEF f
      <3> QED
        BY <1>3, <2>2, PushRunning
    <2> QED
      BY <1>2, <2>1, <2>2
  <1>5. onmessage'[t] = onmessage[t] \/ ~socket_'[t]
    BY DEF CloseIntern, TypeOK
  <1> QED
    BY <1>1, <1>4, <1>5

(* The queue changes at its end, or once the front has been written. *)
LEMMA QueueStep ==
  ASSUME SessionInv, [Next]_vars, NEW s \in Session,
         writing[s].step # "idle", ~(writing[s].step = "payload" /\ Succeeded(writing[s]))
  PROVE  write_queue'[s] # <<>> /\ Head(write_queue'[s]) = Head(write_queue[s])
  <1>0. /\ write_queue[s] # <<>> /\ write_queue[s] \in Seq(Message)
        /\ write_queue \in [Session -> Seq(Message)]
    BY DEF SessionInv, WriterMatchesQueue, TypeOK
  <1>1. ASSUME NEW t \in Session, NEW m \in Message, Send(t, m)
        PROVE  write_queue'[s] # <<>> /\ Head(write_queue'[s]) = Head(write_queue[s])
    <2>1. /\ Append(write_queue[s], m) # <<>>
          /\ Head(Append(write_queue[s], m)) = Head(write_queue[s])
      BY <1>0
    <2> QED
      BY <1>0, <1>1, <2>1 DEF Send
  <1>2. ASSUME NEW t \in Session, HandleWritePayload(t)
        PROVE  write_queue'[s] = write_queue[s]
    <2>1. CASE t = s
      BY <1>2, <2>1 DEF HandleWritePayload
    <2>2. CASE t # s
      BY <1>0, <1>2, <2>2 DEF HandleWritePayload
    <2> QED
      BY <2>1, <2>2
  <1>3. CASE write_queue' = write_queue
    BY <1>0, <1>3
  <1> QED
    BY <1>0, <1>1, <1>2, <1>3 DEF Next, vars, User, Kernel, IoContext, ReadHandler, WriteHandler, Return,
       Destroy, SetOnClose, SetOnMessage, Close, Release, ReadDone, WriteDone, HandleReadHeader,
       HandleReadPayload, HandleWriteHeader, ReturnFromOnClose, ReturnFromLateOnClose,
       ReturnFromOnMessage

(* async_write never reads from a message that was popped or replaced.     *)
THEOREM QueueFrontStableAlways == Spec => QueueFrontStable
  <1>1. SessionInv /\ [Next]_vars =>
          [\A s \in Session :
             writing[s].step # "idle" /\ ~(writing[s].step = "payload" /\ Succeeded(writing[s]))
               => write_queue'[s] # <<>> /\ Head(write_queue'[s]) = Head(write_queue[s])]_vars
    BY QueueStep
  <1> QED
    BY <1>1, SessionInvariant, PTL DEF Spec, QueueFrontStable

(* A message handler starts only in the handler of a payload's read. *)
LEMMA DeliveryStep ==
  ASSUME SessionInv, [Next]_vars, NEW s \in Session,
         ~Running(s, "onmessage"), Running(s, "onmessage")'
  PROVE  socket_[s]
  <1>t. TypeOK /\ stack \in Seq(Frame)
    BY DEF SessionInv, TypeOK
  <1>1. ASSUME NEW t \in Session, HandleReadPayload(t), onmessage[t] \in UserHandler,
               Succeeded(reading[t]),
               stack' = <<[call |-> "onmessage", s |-> t, by |-> "handler"]>>
        PROVE  socket_[s]
    <2> DEFINE f == [call |-> "onmessage", s |-> t, by |-> "handler"]
    <2>1. f \in Frame /\ f.s = t /\ stack' = <<f>> /\ stack = <<>>
      BY <1>1 DEF Frame, HandleReadPayload
    <2> HIDE DEF f
    <2>2. Len(stack') = 1 /\ stack'[1] = f
      BY <2>1
    <2>3. s = t
      BY <2>1, <2>2 DEF Running
    <2>4. ~Running(t, "onclose") /\ reading[t].step # "idle"
      BY <1>1, <2>1 DEF Running, HandleReadPayload
    <2> QED
      BY <1>1, <2>3, <2>4 DEF SessionInv, ClosedOperations
  <1>2. ASSUME NEW t \in Session, NEW err, NEW by \in {"handler", "user", "destructor"},
               NEW rd, NEW wr, CloseIntern(t, err, by, rd, wr)
        PROVE  FALSE
    BY <1>t, <1>2, CloseInternEffect
  <1>3. ASSUME stack' = stack PROVE FALSE
    BY <1>3 DEF Running
  <1>4. ASSUME stack # <<>>, stack' = Tail(stack) PROVE FALSE
    BY <1>t, <1>4, PopRunning
  <1>5. ASSUME NEW t \in Session, NEW h \in UserHandler, SetOnClose(t, h) PROVE FALSE
    <2> DEFINE f == [call |-> "late", s |-> t, by |-> "user"]
    <2>1. f \in Frame /\ f.call # "onmessage"
      BY DEF Frame
    <2>2. stack' = stack \/ stack' = <<f>> \o stack
      BY <1>5 DEF SetOnClose
    <2> HIDE DEF f
    <2> QED
      BY <1>t, <1>3, <2>1, <2>2, PushRunning
  <1>6. ASSUME NEW t \in Session, IoContext(t) PROVE socket_[s]
    BY <1>1, <1>2, <1>3, <1>6 DEF IoContext, ReadHandler, WriteHandler, HandleReadHeader,
       HandleReadPayload, HandleWriteHeader, HandleWritePayload
  <1>7. ASSUME NEW t \in Session, User(t) PROVE FALSE
    BY <1>2, <1>3, <1>5, <1>7 DEF User, Send, SetOnMessage, Close, Release
  <1>8. ASSUME NEW t \in Session, Destroy(t) PROVE FALSE
    BY <1>2, <1>8 DEF Destroy
  <1>9. ASSUME NEW t \in Session, Kernel(t) PROVE FALSE
    BY <1>3, <1>9 DEF Kernel, ReadDone, WriteDone
  <1>10. CASE Return
    BY <1>4, <1>10 DEF Return, ReturnFromOnClose, ReturnFromLateOnClose, ReturnFromOnMessage
  <1>11. CASE UNCHANGED vars
    BY <1>3, <1>11 DEF vars
  <1> QED
    BY <1>6, <1>7, <1>8, <1>9, <1>10, <1>11 DEF Next

(* Once a session is closed its message handler is never started again.    *)
THEOREM NoDeliveryAfterCloseAlways == Spec => NoDeliveryAfterClose
  <1>1. SessionInv /\ [Next]_vars =>
          [\A s \in Session :
             ~Running(s, "onmessage") /\ Running(s, "onmessage")' => socket_[s]]_vars
    BY DeliveryStep
  <1> QED
    BY <1>1, SessionInvariant, PTL DEF Spec, NoDeliveryAfterClose

(* No step assigns to a handler that runs, but for onmessage of a session  *)
(* that the step leaves closed.                                            *)
LEMMA HandlerStep ==
  ASSUME SessionInv, [Next]_vars, NEW s \in Session
  PROVE  /\ Running(s, "onclose") /\ Running(s, "onclose")' => onclose'[s] = onclose[s]
         /\ Running(s, "onmessage") /\ Running(s, "onmessage")' =>
              onmessage'[s] = onmessage[s] \/ ~socket_'[s]
  <1> DEFINE Goal == /\ Running(s, "onclose") /\ Running(s, "onclose")' => onclose'[s] = onclose[s]
                     /\ Running(s, "onmessage") /\ Running(s, "onmessage")' =>
                          onmessage'[s] = onmessage[s] \/ ~socket_'[s]
  <1> SUFFICES Goal
    OBVIOUS
  <1>t. TypeOK /\ stack \in Seq(Frame)
    BY DEF SessionInv, TypeOK
  <1>0. Running(s, "onclose") => onclose[s] # "unset" /\ ~socket_[s]
    BY DEF SessionInv, StackShape, Running
  <1>1. ASSUME onclose' = onclose, onmessage' = onmessage PROVE Goal
    BY <1>1
  <1>2. ASSUME NEW t \in Session, NEW err, NEW by \in {"handler", "user", "destructor"},
               NEW rd, NEW wr, CloseIntern(t, err, by, rd, wr)
        PROVE  Goal
    BY <1>t, <1>2, CloseInternEffect
  <1>3. ASSUME NEW t \in Session, NEW h \in UserHandler, SetOnClose(t, h) PROVE Goal
    BY <1>t, <1>0, <1>3 DEF SetOnClose, TypeOK
  <1>4. ASSUME NEW t \in Session, NEW h \in UserHandler, SetOnMessage(t, h) PROVE Goal
    <2>1. Running(s, "onmessage") => onmessage[s] # "unset"
      BY DEF SessionInv, ReadChain
    <2> QED
      BY <1>t, <1>4, <2>1 DEF SetOnMessage, TypeOK
  <1>5. CASE ReturnFromOnClose
    <2>0. PICK r \in Session : r = Head(stack).s
      BY <1>t, <1>5, PopFrame DEF ReturnFromOnClose, Frame
    <2>1. /\ stack # <<>> /\ stack' = Tail(stack) /\ Head(stack).call = "onclose" /\ socket_' = socket_
          /\ Len(stack) \in Nat \ {0} /\ Head(stack) = stack[1] /\ stack[1].s = r
      BY <1>t, <1>5, <2>0, PopFrame DEF ReturnFromOnClose
    <2>2. Running(r, "onclose")
      BY <2>1 DEF Running
    <2>3. ~Running(r, "onclose")'
      <3> SUFFICES ASSUME Running(r, "onclose")' PROVE FALSE
        OBVIOUS
      <3>1. PICK i \in 1 .. Len(stack') : stack'[i].s = r /\ stack'[i].call = "onclose"
        BY DEF Running
      <3>2. i + 1 \in 1 .. Len(stack) /\ stack'[i] = stack[i + 1] /\ i + 1 # 1 /\ 1 \in 1 .. Len(stack)
        BY <1>t, <2>1, PopFrame
      <3>3. stack[1].call = "onclose" /\ stack[1].s = r
        BY <2>1
      <3> QED
        BY <3>1, <3>2, <3>3 DEF SessionInv, StackShape
    <2>4. \A t \in Session : t # r => onclose'[t] = onclose[t] /\ onmessage'[t] = onmessage[t]
      BY <1>t, <1>5, <2>0 DEF ReturnFromOnClose, TypeOK
    <2>5. CASE s = r
      BY <1>0, <2>1, <2>2, <2>3, <2>5
    <2>6. CASE s # r
      BY <2>4, <2>6
    <2> QED
      BY <2>5, <2>6
  <1> HIDE DEF Goal
  <1>6. ASSUME NEW t \in Session, IoContext(t) PROVE Goal
    BY <1>1, <1>2, <1>6 DEF IoContext, ReadHandler, WriteHandler, HandleReadHeader,
       HandleReadPayload, HandleWriteHeader, HandleWritePayload
  <1>7. ASSUME NEW t \in Session, User(t) PROVE Goal
    BY <1>1, <1>2, <1>3, <1>4, <1>7 DEF User, Send, Close, Release
  <1>8. ASSUME NEW t \in Session, Destroy(t) PROVE Goal
    BY <1>2, <1>8 DEF Destroy
  <1>9. ASSUME NEW t \in Session, Kernel(t) PROVE Goal
    BY <1>1, <1>9 DEF Kernel, ReadDone, WriteDone
  <1>10. CASE Return
    BY <1>1, <1>5, <1>10 DEF Return, ReturnFromLateOnClose, ReturnFromOnMessage
  <1>11. CASE UNCHANGED vars
    BY <1>1, <1>11 DEF vars
  <1> QED
    BY <1>6, <1>7, <1>8, <1>9, <1>10, <1>11 DEF Next

(* No running closure is destroyed by an assignment, but a message handler *)
(* whose session is closed while it runs.                                  *)
THEOREM RunningHandlerStableAlways == Spec => RunningHandlerStable
  <1>1. SessionInv /\ [Next]_vars =>
          [\A s \in Session :
             /\ Running(s, "onclose") /\ Running(s, "onclose")' => onclose'[s] = onclose[s]
             /\ Running(s, "onmessage") /\ Running(s, "onmessage")' =>
                  onmessage'[s] = onmessage[s] \/ ~socket_'[s]]_vars
    BY HandlerStep
  <1> QED
    BY <1>1, SessionInvariant, PTL DEF Spec, RunningHandlerStable
=============================================================================
