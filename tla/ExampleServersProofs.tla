------------------------ MODULE ExampleServersProofs ------------------------
(***************************************************************************)
(* Proofs about ExampleServers, for every kind of server, any number of    *)
(* clients and any number of ids that is larger.                           *)
(***************************************************************************)
EXTENDS ExampleServers, AsioSessionProofs, FiniteSetTheorems
-----------------------------------------------------------------------------
(* create_id. *)

(* Counting modulo n leaves a small number as it is, and reaches it again  *)
(* n further on.                                                           *)
LEMMA WrapAround ==
  ASSUME NEW n \in Nat \ {0}, NEW a \in 0 .. n - 1
  PROVE  a % n = a /\ (a + n) % n = a
  OBVIOUS

(* A set of natural numbers that is not empty has a smallest element.      *)
LEMMA LeastNumber ==
  ASSUME NEW T \in SUBSET Nat, T # {}
  PROVE  \E x \in T : \A y \in T : x <= y
  <1> DEFINE R == OpToRel(<, Nat)
  <1>1. \A x, y \in Nat : <<y, x>> \notin R => x <= y
    BY DEF OpToRel
  <1>2. IsWellFoundedOn(R, Nat)
    BY NatLessThanWellFounded
  <1> HIDE DEF R
  <1>3. \E x \in T : \A y \in T : <<y, x>> \notin R
    BY <1>2, WFMin
  <1> QED
    BY <1>1, <1>3

(* As long as a session is not in the table, an id is free: every id of    *)
(* the table has a session of its own.                                     *)
LEMMA IdFree ==
  ASSUME ServerTypeOK, NEW s \in Session, s \notin Registered,
         \A i, j \in DOMAIN sessions : sessions[i] = sessions[j] => i = j
  PROVE  \E i \in 1 .. IdCount - 1 : i \notin DOMAIN sessions
  <1> SUFFICES ASSUME \A i \in 1 .. IdCount - 1 : i \in DOMAIN sessions PROVE FALSE
    OBVIOUS
  <1>1. /\ IsFiniteSet(Session) /\ Cardinality(Session) < IdCount /\ IdCount \in Nat
        /\ Cardinality(Session) \in Nat
    BY ServerAssumption, FS_CardinalityType
  <1> DEFINE Ids == 1 .. IdCount - 1
             Others == Session \ {s}
             f == [i \in Ids |-> sessions[i]]
  <1>2. IsFiniteSet(Others) /\ Cardinality(Others) = Cardinality(Session) - 1
    BY <1>1, FS_RemoveElement
  <1>3. Cardinality(Ids) = IdCount - 1
    <2>1. Cardinality(Ids) = IF 1 > IdCount - 1 THEN 0 ELSE (IdCount - 1) - 1 + 1
      BY <1>1, FS_Interval
    <2> QED
      BY <1>1, <2>1
  <1>4. f \in [Ids -> Others]
    BY DEF ServerTypeOK, Registered
  <1>5. \A i, j \in Ids : f[i] = f[j] => i = j
    OBVIOUS
  <1>6. Cardinality(Ids) <= Cardinality(Others)
    <2> HIDE DEF f, Ids, Others
    <2>1. f \in Injection(Ids, Others)
      BY <1>4, <1>5 DEF Injection, IsInjective
    <2> QED
      BY <1>2, <2>1, FS_Injection
  <1> QED
    BY <1>1, <1>2, <1>3, <1>6

(* create_id returns an id that is neither zero nor in use, if there is    *)
(* one, however far the last one has counted.                              *)
LEMMA CreateIdIsFree ==
  ASSUME ServerTypeOK, \E i \in 1 .. IdCount - 1 : i \notin DOMAIN sessions
  PROVE  CreateId \in (1 .. IdCount - 1) \ DOMAIN sessions
  <1> DEFINE candidate(k) == (id + k) % IdCount
             Free(i) == i # 0 /\ i \notin DOMAIN sessions
             T == {k \in 0 .. IdCount - 1 : Free(candidate(k))}
             First(k) == Free(candidate(k)) /\ \A j \in 0 .. k - 1 : ~Free(candidate(j))
  <1>1. PICK i \in 1 .. IdCount - 1 : i \notin DOMAIN sessions
    OBVIOUS
  <1>2. IdCount \in Nat \ {0} /\ id \in 0 .. IdCount - 1
    BY <1>1, ServerAssumption DEF ServerTypeOK
  <1>3. T # {}
    <2>1. CASE id <= i
      <3>1. i - id \in 0 .. IdCount - 1 /\ id + (i - id) = i
        BY <1>2, <2>1
      <3>2. candidate(i - id) = i
        BY <1>2, <3>1, WrapAround
      <3> QED
        BY <1>1, <3>1, <3>2
    <2>2. CASE i < id
      <3>1. i - id + IdCount \in 0 .. IdCount - 1 /\ id + (i - id + IdCount) = i + IdCount
        BY <1>2, <2>2
      <3>2. candidate(i - id + IdCount) = i
        BY <1>2, <3>1, WrapAround
      <3> QED
        BY <1>1, <3>1, <3>2
    <2> QED
      BY <1>2, <2>1, <2>2
  <1>4. PICK k \in T : \A j \in T : k <= j
    <2>1. T \in SUBSET Nat
      BY <1>2
    <2> HIDE DEF T
    <2> QED
      BY <1>3, <2>1, LeastNumber
  <1>5. k \in 0 .. IdCount - 1 /\ First(k)
    <2>1. k \in 0 .. IdCount - 1 /\ Free(candidate(k))
      OBVIOUS
    <2>2. \A j \in 0 .. k - 1 : j \in 0 .. IdCount - 1 /\ ~(k <= j)
      BY <1>2, <2>1
    <2>3. \A j \in 0 .. k - 1 : ~Free(candidate(j))
      BY <1>4, <2>2
    <2> QED
      BY <2>1, <2>3
  <1> DEFINE m == CHOOSE n \in 0 .. IdCount - 1 : First(n)
  <1>6. m \in 0 .. IdCount - 1 /\ First(m)
    <2> HIDE DEF First
    <2> QED
      BY <1>5
  <1>7. CreateId = candidate(m)
    BY DEF CreateId
  <1>8. candidate(m) \in 0 .. IdCount - 1
    <2> HIDE DEF m
    <2>1. id + m \in Nat
      BY <1>2, <1>6
    <2> QED
      BY <1>2, <2>1
  <1> QED
    BY <1>6, <1>7, <1>8

-----------------------------------------------------------------------------
(* What the steps of the server do to the sessions.  While the io_context  *)
(* exists they preserve SessionInv, as any user's steps do; and the types  *)
(* even when ~io_context has dropped operations of open sessions.          *)

(* close_intern, whatever became of the operations before. *)
LEMMA ClosingTypes ==
  ASSUME TypeOK, NEW s \in Session, NEW err \in Error, NEW by \in {"handler", "user", "destructor"},
         NEW rd \in Op, NEW wr \in Op, CloseIntern(s, err, by, rd, wr),
         UNCHANGED <<write_queue, held>>, alive' \in [Session -> BOOLEAN]
  PROVE  TypeOK'
  <1> DEFINE f == [call |-> "onclose", s |-> s, by |-> by]
  <1>1. CASE ~MustClose(s)
    <2>1. /\ reading' = [reading EXCEPT ![s] = rd] /\ writing' = [writing EXCEPT ![s] = wr]
          /\ UNCHANGED <<socket_, onmessage, onclose, stack, cause, reports>>
      BY <1>1 DEF CloseIntern
    <2> QED
      BY <2>1 DEF TypeOK
  <1>2. CASE MustClose(s)
    <2>1. /\ reading' \in [Session -> Op] /\ writing' \in [Session -> Op]
          /\ cause' \in [Session -> Error \cup {"none"}]
          /\ socket_' \in [Session -> BOOLEAN]
      <3>1. Cancelled(rd) \in Op /\ Cancelled(wr) \in Op
        BY CancelledOp
      <3>2. /\ reading' = [reading EXCEPT ![s] = Cancelled(rd)]
            /\ writing' = [writing EXCEPT ![s] = Cancelled(wr)]
            /\ cause' = [cause EXCEPT ![s] = err]
            /\ socket_' = [socket_ EXCEPT ![s] = FALSE]
        BY <1>2 DEF CloseIntern
      <3> QED
        BY <3>1, <3>2 DEF TypeOK
    <2>2. onmessage' \in [Session -> Handler] /\ onclose' \in [Session -> Handler]
      BY <1>2 DEF CloseIntern, TypeOK, Removed, Handler
    <2>3. stack' \in Seq(Frame)
      <3>1. f \in Frame /\ stack \in Seq(Frame)
        BY DEF Frame, TypeOK
      <3>2. stack' = stack \/ stack' = <<f>> \o stack
        BY <1>2 DEF CloseIntern
      <3> HIDE DEF f
      <3>3. <<f>> \o stack \in Seq(Frame)
        BY <3>1, PushFrame
      <3> QED
        BY <3>1, <3>2, <3>3
    <2>4. reports' \in [Session -> Seq(Error)]
      <3>1. Append(reports[s], err) \in Seq(Error) /\ reports \in [Session -> Seq(Error)]
        BY DEF TypeOK
      <3>2. reports' = reports \/ reports' = [reports EXCEPT ![s] = Append(reports[s], err)]
        BY <1>2 DEF CloseIntern
      <3> QED
        BY <3>1, <3>2
    <2> QED
      BY <2>1, <2>2, <2>3, <2>4 DEF TypeOK
  <1> QED
    BY <1>1, <1>2

(* The returns from the two callbacks. *)
LEMMA ReturnTypes ==
  ASSUME TypeOK, ReturnFromOnClose \/ ReturnFromOnMessage
  PROVE  TypeOK'
  <1>1. /\ stack # <<>> /\ stack' = Tail(stack) /\ stack \in Seq(Frame)
        /\ Head(stack) \in Frame
    BY PopFrame DEF TypeOK, ReturnFromOnClose, ReturnFromOnMessage
  <1>2. stack' \in Seq(Frame)
    BY <1>1, PopFrame
  <1> DEFINE s == Head(stack).s
  <1>3. s \in Session
    BY <1>1 DEF Frame
  <1>4. CASE ReturnFromOnClose
    <2>1. onclose' \in [Session -> Handler] /\ onmessage' \in [Session -> Handler]
      BY <1>3, <1>4 DEF ReturnFromOnClose, TypeOK, Removed, Handler
    <2> QED
      BY <1>2, <1>4, <2>1 DEF ReturnFromOnClose, TypeOK
  <1>5. CASE ReturnFromOnMessage
    <2>1. Begin(reading[s], "header", socket_[s]) \in Op
      <3>1. reading[s] \in Op /\ socket_[s] \in BOOLEAN
        BY <1>3 DEF TypeOK
      <3> QED
        BY <3>1, BeginOp
    <2>2. reading' = [reading EXCEPT ![s] = Begin(reading[s], "header", socket_[s])]
      BY <1>5 DEF ReturnFromOnMessage
    <2>3. reading' \in [Session -> Op]
      BY <1>3, <2>1, <2>2 DEF TypeOK
    <2> QED
      BY <1>2, <1>5, <2>3 DEF ReturnFromOnMessage, TypeOK
  <1> QED
    BY <1>4, <1>5

(* The server's table may let go of sessions, or nothing happens to them.  *)
LEMMA HeldPreserves ==
  ASSUME SessionInv, held' \in [Session -> BOOLEAN],
         UNCHANGED <<socket_, onmessage, onclose, write_queue, reading, writing, alive, stack,
                     cause, reports>>
  PROVE  SessionInv'
  <1> USE DEF SessionInv
  <1>r. \A t \in Session : Running(t, "onmessage")' = Running(t, "onmessage")
                           /\ Running(t, "onclose")' = Running(t, "onclose")
                           /\ OwnedByRunningHandler(t)' = OwnedByRunningHandler(t)
    BY DEF Running, OwnedByRunningHandler
  <1>1. TypeOK'
    BY DEF TypeOK
  <1>2. OneReadOneWrite' /\ WriterMatchesQueue' /\ ReadArmed'
    BY <1>r DEF OneReadOneWrite, WriterMatchesQueue, ReadArmed
  <1>3. CloseHandlerOnce' /\ ReportedCause' /\ CloseHistory' /\ StackShape'
    BY DEF CloseHandlerOnce, ReportedCause, CloseHistory, StackShape
  <1>4. AliveWhileInUse' /\ ReadChain' /\ ClosedOperations'
    BY <1>r DEF AliveWhileInUse, ReadChain, ClosedOperations, Succeeded
  <1> QED
    BY <1>1, <1>2, <1>3, <1>4

(* Both handlers are set on a session that is open and alive.              *)
LEMMA AcceptPreserves ==
  ASSUME SessionInv, NEW s \in Session, Accept(s),
         kind \in Kind, onmessage[s] = "unset", socket_[s], alive[s]
  PROVE  SessionInv'
  <1> USE DEF SessionInv
  <1> DEFINE rd == Begin(reading[s], "header", socket_[s])
             handler == CASE kind = "chat" -> "user"
                          [] kind = "notification" -> "noop"
                          [] kind = "echo" -> "owner"
  <1>0. TypeOK
    OBVIOUS
  <1>1. /\ stack = <<>> /\ onclose[s] = "unset"
        /\ onclose' = [onclose EXCEPT ![s] = "user"]
        /\ onmessage' = [onmessage EXCEPT ![s] = handler]
        /\ reading' = [reading EXCEPT ![s] = rd]
        /\ UNCHANGED <<socket_, write_queue, writing, alive, stack, cause, reports>>
    BY DEF Accept, Accepted
  <1>2. held' \in [Session -> BOOLEAN]
    BY <1>0 DEF Accept, TypeOK, Broadcasts
  <1>3. reading[s].step = "idle" /\ reading[s] \in Op /\ socket_[s] \in BOOLEAN /\ reports[s] = <<>>
    BY <1>0, <1>1 DEF ReadChain, TypeOK, CloseHistory
  <1>4. rd \in Op /\ rd.step = "header" /\ rd.res = "pending" /\ ~Succeeded(rd)
    BY <1>3, BeginOp DEF Succeeded
  <1>5. handler \in {"user", "noop", "owner"}
    <2>1. CASE kind = "chat"
      BY <2>1
    <2>2. CASE kind = "notification"
      BY <2>2
    <2>3. CASE kind = "echo"
      BY <2>3
    <2> QED
      BY <2>1, <2>2, <2>3, ServerAssumption
  <1> HIDE DEF rd, handler
  <1>r. \A t \in Session : /\ ~Running(t, "onmessage")' /\ ~Running(t, "onmessage")
                           /\ ~Running(t, "onclose")' /\ ~Running(t, "onclose")
                           /\ ~OwnedByRunningHandler(t)' /\ ~OwnedByRunningHandler(t)
    BY <1>1 DEF Running, OwnedByRunningHandler
  <1>6. /\ reading'[s] = rd /\ onmessage'[s] = handler /\ onclose'[s] = "user"
        /\ \A t \in Session : t # s => /\ reading'[t] = reading[t] /\ onmessage'[t] = onmessage[t]
                                       /\ onclose'[t] = onclose[t]
    BY <1>0, <1>1 DEF TypeOK
  <1>7. TypeOK'
    <2>1. /\ onclose' \in [Session -> Handler] /\ onmessage' \in [Session -> Handler]
          /\ reading' \in [Session -> Op]
      BY <1>0, <1>1, <1>4, <1>5 DEF TypeOK, Handler
    <2> QED
      BY <1>0, <1>1, <1>2, <2>1 DEF TypeOK
  <1>8. OneReadOneWrite' /\ WriterMatchesQueue' /\ ReadArmed'
    BY <1>1, <1>4, <1>6, <1>r DEF OneReadOneWrite, WriterMatchesQueue, ReadArmed
  <1>9. CloseHandlerOnce' /\ ReportedCause' /\ CloseHistory'
    BY <1>1, <1>6 DEF CloseHandlerOnce, ReportedCause, CloseHistory
  <1>10. StackShape'
    BY <1>1 DEF StackShape
  <1>11. AliveWhileInUse' /\ ReadChain' /\ ClosedOperations'
    BY <1>1, <1>4, <1>5, <1>6, <1>r DEF AliveWhileInUse, ReadChain, ClosedOperations, Succeeded
  <1> QED
    BY <1>7, <1>8, <1>9, <1>10, <1>11

(* A message is sent to several sessions at once, all of them alive.       *)
LEMMA SendAllPreserves ==
  ASSUME SessionInv, NEW m \in Message, SendAll(m),
         IF Broadcasts THEN \A i \in DOMAIN sessions : alive[sessions[i]]
                       ELSE alive[m],
         UNCHANGED <<socket_, onmessage, onclose, reading, held, alive, stack, cause, reports>>
  PROVE  SessionInv'
  <1> USE DEF SessionInv
  <1> DEFINE to == IF Broadcasts THEN Registered ELSE {m}
  <1>0. TypeOK /\ \A t \in to : alive[t]
    BY DEF Registered
  <1> HIDE DEF to
  <1>1. ASSUME NEW t \in Session
        PROVE  /\ write_queue'[t] = IF t \in to THEN Append(write_queue[t], m) ELSE write_queue[t]
               /\ writing'[t] = IF t \in to /\ StartsWriter(Len(write_queue[t]) + 1)
                                  THEN Begin(writing[t], "header", socket_[t])
                                  ELSE writing[t]
    BY DEF SendAll, to
  <1>f. /\ write_queue' = [t \in Session |-> write_queue'[t]]
        /\ writing' = [t \in Session |-> writing'[t]]
    BY DEF SendAll
  <1>2. ASSUME NEW t \in Session
        PROVE  /\ write_queue'[t] \in Seq(Message) /\ writing'[t] \in Op
               /\ writing'[t].step # "overlap"
               /\ writing'[t].step # "idle" => write_queue'[t] # <<>> /\ alive[t]
               /\ socket_[t] /\ write_queue'[t] # <<>> => writing'[t].step # "idle"
               /\ socket_[t] => writing'[t].res # "aborted"
    <2>1. /\ write_queue[t] \in Seq(Message) /\ writing[t] \in Op /\ socket_[t] \in BOOLEAN
          /\ writing[t].step # "overlap"
          /\ writing[t].step # "idle" => write_queue[t] # <<>> /\ alive[t]
          /\ socket_[t] /\ write_queue[t] # <<>> => writing[t].step # "idle"
          /\ socket_[t] => writing[t].res # "aborted"
      BY <1>0 DEF TypeOK, OneReadOneWrite, WriterMatchesQueue, AliveWhileInUse, ClosedOperations
    <2>2. /\ Append(write_queue[t], m) \in Seq(Message) /\ Append(write_queue[t], m) # <<>>
          /\ Len(write_queue[t]) \in Nat /\ (write_queue[t] = <<>> <=> Len(write_queue[t]) + 1 = 1)
      <3>1. write_queue[t] \in Seq(Message)
        BY <2>1
      <3>2. \A q \in Seq(Message) : /\ Append(q, m) \in Seq(Message) /\ Append(q, m) # <<>>
                                     /\ Len(q) \in Nat /\ (q = <<>> <=> Len(q) = 0)
        OBVIOUS
      <3>3. \A n \in Nat : n = 0 <=> n + 1 = 1
        OBVIOUS
      <3> QED
        BY <3>1, <3>2, <3>3
    <2> DEFINE wr == Begin(writing[t], "header", socket_[t])
    <2>3. /\ wr \in Op /\ wr.step # "idle" /\ (writing[t].step = "idle" => wr.step = "header")
          /\ wr.res = IF socket_[t] THEN "pending" ELSE "aborted"
      BY <2>1, BeginOp
    <2> HIDE DEF wr
    <2>4. CASE t \notin to
      BY <1>1, <2>1, <2>4
    <2>5. CASE t \in to /\ StartsWriter(Len(write_queue[t]) + 1)
      <3>1. writing'[t] = wr /\ write_queue'[t] = Append(write_queue[t], m)
        BY <1>1, <2>5 DEF wr
      <3>2. writing[t].step = "idle" /\ alive[t]
        BY <1>0, <2>1, <2>2, <2>5 DEF StartsWriter
      <3> QED
        BY <2>2, <2>3, <3>1, <3>2
    <2>6. CASE t \in to /\ ~StartsWriter(Len(write_queue[t]) + 1)
      <3>1. writing'[t] = writing[t] /\ write_queue'[t] = Append(write_queue[t], m)
        BY <1>1, <2>6
      <3>2. write_queue[t] # <<>> /\ alive[t]
        BY <1>0, <2>2, <2>6 DEF StartsWriter
      <3> QED
        BY <2>1, <2>2, <3>1, <3>2
    <2> QED
      BY <2>4, <2>5, <2>6
  <1>r. \A t \in Session : Running(t, "onmessage")' = Running(t, "onmessage")
                           /\ Running(t, "onclose")' = Running(t, "onclose")
                           /\ OwnedByRunningHandler(t)' = OwnedByRunningHandler(t)
    BY DEF Running, OwnedByRunningHandler
  <1>3. TypeOK'
    <2>1. write_queue' \in [Session -> Seq(Message)] /\ writing' \in [Session -> Op]
      BY <1>2, <1>f
    <2> QED
      BY <1>0, <2>1 DEF TypeOK
  <1>4. OneReadOneWrite' /\ WriterMatchesQueue' /\ ReadArmed'
    BY <1>2, <1>r DEF OneReadOneWrite, WriterMatchesQueue, ReadArmed
  <1>5. CloseHandlerOnce' /\ ReportedCause' /\ CloseHistory' /\ StackShape'
    BY DEF CloseHandlerOnce, ReportedCause, CloseHistory, StackShape
  <1>6. AliveWhileInUse' /\ ReadChain' /\ ClosedOperations'
    BY <1>2, <1>r DEF AliveWhileInUse, ReadChain, ClosedOperations
  <1> QED
    BY <1>3, <1>4, <1>5, <1>6

-----------------------------------------------------------------------------
(* What a client is owed, and what of it waits to be written. *)

(* What follows the first p elements of a sequence. *)
Rest(o, p) == SubSeq(o, p + 1, Len(o))

(* The rest of a sequence grows with the sequence.                         *)
LEMMA RestAppend ==
  ASSUME NEW S, NEW o \in Seq(S), NEW m \in S, NEW p \in Nat, p <= Len(o)
  PROVE  Rest(Append(o, m), p) = Append(Rest(o, p), m)
  <1> DEFINE n == Len(o)
             a == Append(o, m)
             r == SubSeq(o, p + 1, n)
             u == SubSeq(a, p + 1, n + 1)
  <1>1. /\ n \in Nat /\ a \in Seq(S) /\ Len(a) = n + 1 /\ a[n + 1] = m
        /\ \A i \in 1 .. n : a[i] = o[i] /\ o[i] \in S
    OBVIOUS
  <1>2. \A i \in p + 1 .. n : o[i] \in S
    BY <1>1
  <1>3. \A i \in p + 1 .. n + 1 : a[i] \in S
    BY <1>1
  <1> HIDE DEF n, a
  <1>4. /\ r \in Seq(S) /\ Len(r) = IF p + 1 <= n THEN n - (p + 1) + 1 ELSE 0
        /\ \A i \in 1 .. n - (p + 1) + 1 : r[i] = o[p + 1 + i - 1]
    <2>1. p + 1 \in Nat
      OBVIOUS
    <2> QED
      BY <1>1, <1>2, <2>1, SubSeqProperties, SMTT(30)
  <1>5. /\ u \in Seq(S) /\ Len(u) = IF p + 1 <= n + 1 THEN n + 1 - (p + 1) + 1 ELSE 0
        /\ \A i \in 1 .. n + 1 - (p + 1) + 1 : u[i] = a[p + 1 + i - 1]
    <2>1. p + 1 \in Nat /\ n + 1 \in Nat
      BY <1>1
    <2> QED
      BY <1>1, <1>3, <2>1, SubSeqProperties, SMTT(30)
  <1> HIDE DEF r, u
  <1>6. p <= n
    BY DEF n
  <1>7. Len(r) = n - p /\ Len(u) = n - p + 1 /\ n - p \in Nat
    <2>1. n \in Nat
      BY <1>1
    <2>2. Len(r) = IF p + 1 <= n THEN n - (p + 1) + 1 ELSE 0
      BY <1>4, Zenon
    <2>3. Len(u) = IF p + 1 <= n + 1 THEN n + 1 - (p + 1) + 1 ELSE 0
      BY <1>5, Zenon
    <2> QED
      BY <1>6, <2>1, <2>2, <2>3
  <1>8. /\ Append(r, m) \in Seq(S) /\ Len(Append(r, m)) = n - p + 1
        /\ \A i \in 1 .. n - p : Append(r, m)[i] = r[i]
        /\ Append(r, m)[n - p + 1] = m
    BY <1>4, <1>7
  <1>9. ASSUME NEW i \in 1 .. Len(u) PROVE u[i] = Append(r, m)[i]
    <2>1. i \in 1 .. n - p + 1 /\ i \in Nat /\ p + 1 + i - 1 = p + i
      BY <1>7
    <2>2. u[i] = a[p + i]
      <3>1. i \in 1 .. n + 1 - (p + 1) + 1
        BY <1>1, <2>1
      <3> QED
        BY <1>5, <2>1, <3>1
    <2>3. CASE i = n - p + 1
      <3>1. p + i = n + 1
        BY <1>1, <2>3
      <3> QED
        BY <1>1, <1>8, <2>2, <2>3, <3>1
    <2>4. CASE i # n - p + 1
      <3>1. i \in 1 .. n - p /\ i \in 1 .. n - (p + 1) + 1 /\ p + i \in 1 .. n
        BY <1>1, <2>1, <2>4
      <3>2. r[i] = o[p + i]
        BY <1>4, <2>1, <3>1
      <3> QED
        BY <1>1, <1>8, <2>2, <3>1, <3>2
    <2> QED
      BY <2>3, <2>4
  <1>10. u = Append(r, m)
    BY <1>5, <1>7, <1>8, <1>9, SeqEqual
  <1>11. Rest(Append(o, m), p) = SubSeq(a, p + 1, Len(a)) /\ Rest(o, p) = SubSeq(o, p + 1, n)
    BY DEF Rest, a, n
  <1> QED
    BY <1>1, <1>10, <1>11 DEF r, u

(* A rest that is not empty loses its first element.                       *)
LEMMA RestTail ==
  ASSUME NEW S, NEW o \in Seq(S), NEW p \in Nat, p <= Len(o),
         SubSeq(o, p + 1, Len(o)) # <<>>
  PROVE  /\ p + 1 <= Len(o)
         /\ Tail(SubSeq(o, p + 1, Len(o))) = SubSeq(o, p + 1 + 1, Len(o))
  <1>0. Len(o) \in Nat
    OBVIOUS
  <1>1. p + 1 <= Len(o)
    <2> SUFFICES ASSUME ~(p + 1 <= Len(o)) PROVE FALSE
      OBVIOUS
    <2>1. Len(o) < p + 1 /\ p + 1 \in Int /\ Len(o) \in Int
      BY <1>0
    <2> QED
      BY <2>1, SubSeqEmpty
  <1>2. p + 1 \in 1 .. Len(o) /\ Len(o) \in p + 1 .. Len(o)
    BY <1>0, <1>1
  <1> QED
    BY <1>1, <1>2, HeadTailOfSubSeq

(* The messages of one client. *)
Mine(s) == {j \in DOMAIN log : log[j] = s}

(* The history of a server is finite. *)
LEMMA MineFinite ==
  ASSUME ServerTypeOK, NEW s
  PROVE  IsFiniteSet(Mine(s)) /\ Cardinality(Mine(s)) \in Nat
  <1>1. Len(log) \in Nat /\ DOMAIN log = 1 .. Len(log)
    BY DEF ServerTypeOK
  <1>2. IsFiniteSet(1 .. Len(log))
    BY <1>1, FS_Interval
  <1>3. Mine(s) \in SUBSET (1 .. Len(log))
    BY <1>1 DEF Mine
  <1> QED
    BY <1>2, <1>3, FS_Subset, FS_CardinalityType

(* What is owed are messages. *)
LEMMA OwedTypes ==
  ASSUME ServerTypeOK, NEW s \in Session, joined[s] <= Len(log)
  PROVE  Owed(s) \in Seq(Message)
  <1>1. CASE Broadcasts
    <2>1. joined[s] \in Nat /\ Len(log) \in Nat /\ \A i \in 1 .. Len(log) : log[i] \in Message
      BY ServerAssumption DEF ServerTypeOK
    <2>2. \A i \in joined[s] + 1 .. Len(log) : log[i] \in Message
      BY <2>1
    <2>3. SubSeq(log, joined[s] + 1, Len(log)) \in Seq(Message)
      BY <2>1, <2>2, SubSeqProperties
    <2> QED
      BY <1>1, <2>3 DEF Owed
  <1>2. CASE ~Broadcasts
    <2>1. Cardinality(Mine(s)) \in Nat /\ s \in Message
      BY MineFinite, ServerAssumption
    <2>2. \A n \in Nat : [i \in 1 .. n |-> s] \in Seq(Message)
      BY <2>1
    <2>3. Owed(s) = [i \in 1 .. Cardinality(Mine(s)) |-> s]
      BY <1>2 DEF Owed, Mine
    <2> QED
      BY <2>1, <2>2, <2>3
  <1> QED
    BY <1>1, <1>2

(* One more message in the history is one more for those it is meant for,  *)
(* at the end of what they are owed.                                       *)
LEMMA OwedAppend ==
  ASSUME ServerTypeOK, ServerTypeOK', NEW s \in Session, joined[s] <= Len(log),
         NEW m \in Message, log' = Append(log, m), UNCHANGED <<kind, joined>>
  PROVE  Owed(s)' = IF Broadcasts \/ s = m THEN Append(Owed(s), m) ELSE Owed(s)
  <1>0. /\ log \in Seq(Message) /\ Len(log) \in Nat /\ Len(log') = Len(log) + 1
        /\ DOMAIN log = 1 .. Len(log) /\ DOMAIN log' = 1 .. Len(log) + 1
        /\ log'[Len(log) + 1] = m
        /\ \A i \in 1 .. Len(log) : log'[i] = log[i]
        /\ joined[s] \in Nat
    BY ServerAssumption, SMTT(30) DEF ServerTypeOK
  <1>1. CASE Broadcasts
    <2>1. Rest(Append(log, m), joined[s]) = Append(Rest(log, joined[s]), m)
      BY <1>0, RestAppend
    <2>2. Owed(s) = Rest(log, joined[s]) /\ Owed(s)' = Rest(log', joined[s])
      BY <1>1 DEF Owed, Broadcasts, Rest
    <2> QED
      BY <1>1, <2>1, <2>2
  <1>2. CASE ~Broadcasts
    <2> DEFINE n == Cardinality(Mine(s))
               k == Len(log) + 1
    <2>1. /\ IsFiniteSet(Mine(s)) /\ n \in Nat /\ k \notin Mine(s)
          /\ Owed(s) = [i \in 1 .. n |-> s]
          /\ Owed(s)' = [i \in 1 .. Cardinality(Mine(s)') |-> s]
      <3>1. IsFiniteSet(Mine(s)) /\ n \in Nat
        BY MineFinite
      <3>2. k \notin Mine(s)
        BY <1>0 DEF Mine
      <3>3. Owed(s) = [i \in 1 .. n |-> s]
        BY <1>2 DEF Owed, Mine
      <3>4. Owed(s)' = [i \in 1 .. Cardinality(Mine(s)') |-> s]
        BY <1>2 DEF Owed, Broadcasts, Mine
      <3> QED
        BY <3>1, <3>2, <3>3, <3>4
    <2>2. CASE s = m
      <3>1. Mine(s)' = Mine(s) \cup {k}
        BY <1>0, <2>2 DEF Mine
      <3>2. Cardinality(Mine(s)') = n + 1
        BY <2>1, <3>1, FS_AddElement
      <3>3. \A l \in Nat : [i \in 1 .. l + 1 |-> s] = Append([i \in 1 .. l |-> s], s)
        <4> TAKE l \in Nat
        <4> DEFINE a == [i \in 1 .. l + 1 |-> s]
                   b == [i \in 1 .. l |-> s]
        <4>1. b \in Seq({s}) /\ Len(b) = l /\ a \in Seq({s}) /\ Len(a) = l + 1
          OBVIOUS
        <4>2. Append(b, s) \in Seq({s}) /\ Len(Append(b, s)) = l + 1
          BY <4>1
        <4>3. \A i \in 1 .. l + 1 : a[i] = s /\ Append(b, s)[i] = s
          BY <4>1, <4>2
        <4> HIDE DEF a, b
        <4> QED
          BY <4>1, <4>2, <4>3, SeqEqual DEF a, b
      <3> QED
        BY <1>2, <2>1, <2>2, <3>2, <3>3
    <2>3. CASE s # m
      <3>1. Mine(s)' = Mine(s)
        BY <1>0, <2>3 DEF Mine
      <3> QED
        BY <1>2, <2>1, <2>3, <3>1
    <2> QED
      BY <2>2, <2>3
  <1> QED
    BY <1>1, <1>2

-----------------------------------------------------------------------------
(* Why the servers' safety properties hold. *)

(* What the sessions are as long as the io_context exists: all of          *)
(* SessionInv.  ~io_context drops operations of open sessions.             *)
SessionsFine ==
  /\ TypeOK
  /\ phase # "gone" => SessionInv

(* Both handlers are set by the acceptor's handler.  Until then the        *)
(* connection waits untouched; after it the table of a broadcast server    *)
(* owns the session.                                                       *)
AcceptedOnce ==
  \A s \in Session :
    /\ onclose[s] = "unset" <=> onmessage[s] = "unset"
    /\ held[s] => alive[s]
    /\ ~Accepted(s) => held[s] /\ socket_[s] /\ popped[s] = 0 /\ write_queue[s] = <<>>
    /\ Broadcasts /\ Accepted(s) /\ phase \in {"running", "closing"} => held[s]

(* The table and the ids that the handlers captured are inverses.          *)
TableFits ==
  /\ \A i \in DOMAIN sessions : Accepted(sessions[i]) /\ captured[sessions[i]] = i
  /\ CallbacksFindTheirSession

(* Callbacks are called for accepted sessions. *)
CallsAccepted == \A i \in 1 .. Len(stack) : Accepted(stack[i].s)

(* Between the call of the message handler and its answer no session is    *)
(* destroyed and no other handler runs.                                    *)
AnswerPending ==
  /\ CallsAccepted
  /\ argument # "none" =>
       /\ phase = "running" /\ NoGarbage
       /\ stack # <<>> /\ Head(stack).call = "onmessage"

(* The queue of an open session is what it is owed and has not been sent.  *)
QueueOwed(s) ==
  Accepted(s) /\ socket_[s] /\ phase = "running" =>
    /\ popped[s] <= Len(Owed(s))
    /\ write_queue[s] = SubSeq(Owed(s), popped[s] + 1, Len(Owed(s)))

LogFits ==
  \A s \in Session :
    /\ joined[s] <= Len(log)
    /\ popped[s] + Len(write_queue[s]) <= Len(log)
    /\ ~Broadcasts /\ ~Accepted(s) => \A j \in DOMAIN log : log[j] # s
    /\ QueueOwed(s)

(* The loop of close() reaches every session.                              *)
LoopFits ==
  /\ \A s \in Session :
       Broadcasts /\ Accepted(s) /\ socket_[s] =>
         phase = "running" \/ (phase = "closing" /\ captured[s] \in unclosed)
  /\ NoCallbackAfterServer

ServerInv ==
  /\ ServerTypeOK /\ SessionsFine /\ AcceptedOnce /\ TableFits /\ AnswerPending
  /\ LogFits /\ LoopFits

(* Connections wait in the backlog, no session exists for the table.       *)
LEMMA InitServerInv == ServerInit => ServerInv
  <1> SUFFICES ASSUME ServerInit PROVE ServerInv
    OBVIOUS
  <1> USE DEF ServerInit
  <1>0. IdCount \in Nat \ {0}
    <2>1. Cardinality(Session) \in Nat /\ Cardinality(Session) < IdCount /\ IdCount \in Nat
      BY ServerAssumption, FS_CardinalityType
    <2> QED
      BY <2>1, ServerAssumption
  <1>1. SessionInv /\ TypeOK
    BY InitSessionInv DEF SessionInv
  <1>2. /\ stack = <<>> /\ Len(stack) = 0 /\ Len(log) = 0 /\ sessions = <<>>
        /\ DOMAIN sessions = {} /\ DOMAIN log = {} /\ log \in Seq(Message)
        /\ \A s \in Session :
             /\ onclose[s] = "unset" /\ onmessage[s] = "unset" /\ held[s] /\ alive[s] /\ socket_[s]
             /\ popped[s] = 0 /\ joined[s] = 0 /\ write_queue[s] = <<>> /\ ~Accepted(s)
    BY DEF Init, Accepted
  <1>3. ServerTypeOK
    BY <1>0, <1>1, <1>2 DEF ServerTypeOK
  <1>4. SessionsFine /\ AcceptedOnce /\ AnswerPending
    BY <1>1, <1>2 DEF SessionsFine, AcceptedOnce, AnswerPending, CallsAccepted
  <1>5. TableFits /\ LoopFits
    BY <1>2 DEF TableFits, CallbacksFindTheirSession, LoopFits, NoCallbackAfterServer
  <1>6. LogFits
    <2>1. \A s \in Session : Len(write_queue[s]) = 0
      BY <1>2
    <2> QED
      BY <1>0, <1>2, <2>1 DEF LogFits, QueueOwed
  <1> QED
    BY <1>3, <1>4, <1>5, <1>6 DEF ServerInv

(* The acceptor is the first to touch a session. *)
LEMMA UntilAccepted ==
  ASSUME ServerInv, phase # "gone", NEW s \in Session, ~Accepted(s)
  PROVE  /\ onmessage[s] = "unset" /\ held[s] /\ alive[s] /\ socket_[s] /\ Referenced(s)
         /\ reading[s].step = "idle" /\ writing[s].step = "idle"
  <1>1. /\ onmessage[s] = "unset" /\ held[s] /\ alive[s] /\ socket_[s] /\ write_queue[s] = <<>>
    BY DEF ServerInv, AcceptedOnce, Accepted
  <1>2. ReadChain /\ WriterMatchesQueue
    BY DEF ServerInv, SessionsFine, SessionInv
  <1> QED
    BY <1>1, <1>2 DEF ReadChain, WriterMatchesQueue, Referenced

(* Only the message handler itself goes on once it has been called.        *)
LEMMA OnlyTheAnswer ==
  ASSUME AnswerPending, argument # "none", ServerNext
  PROVE  OnMessage
  <1>1. NoGarbage /\ stack # <<>> /\ Head(stack).call = "onmessage"
    BY DEF AnswerPending
  <1>2. ASSUME NEW s \in Session, DestroySession(s) PROVE FALSE
    BY <1>1, <1>2 DEF DestroySession, Destroy, NoGarbage
  <1>3. ASSUME NEW s \in Session, Accept(s) \/ ServerIo(s) \/ ReadCompletes(s) \/ WriteCompletes(s)
        PROVE  FALSE
    BY <1>1, <1>3 DEF Accept, ServerIo, ReadCompletes, WriteCompletes, ReadHeader, Receive, Write,
       HandleReadHeader, HandleReadPayload, WriteHandler, HandleWriteHeader, HandleWritePayload
  <1>4. ASSUME Notify \/ Signal \/ Stop PROVE FALSE
    BY <1>1, <1>4 DEF Notify, Signal, Stop, CloseNext, DestroyServer, DestroyContext
  <1>5. ASSUME ReturnOnMessage \/ OnClose PROVE FALSE
    BY <1>1, <1>5 DEF ReturnOnMessage, OnClose, ReturnFromOnClose
  <1> QED
    BY <1>2, <1>3, <1>4, <1>5 DEF ServerNext, ServerCallback

(* close_intern on an accepted session: it calls the close handler, if the *)
(* session was open.                                                       *)
LEMMA ClosingEffect ==
  ASSUME TypeOK, NEW s \in Session, NEW err, NEW by \in {"handler", "user", "destructor"},
         NEW rd, NEW wr, CloseIntern(s, err, by, rd, wr), Accepted(s)
  PROVE  /\ onclose' = onclose /\ onmessage' = onmessage
         /\ ~socket_'[s]
         /\ \A t \in Session : t # s => socket_'[t] = socket_[t]
         /\ ~socket_[s] => stack' = stack
         /\ stack' = stack \/ (\E f \in Frame : f.s = s /\ stack' = <<f>> \o stack)
  <1> DEFINE f == [call |-> "onclose", s |-> s, by |-> by]
  <1>1. f \in Frame /\ f.s = s
    BY DEF Frame
  <1>2. CASE ~MustClose(s)
    BY <1>2 DEF CloseIntern, MustClose
  <1>3. CASE MustClose(s)
    <2>1. onclose' = onclose /\ onmessage' = onmessage /\ stack' = <<f>> \o stack
      BY <1>3 DEF CloseIntern, Accepted
    <2>2. socket_' = [socket_ EXCEPT ![s] = FALSE] /\ socket_ \in [Session -> BOOLEAN]
      BY <1>3 DEF CloseIntern, TypeOK
    <2> HIDE DEF f
    <2> QED
      BY <1>1, <1>3, <2>1, <2>2 DEF MustClose
  <1> QED
    BY <1>2, <1>3

(* Calls and returns keep it that way. *)
LEMMA CallsStayAccepted ==
  ASSUME stack \in Seq(Frame), CallsAccepted,
         \A t \in Session : Accepted(t) => Accepted(t)',
         \/ stack' = stack
         \/ stack # <<>> /\ stack' = Tail(stack)
         \/ \E f \in Frame : Accepted(f.s) /\ stack' = <<f>> \o stack
  PROVE  CallsAccepted'
  <1>1. \A f \in Frame : f.s \in Session
    BY DEF Frame
  <1>2. \A i \in 1 .. Len(stack) : onclose'[stack[i].s] # "unset"
    <2>1. \A i \in 1 .. Len(stack) : stack[i] \in Frame
      OBVIOUS
    <2> QED
      BY <1>1, <2>1 DEF CallsAccepted, Accepted
  <1>3. CASE stack' = stack
    BY <1>2, <1>3 DEF CallsAccepted, Accepted
  <1>4. CASE stack # <<>> /\ stack' = Tail(stack)
    <2>1. \A i \in 1 .. Len(stack') : i + 1 \in 1 .. Len(stack) /\ stack'[i] = stack[i + 1]
      BY <1>4, PopFrame
    <2> QED
      BY <1>2, <2>1 DEF CallsAccepted, Accepted
  <1>5. ASSUME NEW f \in Frame, Accepted(f.s), stack' = <<f>> \o stack
        PROVE  CallsAccepted'
    <2>1. Accepted(f.s)'
      BY <1>1, <1>5 DEF Accepted
    <2>2. /\ Len(stack') = Len(stack) + 1 /\ stack'[1] = f /\ Len(stack) \in Nat
          /\ \A i \in 2 .. Len(stack) + 1 : stack'[i] = stack[i - 1]
      BY <1>5, PushFrame
    <2>3. ASSUME NEW i \in 1 .. Len(stack') PROVE onclose'[stack'[i].s] # "unset"
      <3>1. CASE i = 1
        BY <2>1, <2>2, <3>1 DEF Accepted
      <3>2. CASE i # 1
        <4>1. i - 1 \in 1 .. Len(stack) /\ stack'[i] = stack[i - 1]
          BY <2>2, <3>2
        <4> QED
          BY <1>2, <4>1 DEF Accepted
      <3> QED
        BY <3>1, <3>2
    <2> QED
      BY <2>3 DEF CallsAccepted, Accepted
  <1> QED
    BY <1>3, <1>4, <1>5

-----------------------------------------------------------------------------
(* Steps that are the sessions' own: the history, the table and the queues *)
(* stay, no handler is set, no socket opens and no session that is held    *)
(* dies.                                                                   *)
LEMMA QuietStep ==
  ASSUME ServerInv,
         UNCHANGED <<kind, sessions, id, captured, log, joined, popped, held, write_queue>>,
         SessionsFine', CallsAccepted', NoCallbackAfterServer',
         argument' = "none" \/ (argument' \in {"message", "malformed"} /\ AnswerPending'),
         \A s \in Session : /\ onclose'[s] = "unset" <=> onclose[s] = "unset"
                            /\ onmessage'[s] = "unset" <=> onmessage[s] = "unset"
                            /\ socket_'[s] => socket_[s]
                            /\ ~Accepted(s) => socket_'[s]
                            /\ held[s] /\ alive[s] => alive'[s],
         phase' = phase \/ (phase = "destroyed" /\ phase' = "gone"),
         unclosed' \subseteq unclosed,
         \A s \in Session : Broadcasts /\ Accepted(s) /\ socket_'[s] /\ phase = "closing"
                              => captured[s] \in unclosed'
  PROVE  ServerInv'
  <1>1. \A s \in Session : Accepted(s)' = Accepted(s)
    BY DEF Accepted
  <1>2. Broadcasts' = Broadcasts
    BY DEF Broadcasts
  <1>3. ServerTypeOK'
    BY DEF ServerInv, ServerTypeOK, SessionsFine
  <1>4. AcceptedOnce'
    BY <1>1, <1>2 DEF ServerInv, AcceptedOnce
  <1>5. TableFits'
    <2>1. \A i \in DOMAIN sessions : sessions[i] \in Session
      BY DEF ServerInv, ServerTypeOK
    <2> QED
      BY <1>1, <1>2, <2>1 DEF ServerInv, TableFits, CallbacksFindTheirSession, Accepted
  <1>6. AnswerPending'
    BY DEF AnswerPending
  <1>7. LogFits'
    <2>1. \A s \in Session :
            /\ joined[s] <= Len(log)
            /\ popped[s] + Len(write_queue[s]) <= Len(log)
            /\ ~Broadcasts /\ ~Accepted(s) => \A j \in DOMAIN log : log[j] # s
            /\ QueueOwed(s)
      BY DEF ServerInv, LogFits
    <2>2. \A s \in Session : Owed(s)' = Owed(s)
      BY <1>2 DEF Owed
    <2>3. \A s \in Session : QueueOwed(s)'
      BY <1>1, <2>1, <2>2 DEF QueueOwed
    <2> QED
      BY <1>1, <1>2, <2>1, <2>3 DEF LogFits
  <1>8. LoopFits'
    <2>1. \A s \in Session : Broadcasts /\ Accepted(s) /\ socket_[s] =>
                               phase = "running" \/ (phase = "closing" /\ captured[s] \in unclosed)
      BY DEF ServerInv, LoopFits
    <2> QED
      BY <1>1, <1>2, <2>1 DEF LoopFits
  <1> QED
    BY <1>3, <1>4, <1>5, <1>6, <1>7, <1>8 DEF ServerInv

(* The destructor of a session that nobody owns any more: an echo session, *)
(* or one that the table has let go of.                                    *)
LEMMA DestroySessionInv ==
  ASSUME ServerInv, NEW s \in Session, DestroySession(s)
  PROVE  ServerInv'
  <1>1. /\ alive[s] /\ ~Referenced(s) /\ alive' = [alive EXCEPT ![s] = FALSE]
        /\ CloseIntern(s, "success", "destructor", reading[s], writing[s])
        /\ UNCHANGED <<write_queue, held>> /\ UNCHANGED serverVars
    BY DEF DestroySession, Destroy
  <1>2. ~held[s] /\ Accepted(s) /\ ~NoGarbage /\ argument = "none"
    BY <1>1 DEF ServerInv, AcceptedOnce, AnswerPending, NoGarbage, Referenced, Accepted
  <1>3. TypeOK /\ stack \in Seq(Frame) /\ alive' \in [Session -> BOOLEAN]
        /\ reading[s] \in Op /\ writing[s] \in Op /\ "success" \in Error
    BY <1>1 DEF ServerInv, SessionsFine, TypeOK, Error
  <1>4. /\ onclose' = onclose /\ onmessage' = onmessage /\ ~socket_'[s]
        /\ \A t \in Session : t # s => socket_'[t] = socket_[t]
        /\ ~socket_[s] => stack' = stack
        /\ stack' = stack \/ (\E f \in Frame : f.s = s /\ stack' = <<f>> \o stack)
    BY <1>1, <1>2, <1>3, ClosingEffect
  <1>5. SessionsFine'
    <2>1. TypeOK'
      BY <1>1, <1>3, ClosingTypes
    <2>2. ASSUME phase # "gone" PROVE SessionInv'
      <3>1. SessionInv
        BY <2>2 DEF ServerInv, SessionsFine
      <3> QED
        BY <1>1, <1>3, <3>1, ClosingPreserves
    <2> QED
      BY <1>1, <2>1, <2>2 DEF SessionsFine, serverVars
  <1>6. CallsAccepted'
    <2>1. \A t \in Session : Accepted(t) => Accepted(t)'
      BY <1>4 DEF Accepted
    <2>2. CallsAccepted
      BY DEF ServerInv, AnswerPending
    <2> QED
      BY <1>2, <1>3, <1>4, <2>1, <2>2, CallsStayAccepted
  <1>7. NoCallbackAfterServer'
    <2>1. Broadcasts' = Broadcasts /\ phase' = phase
      BY <1>1 DEF Broadcasts, serverVars
    <2>2. ASSUME Broadcasts, phase \in {"destroyed", "gone"} PROVE stack' = <<>>
      <3>1. stack = <<>> /\ ~socket_[s]
        BY <1>2, <2>2 DEF ServerInv, LoopFits, NoCallbackAfterServer
      <3> QED
        BY <1>4, <3>1
    <2> QED
      BY <2>1, <2>2 DEF NoCallbackAfterServer
  <1>8. \A t \in Session : /\ socket_'[t] => socket_[t]
                           /\ ~Accepted(t) => socket_'[t]
                           /\ held[t] /\ alive[t] => alive'[t]
    BY <1>1, <1>2, <1>3, <1>4 DEF ServerInv, AcceptedOnce, TypeOK
  <1>9. \A t \in Session : Broadcasts /\ Accepted(t) /\ socket_'[t] /\ phase = "closing"
                             => captured[t] \in unclosed
    BY <1>8 DEF ServerInv, LoopFits
  <1> QED
    BY <1>1, <1>2, <1>4, <1>5, <1>6, <1>7, <1>8, <1>9, QuietStep DEF serverVars

(* A step of one session's io before the signal: it closes the session or  *)
(* only goes on with its operations.                                       *)
LEMMA IoStep ==
  ASSUME ServerInv, NEW s \in Session, Accepted(s), argument = "none", phase = "running",
         SessionInv',
         UNCHANGED <<write_queue, held, alive>>, UNCHANGED serverVars,
         \/ UNCHANGED <<socket_, onmessage, onclose, stack>>
         \/ \E by \in {"handler", "user", "destructor"} :
              \E err, rd, wr : CloseIntern(s, err, by, rd, wr)
  PROVE  ServerInv'
  <1>1. TypeOK /\ stack \in Seq(Frame) /\ CallsAccepted
    BY DEF ServerInv, SessionsFine, TypeOK, AnswerPending
  <1>2. /\ onclose' = onclose /\ onmessage' = onmessage
        /\ \A t \in Session : t # s => socket_'[t] = socket_[t]
        /\ socket_'[s] => socket_[s]
        /\ stack' = stack \/ (\E f \in Frame : f.s = s /\ stack' = <<f>> \o stack)
    <2>1. ASSUME NEW by \in {"handler", "user", "destructor"}, NEW err, NEW rd, NEW wr,
                 CloseIntern(s, err, by, rd, wr)
          PROVE  /\ onclose' = onclose /\ onmessage' = onmessage /\ ~socket_'[s]
                 /\ \A t \in Session : t # s => socket_'[t] = socket_[t]
                 /\ stack' = stack \/ (\E f \in Frame : f.s = s /\ stack' = <<f>> \o stack)
      <3>1. TypeOK /\ s \in Session /\ by \in {"handler", "user", "destructor"}
            /\ CloseIntern(s, err, by, rd, wr) /\ Accepted(s)
        BY <1>1, <2>1
      <3> QED
        BY ONLY <3>1, ClosingEffect, ZenonT(60)
    <2> QED
      BY <2>1
  <1>3. CallsAccepted'
    <2>1. \A t \in Session : Accepted(t) => Accepted(t)'
      BY <1>2 DEF Accepted
    <2> QED
      BY <1>1, <1>2, <2>1, CallsStayAccepted
  <1>4. phase' = "running" /\ argument' = "none" /\ unclosed' = unclosed
        /\ UNCHANGED <<kind, sessions, id, captured, log, joined, popped>>
    BY DEF serverVars
  <1>5. SessionsFine' /\ NoCallbackAfterServer'
    BY <1>4 DEF SessionsFine, SessionInv, NoCallbackAfterServer
  <1>6. \A t \in Session : /\ socket_'[t] => socket_[t]
                           /\ ~Accepted(t) => socket_'[t]
                           /\ held[t] /\ alive[t] => alive'[t]
    BY <1>2 DEF ServerInv, AcceptedOnce
  <1> QED
    BY <1>2, <1>3, <1>4, <1>5, <1>6, QuietStep

(* No message handler is pending when the io_context runs.                 *)
LEMMA NothingPending ==
  ASSUME ServerInv, stack = <<>>
  PROVE  argument = "none"
  BY DEF ServerInv, AnswerPending

(* A header arrives, or fails to. *)
LEMMA ReadHeaderInv ==
  ASSUME ServerInv, NEW s \in Session, ReadHeader(s)
  PROVE  ServerInv'
  <1>1. PICK h \in PeerHeader : HandleReadHeader(s, h)
    BY DEF ReadHeader
  <1>2. /\ phase = "running" /\ UNCHANGED serverVars /\ stack = <<>>
        /\ reading[s].step = "header" /\ UNCHANGED <<write_queue, held, alive>>
    BY <1>1 DEF ReadHeader, HandleReadHeader
  <1>3. Accepted(s) /\ argument = "none"
    BY <1>2, UntilAccepted, NothingPending
  <1>4. SessionInv'
    BY <1>1, <1>2, ReadHeaderPreserves DEF ServerInv, SessionsFine
  <1>5. \/ UNCHANGED <<socket_, onmessage, onclose, stack>>
        \/ CloseIntern(s, "bad_message", "handler", Idle, writing[s])
        \/ CloseIntern(s, reading[s].res, "handler", Idle, writing[s])
    BY <1>1 DEF HandleReadHeader
  <1> QED
    BY <1>2, <1>3, <1>4, <1>5, IoStep

(* The kernel completes an operation. *)
LEMMA CompletesInv ==
  ASSUME ServerInv, NEW s \in Session, ReadCompletes(s) \/ WriteCompletes(s)
  PROVE  ServerInv'
  <1>1. /\ phase = "running" /\ UNCHANGED serverVars /\ stack = <<>> /\ Kernel(s)
    BY DEF ReadCompletes, WriteCompletes, Kernel
  <1>2. UNCHANGED <<write_queue, held, alive, socket_, onmessage, onclose, stack>>
    BY DEF ReadCompletes, WriteCompletes, ReadDone, WriteDone
  <1>3. reading[s].step # "idle" \/ writing[s].step # "idle"
    BY DEF ReadCompletes, WriteCompletes, ReadDone, WriteDone
  <1>4. Accepted(s) /\ argument = "none"
    BY <1>1, <1>3, UntilAccepted, NothingPending
  <1>5. SessionInv'
    BY <1>1, KernelPreserves DEF ServerInv, SessionsFine
  <1> QED
    BY <1>1, <1>2, <1>4, <1>5, IoStep

(* The payload arrives and the message handler is called. *)
LEMMA DeliverInv ==
  ASSUME ServerInv, NoGarbage, NEW s \in Session, Receive(s), Delivers(s)
  PROVE  ServerInv'
  <1> DEFINE f == [call |-> "onmessage", s |-> s, by |-> "handler"]
  <1>1. /\ phase = "running" /\ stack = <<>> /\ HandleReadPayload(s)
        /\ reading[s].step = "payload"
        /\ UNCHANGED <<kind, sessions, id, captured, phase, unclosed, log, joined, popped>>
        /\ argument' \in {"message", "malformed"}
    <2>1. {"message"} \cup (IF kind = "chat" THEN {"malformed"} ELSE {}) \subseteq {"message", "malformed"}
      OBVIOUS
    <2> QED
      BY <2>1 DEF Receive, HandleReadPayload
  <1>2. /\ stack' = <<f>> /\ reading' = [reading EXCEPT ![s] = Idle]
        /\ UNCHANGED <<socket_, onmessage, onclose, writing, write_queue, held, alive>>
    BY <1>1 DEF Delivers, HandleReadPayload, Failed, Succeeded
  <1>3. Accepted(s)
    BY <1>1, UntilAccepted
  <1>4. f \in Frame /\ f.s = s /\ f.call = "onmessage" /\ f.by = "handler"
    BY DEF Frame
  <1> HIDE DEF f
  <1>5. /\ stack' = <<f>> \o stack /\ stack \in Seq(Frame) /\ Len(stack') = 1 /\ stack'[1] = f
        /\ stack' # <<>> /\ Head(stack') = f
    <2>1. <<f>> = <<f>> \o stack
      BY <1>1, <1>4
    <2> QED
      BY <1>1, <1>2, <1>4, <2>1
  <1>6. SessionsFine' /\ NoCallbackAfterServer'
    <2>1. SessionInv'
      BY <1>1, ReadPayloadPreserves DEF ServerInv, SessionsFine
    <2> QED
      BY <1>1, <2>1 DEF SessionsFine, SessionInv, NoCallbackAfterServer
  <1>7. CallsAccepted'
    <2>1. \A t \in Session : Accepted(t) => Accepted(t)'
      BY <1>2 DEF Accepted
    <2>2. CallsAccepted
      BY DEF ServerInv, AnswerPending
    <2> QED
      BY <1>3, <1>4, <1>5, <2>1, <2>2, CallsStayAccepted
  <1>8. NoGarbage'
    <2>1. OwnedByRunningHandler(s)'
      BY <1>4, <1>5 DEF OwnedByRunningHandler
    <2>2. ASSUME NEW t \in Session, t # s, alive'[t] PROVE Referenced(t)'
      <3>1. Referenced(t) /\ ~OwnedByRunningHandler(t)
        BY <1>1, <1>2, <2>2 DEF NoGarbage, OwnedByRunningHandler
      <3>2. reading'[t] = reading[t]
        BY <1>2, <2>2 DEF ServerInv, SessionsFine, TypeOK
      <3> QED
        BY <1>2, <3>1, <3>2 DEF Referenced
    <2> QED
      BY <2>1, <2>2 DEF NoGarbage, Referenced
  <1>9. AnswerPending'
    BY <1>1, <1>4, <1>5, <1>7, <1>8 DEF AnswerPending
  <1>10. \A t \in Session : ~Accepted(t) => socket_'[t]
    BY <1>2 DEF ServerInv, AcceptedOnce
  <1> QED
    BY <1>1, <1>2, <1>6, <1>7, <1>9, <1>10, QuietStep

(* The payload arrives, or fails to, and nobody is called for it.          *)
LEMMA ReceiveInv ==
  ASSUME ServerInv, NoGarbage, NEW s \in Session, Receive(s)
  PROVE  ServerInv'
  <1>1. CASE Delivers(s)
    BY <1>1, DeliverInv
  <1>2. CASE ~Delivers(s)
    <2>1. /\ phase = "running" /\ stack = <<>> /\ HandleReadPayload(s)
          /\ reading[s].step = "payload" /\ UNCHANGED <<write_queue, held, alive>>
          /\ UNCHANGED serverVars
      BY <1>2 DEF Receive, HandleReadPayload, serverVars
    <2>2. Accepted(s) /\ argument = "none"
      BY <2>1, UntilAccepted, NothingPending
    <2>3. SessionInv'
      BY <2>1, ReadPayloadPreserves DEF ServerInv, SessionsFine
    <2>4. \/ UNCHANGED <<socket_, onmessage, onclose, stack>>
          \/ CloseIntern(s, reading[s].res, "handler", Idle, writing[s])
      BY <1>2, <2>1 DEF HandleReadPayload, Delivers
    <2> QED
      BY <2>1, <2>2, <2>3, <2>4, IoStep
  <1> QED
    BY <1>1, <1>2

(* A message has been written: one less waits, one more has been sent.     *)
LEMMA WrittenInv ==
  ASSUME ServerInv, NEW s \in Session, Write(s), HandleWritePayload(s), Succeeded(writing[s])
  PROVE  ServerInv'
  <1>1. /\ phase = "running" /\ stack = <<>> /\ writing[s].step = "payload"
        /\ write_queue' = [write_queue EXCEPT ![s] = Tail(write_queue[s])]
        /\ popped' = [popped EXCEPT ![s] = popped[s] + 1]
        /\ UNCHANGED <<kind, sessions, id, captured, phase, unclosed, argument, log, joined>>
        /\ UNCHANGED <<socket_, onmessage, onclose, stack, held, alive>>
    BY DEF Write, HandleWritePayload, Failed, Succeeded
  <1>2. ServerTypeOK /\ TypeOK /\ AcceptedOnce /\ SessionInv /\ argument = "none"
    BY <1>1, NothingPending DEF ServerInv, SessionsFine
  <1>3. Accepted(s)
    BY <1>1, UntilAccepted
  <1>4. /\ write_queue[s] \in Seq(Message) /\ write_queue[s] # <<>>
        /\ Len(write_queue[s]) \in Nat \ {0}
        /\ Tail(write_queue[s]) \in Seq(Message)
        /\ Len(Tail(write_queue[s])) = Len(write_queue[s]) - 1
    <2>1. write_queue[s] \in Seq(Message) /\ write_queue[s] # <<>>
      BY <1>1, <1>2 DEF TypeOK, SessionInv, WriterMatchesQueue
    <2>2. \A q \in Seq(Message) : q # <<>> => /\ Len(q) \in Nat \ {0} /\ Tail(q) \in Seq(Message)
                                              /\ Len(Tail(q)) = Len(q) - 1
      OBVIOUS
    <2> QED
      BY <2>1, <2>2
  <1>5. \A t \in Session : /\ Len(log) \in Nat
                           /\ joined[t] <= Len(log) /\ popped[t] \in Nat
                           /\ popped[t] + Len(write_queue[t]) <= Len(log)
                           /\ ~Broadcasts /\ ~Accepted(t) => \A j \in DOMAIN log : log[j] # t
                           /\ QueueOwed(t)
    <2>1. log \in Seq(Message)
      BY <1>2 DEF ServerTypeOK
    <2> QED
      BY <1>2, <2>1 DEF ServerInv, LogFits, ServerTypeOK
  <1>6. /\ write_queue'[s] = Tail(write_queue[s]) /\ popped'[s] = popped[s] + 1
        /\ \A t \in Session : t # s => write_queue'[t] = write_queue[t] /\ popped'[t] = popped[t]
    BY <1>1, <1>2 DEF TypeOK, ServerTypeOK
  <1>7. popped'[s] + Len(write_queue'[s]) <= Len(log)
    <2>1. popped[s] + Len(write_queue[s]) <= Len(log) /\ popped[s] \in Nat /\ Len(log) \in Nat
      BY <1>5
    <2> QED
      BY <1>4, <1>6, <2>1
  <1>8. SessionInv'
    <2>1. WriteHandler(s)
      BY DEF WriteHandler
    <2> QED
      BY <1>2, <2>1, WriteHandlerPreserves
  <1>9. ServerTypeOK'
    <2>1. popped[s] + 1 \in Nat
      BY <1>5
    <2>2. popped' \in [Session -> Nat]
      BY <1>1, <1>2, <2>1 DEF ServerTypeOK
    <2>3. TypeOK'
      BY <1>8 DEF SessionInv
    <2> QED
      BY <1>1, <1>2, <2>2, <2>3 DEF ServerTypeOK
  <1>10. Broadcasts' = Broadcasts /\ \A t : Accepted(t)' = Accepted(t)
    BY <1>1 DEF Broadcasts, Accepted
  <1>11. AcceptedOnce'
    BY <1>1, <1>2, <1>3, <1>6, <1>10 DEF AcceptedOnce
  <1>12. SessionsFine' /\ TableFits' /\ AnswerPending' /\ LoopFits'
    <2>1. SessionsFine'
      BY <1>1, <1>8 DEF SessionsFine, SessionInv
    <2>2. TableFits'
      BY <1>1, <1>10 DEF ServerInv, TableFits, CallbacksFindTheirSession, Accepted
    <2>3. AnswerPending'
      BY <1>1, <1>2, <1>10 DEF ServerInv, AnswerPending, CallsAccepted, Accepted
    <2>4. LoopFits'
      BY <1>1, <1>10 DEF ServerInv, LoopFits, NoCallbackAfterServer
    <2> QED
      BY <2>1, <2>2, <2>3, <2>4
  <1>13. \A t \in Session : Owed(t)' = Owed(t)
    BY <1>1, <1>10 DEF Owed
  <1>14. QueueOwed(s)'
    <2> SUFFICES ASSUME socket_[s]
                 PROVE  /\ popped'[s] <= Len(Owed(s))
                        /\ write_queue'[s] = SubSeq(Owed(s), popped'[s] + 1, Len(Owed(s)))
      BY <1>1, <1>10, <1>13 DEF QueueOwed
    <2>1. /\ popped[s] <= Len(Owed(s)) /\ popped[s] \in Nat
          /\ write_queue[s] = SubSeq(Owed(s), popped[s] + 1, Len(Owed(s)))
      BY <1>1, <1>3, <1>5 DEF QueueOwed
    <2>2. Owed(s) \in Seq(Message)
      BY <1>2, <1>5, OwedTypes
    <2>3. /\ popped[s] + 1 <= Len(Owed(s))
          /\ Tail(SubSeq(Owed(s), popped[s] + 1, Len(Owed(s))))
               = SubSeq(Owed(s), popped[s] + 1 + 1, Len(Owed(s)))
      BY <1>4, <2>1, <2>2, RestTail
    <2> QED
      BY <1>6, <2>1, <2>3
  <1>15. LogFits'
    <2>1. \A t \in Session : QueueOwed(t)'
      <3>1. ASSUME NEW t \in Session, t # s PROVE QueueOwed(t)'
        BY <1>1, <1>5, <1>6, <1>10, <1>13, <3>1 DEF QueueOwed
      <3> QED
        BY <1>14, <3>1
    <2>2. \A t \in Session : popped'[t] + Len(write_queue'[t]) <= Len(log)
      BY <1>5, <1>6, <1>7
    <2> QED
      BY <1>1, <1>5, <1>10, <2>1, <2>2 DEF LogFits
  <1> QED
    BY <1>9, <1>11, <1>12, <1>15 DEF ServerInv

(* The header of a message has been written, or a write has failed.        *)
LEMMA WriteInv ==
  ASSUME ServerInv, NEW s \in Session, Write(s)
  PROVE  ServerInv'
  <1>1. CASE HandleWritePayload(s) /\ Succeeded(writing[s])
    BY <1>1, WrittenInv
  <1>2. CASE ~(HandleWritePayload(s) /\ Succeeded(writing[s]))
    <2>1. /\ phase = "running" /\ WriteHandler(s) /\ stack = <<>> /\ writing[s].step # "idle"
      BY DEF Write, WriteHandler, HandleWriteHeader, HandleWritePayload
    <2>2. UNCHANGED <<write_queue, held, alive>>
      BY <1>2, <2>1 DEF WriteHandler, HandleWriteHeader, HandleWritePayload
    <2>3. UNCHANGED serverVars
      <3>1. popped' = popped
        <4>1. writing[s].step = "payload" /\ Succeeded(writing[s]) => FALSE
          BY <1>2, <2>1 DEF WriteHandler, HandleWriteHeader
        <4>2. popped' = [popped EXCEPT ![s] = popped[s]]
          BY <4>1 DEF Write
        <4>3. popped \in [Session -> Nat]
          BY DEF ServerInv, ServerTypeOK
        <4> QED
          BY <4>2, <4>3
      <3> QED
        BY <3>1 DEF Write, serverVars
    <2>4. Accepted(s) /\ argument = "none"
      BY <2>1, UntilAccepted, NothingPending
    <2>5. SessionInv'
      BY <2>1, WriteHandlerPreserves DEF ServerInv, SessionsFine
    <2>6. \/ UNCHANGED <<socket_, onmessage, onclose, stack>>
          \/ CloseIntern(s, writing[s].res, "handler", reading[s], Idle)
      BY <1>2, <2>1 DEF WriteHandler, HandleWriteHeader, HandleWritePayload
    <2> QED
      BY <2>1, <2>2, <2>3, <2>4, <2>5, <2>6, IoStep
  <1> QED
    BY <1>1, <1>2

(* A callback returns. *)
LEMMA ReturnInv ==
  ASSUME ServerInv, ReturnOnMessage \/ OnClose
  PROVE  ServerInv'
  <1>1. /\ ReturnFromOnMessage \/ ReturnFromOnClose
        /\ UNCHANGED serverVars
        /\ stack # <<>> /\ stack' = Tail(stack)
        /\ UNCHANGED <<write_queue, held, alive, socket_>>
        /\ argument = "none"
    <2>1. CASE ReturnOnMessage
      BY <2>1 DEF ReturnOnMessage, ReturnFromOnMessage
    <2>2. CASE OnClose
      <3>1. UNCHANGED sessions
        BY <2>2 DEF OnClose, Remove
      <3>2. argument = "none"
        BY <2>2 DEF OnClose, ReturnFromOnClose, ServerInv, AnswerPending
      <3> QED
        BY <2>2, <3>1, <3>2 DEF OnClose, ReturnFromOnClose, serverVars
    <2> QED
      BY <2>1, <2>2
  <1>2. TypeOK /\ stack \in Seq(Frame) /\ CallsAccepted
    BY DEF ServerInv, SessionsFine, TypeOK, AnswerPending
  <1>3. SessionsFine'
    <2>1. TypeOK'
      BY <1>1, <1>2, ReturnTypes
    <2>2. ASSUME phase # "gone" PROVE SessionInv'
      <3>1. SessionInv
        BY <2>2 DEF ServerInv, SessionsFine
      <3> QED
        BY <1>1, <3>1, ReturnFromOnMessagePreserves, ReturnFromOnClosePreserves
    <2> QED
      BY <1>1, <2>1, <2>2 DEF SessionsFine, serverVars
  <1>4. Head(stack).s \in Session /\ Accepted(Head(stack).s)
    <2>1. Head(stack) \in Frame /\ Head(stack) = stack[1] /\ Len(stack) >= 1 /\ Len(stack) \in Nat
      BY <1>1, <1>2, PopFrame
    <2> QED
      BY <1>2, <2>1 DEF Frame, CallsAccepted
  <1>5. \A t \in Session : /\ onclose'[t] = "unset" <=> onclose[t] = "unset"
                           /\ onmessage'[t] = "unset" <=> onmessage[t] = "unset"
    <2>1. CASE ReturnFromOnMessage
      BY <2>1 DEF ReturnFromOnMessage
    <2>2. CASE ReturnFromOnClose
      BY <1>2, <1>4, <2>2 DEF ReturnFromOnClose, TypeOK, Removed, Accepted
    <2> QED
      BY <1>1, <2>1, <2>2
  <1>6. CallsAccepted'
    <2>1. \A t \in Session : Accepted(t) => Accepted(t)'
      BY <1>5 DEF Accepted
    <2> QED
      BY <1>1, <1>2, <2>1, CallsStayAccepted
  <1>7. NoCallbackAfterServer'
    BY <1>1 DEF ServerInv, LoopFits, NoCallbackAfterServer, Broadcasts, serverVars
  <1>8. \A t \in Session : ~Accepted(t) => socket_'[t]
    BY <1>1 DEF ServerInv, AcceptedOnce
  <1>9. \A t \in Session : Broadcasts /\ Accepted(t) /\ socket_'[t] /\ phase = "closing"
                             => captured[t] \in unclosed
    BY <1>1 DEF ServerInv, LoopFits
  <1> QED
    BY <1>1, <1>3, <1>5, <1>6, <1>7, <1>8, <1>9, QuietStep DEF serverVars
-----------------------------------------------------------------------------
(* Shutdown. *)

(* The signal stops the io_context and main starts the loop.               *)
LEMMA SignalInv ==
  ASSUME ServerInv, Signal
  PROVE  ServerInv'
  <1>1. /\ phase = "running" /\ stack = <<>> /\ phase' = "closing" /\ unclosed' = DOMAIN sessions
        /\ UNCHANGED vars
        /\ UNCHANGED <<kind, sessions, id, captured, argument, log, joined, popped>>
    BY DEF Signal, ToClose
  <1>2. /\ UNCHANGED <<socket_, onmessage, onclose, write_queue, reading, writing, held, alive,
                       stack, cause, reports>>
        /\ argument = "none" /\ Broadcasts' = Broadcasts /\ \A t : Accepted(t)' = Accepted(t)
    BY <1>1, NothingPending DEF vars, Broadcasts, Accepted
  <1>3. SessionsFine'
    <2>1. SessionInv /\ held \in [Session -> BOOLEAN]
      BY <1>1 DEF ServerInv, SessionsFine, SessionInv, TypeOK
    <2>2. SessionInv'
      BY <1>2, <2>1, HeldPreserves
    <2> QED
      BY <2>2 DEF SessionsFine, SessionInv
  <1>4. ServerTypeOK'
    BY <1>1, <1>3 DEF ServerInv, ServerTypeOK, SessionsFine
  <1>5. AcceptedOnce' /\ TableFits' /\ AnswerPending'
    BY <1>1, <1>2 DEF ServerInv, AcceptedOnce, TableFits, CallbacksFindTheirSession, AnswerPending,
       CallsAccepted, Accepted
  <1>6. LogFits'
    BY <1>1, <1>2 DEF ServerInv, LogFits, QueueOwed
  <1>7. LoopFits'
    BY <1>1, <1>2 DEF ServerInv, TableFits, CallbacksFindTheirSession, LoopFits, NoCallbackAfterServer
  <1> QED
    BY <1>3, <1>4, <1>5, <1>6, <1>7 DEF ServerInv

(* One round of the loop of close(). *)
LEMMA CloseNextInv ==
  ASSUME ServerInv, NEW i \in unclosed, CloseNext(i)
  PROVE  ServerInv'
  <1> DEFINE s == sessions[i]
  <1>1. /\ phase = "closing" /\ stack = <<>> /\ unclosed' = unclosed \ {i}
        /\ CloseIntern(s, "success", "user", reading[s], writing[s])
        /\ UNCHANGED <<write_queue, held, alive, kind, sessions, id, captured, phase, argument, log,
                       joined, popped>>
    BY DEF CloseNext
  <1>2. /\ i \in DOMAIN sessions /\ s \in Session /\ Accepted(s) /\ captured[s] = i
        /\ TypeOK /\ SessionInv /\ CallsAccepted /\ argument = "none" /\ stack \in Seq(Frame)
    BY <1>1, NothingPending DEF ServerInv, ServerTypeOK, TableFits, SessionsFine, AnswerPending, TypeOK
  <1> HIDE DEF s
  <1>3. /\ onclose' = onclose /\ onmessage' = onmessage /\ ~socket_'[s]
        /\ \A t \in Session : t # s => socket_'[t] = socket_[t]
        /\ stack' = stack \/ (\E f \in Frame : f.s = s /\ stack' = <<f>> \o stack)
    BY <1>1, <1>2, ClosingEffect
  <1>4. SessionsFine'
    <2>1. "success" \in Error
      BY DEF Error
    <2>2. SessionInv'
      BY <1>1, <1>2, <2>1, ClosingPreserves
    <2> QED
      BY <2>2 DEF SessionsFine, SessionInv
  <1>5. CallsAccepted'
    <2>1. \A t \in Session : Accepted(t) => Accepted(t)'
      BY <1>3 DEF Accepted
    <2> QED
      BY <1>2, <1>3, <2>1, CallsStayAccepted
  <1>6. NoCallbackAfterServer'
    BY <1>1 DEF NoCallbackAfterServer
  <1>7. \A t \in Session : /\ socket_'[t] => socket_[t]
                           /\ ~Accepted(t) => socket_'[t]
                           /\ held[t] /\ alive[t] => alive'[t]
    BY <1>1, <1>2, <1>3 DEF ServerInv, AcceptedOnce
  <1>8. ASSUME NEW t \in Session, Broadcasts, Accepted(t), socket_'[t]
        PROVE  captured[t] \in unclosed'
    <2>1. captured[t] \in unclosed
      BY <1>1, <1>7, <1>8 DEF ServerInv, LoopFits
    <2>2. captured[t] # i
      <3>1. t # s /\ sessions[captured[t]] = t
        BY <1>1, <1>3, <1>8 DEF ServerInv, TableFits, CallbacksFindTheirSession
      <3> QED
        BY <3>1 DEF s
    <2> QED
      BY <1>1, <2>1, <2>2
  <1> QED
    BY <1>1, <1>2, <1>3, <1>4, <1>5, <1>6, <1>7, <1>8, QuietStep

(* The table is gone before the io_context: by then all its sessions are   *)
(* closed.                                                                 *)
LEMMA DestroyServerInv ==
  ASSUME ServerInv, DestroyServer
  PROVE  ServerInv'
  <1>1. /\ phase = "closing" /\ stack = <<>> /\ unclosed = {} /\ phase' = "destroyed"
        /\ sessions' = <<>> /\ held' = [s \in Session |-> ~Accepted(s)]
        /\ UNCHANGED <<socket_, onmessage, onclose, write_queue, reading, writing, alive,
                       stack, cause, reports, kind, id, captured, unclosed, argument, log,
                       joined, popped>>
    BY DEF DestroyServer
  <1>2. /\ argument = "none" /\ Broadcasts' = Broadcasts /\ \A t : Accepted(t)' = Accepted(t)
        /\ DOMAIN sessions' = {}
    BY <1>1, NothingPending DEF Broadcasts, Accepted
  <1>3. held' \in [Session -> BOOLEAN] /\ \A s \in Session : held'[s] = ~Accepted(s)
    BY <1>1 DEF Accepted
  <1>4. SessionsFine'
    <2>1. SessionInv
      BY <1>1 DEF ServerInv, SessionsFine
    <2>2. SessionInv'
      BY <1>1, <1>3, <2>1, HeldPreserves
    <2> QED
      BY <2>2 DEF SessionsFine, SessionInv
  <1>5. ServerTypeOK'
    BY <1>1, <1>2, <1>4 DEF ServerInv, ServerTypeOK, SessionsFine
  <1>6. AcceptedOnce'
    BY <1>1, <1>2, <1>3 DEF ServerInv, AcceptedOnce, Accepted
  <1>7. TableFits' /\ AnswerPending'
    BY <1>1, <1>2 DEF ServerInv, TableFits, CallbacksFindTheirSession, AnswerPending, CallsAccepted,
       Accepted
  <1>8. LogFits'
    BY <1>1, <1>2 DEF ServerInv, LogFits, QueueOwed
  <1>9. LoopFits'
    BY <1>1, <1>2 DEF ServerInv, LoopFits, NoCallbackAfterServer
  <1> QED
    BY <1>4, <1>5, <1>6, <1>7, <1>8, <1>9 DEF ServerInv

(* The io_context goes, and with it the operations.                        *)
LEMMA DestroyContextInv ==
  ASSUME ServerInv, DestroyContext
  PROVE  ServerInv'
  <1>1. /\ phase = "destroyed" /\ stack = <<>> /\ phase' = "gone"
        /\ reading' = [s \in Session |-> Idle] /\ writing' = [s \in Session |-> Idle]
        /\ UNCHANGED <<socket_, onmessage, onclose, write_queue, held, alive, stack, cause,
                       reports, kind, sessions, id, captured, unclosed, argument, log,
                       joined, popped>>
    BY DEF DestroyContext
  <1>2. TypeOK /\ CallsAccepted /\ argument = "none"
    BY <1>1, NothingPending DEF ServerInv, SessionsFine, AnswerPending
  <1>3. SessionsFine'
    <2>1. TypeOK'
      BY <1>1, <1>2, IdleOp DEF TypeOK
    <2> QED
      BY <1>1, <2>1 DEF SessionsFine
  <1>4. CallsAccepted' /\ NoCallbackAfterServer'
    BY <1>1, <1>2 DEF CallsAccepted, Accepted, NoCallbackAfterServer
  <1>5. \A t \in Session : ~Accepted(t) => socket_'[t]
    BY <1>1 DEF ServerInv, AcceptedOnce
  <1> QED
    BY <1>1, <1>2, <1>3, <1>4, <1>5, QuietStep

-----------------------------------------------------------------------------
(* Accepting and sending. *)

(* A client is accepted: it gets an id of its own, and is owed nothing of  *)
(* what was sent before.                                                   *)
LEMMA AcceptInv ==
  ASSUME ServerInv, NEW s \in Session, Accept(s)
  PROVE  ServerInv'
  <1>1. /\ phase = "running" /\ stack = <<>> /\ ~Accepted(s)
        /\ onclose' = [onclose EXCEPT ![s] = "user"]
        /\ onmessage' = [onmessage EXCEPT ![s] = CASE kind = "chat" -> "user"
                                                   [] kind = "notification" -> "noop"
                                                   [] kind = "echo" -> "owner"]
        /\ held' = [held EXCEPT ![s] = Broadcasts]
        /\ joined' = [joined EXCEPT ![s] = Len(log)]
        /\ Broadcasts => /\ id' = CreateId
                         /\ sessions' = Emplaced(id', s)
                         /\ captured' = [captured EXCEPT ![s] = id']
        /\ ~Broadcasts => UNCHANGED <<id, sessions, captured>>
        /\ UNCHANGED <<socket_, write_queue, writing, alive, stack, cause, reports,
                       kind, phase, unclosed, argument, log, popped>>
    BY DEF Accept
  <1>2. /\ ServerTypeOK /\ TypeOK /\ AcceptedOnce /\ TableFits /\ SessionInv /\ LogFits
        /\ argument = "none" /\ Broadcasts' = Broadcasts
    BY <1>1, NothingPending DEF ServerInv, SessionsFine, Broadcasts
  <1>3. /\ onmessage[s] = "unset" /\ socket_[s] /\ alive[s] /\ held[s]
        /\ popped[s] = 0 /\ write_queue[s] = <<>>
    BY <1>1, <1>2, UntilAccepted DEF AcceptedOnce
  <1>4. kind \in {"chat", "notification", "echo"} /\ Len(log) \in Nat
        /\ log \in Seq(Message)
    BY <1>2, ServerAssumption DEF ServerTypeOK
  <1>5. /\ onclose'[s] = "user" /\ onmessage'[s] # "unset" /\ joined'[s] = Len(log)
        /\ held'[s] = Broadcasts
        /\ \A t \in Session : t # s => /\ onclose'[t] = onclose[t] /\ onmessage'[t] = onmessage[t]
                                       /\ held'[t] = held[t] /\ joined'[t] = joined[t]
    <2>1. onmessage'[s] # "unset"
      <3>1. CASE kind = "chat"
        BY <1>1, <1>2, <3>1 DEF TypeOK
      <3>2. CASE kind = "notification"
        BY <1>1, <1>2, <3>2 DEF TypeOK
      <3>3. CASE kind = "echo"
        BY <1>1, <1>2, <3>3 DEF TypeOK
      <3> QED
        BY <1>4, <3>1, <3>2, <3>3
    <2> QED
      BY <1>1, <1>2, <2>1 DEF TypeOK, ServerTypeOK
  <1>6. /\ Accepted(s)' /\ \A t \in Session : t # s => (Accepted(t)' <=> Accepted(t))
    BY <1>5 DEF Accepted
  <1>7. SessionInv' /\ SessionsFine'
    <2>1. kind \in Kind
      BY <1>2 DEF ServerTypeOK
    <2>2. SessionInv'
      BY <1>2, <1>3, <2>1, AcceptPreserves
    <2> QED
      BY <2>2 DEF SessionsFine, SessionInv
  <1>8. s \notin Registered /\ \A i \in DOMAIN sessions : sessions[i] # s /\ sessions[i] \in Session
    BY <1>1, <1>2 DEF TableFits, Registered, ServerTypeOK
  <1>9. ASSUME Broadcasts
        PROVE  /\ id' \in (1 .. IdCount - 1) \ DOMAIN sessions
               /\ DOMAIN sessions' = DOMAIN sessions \cup {id'}
               /\ sessions'[id'] = s
               /\ \A i \in DOMAIN sessions : sessions'[i] = sessions[i]
               /\ captured'[s] = id'
               /\ \A t \in Session : t # s => captured'[t] = captured[t]
               /\ captured' \in [Session -> 0 .. IdCount - 1]
    <2>1. \A i, j \in DOMAIN sessions : sessions[i] = sessions[j] => i = j
      BY <1>2 DEF TableFits
    <2>2. id' \in (1 .. IdCount - 1) \ DOMAIN sessions
      BY <1>1, <1>2, <1>8, <1>9, <2>1, IdFree, CreateIdIsFree
    <2>3. sessions' = [j \in DOMAIN sessions \cup {id'} |->
                         IF j \in DOMAIN sessions THEN sessions[j] ELSE s]
      BY <1>1, <1>9 DEF Emplaced
    <2>4. IdCount \in Nat /\ id' \in 0 .. IdCount - 1
      BY <2>2, ServerAssumption
    <2>5. /\ DOMAIN sessions' = DOMAIN sessions \cup {id'} /\ sessions'[id'] = s
          /\ \A i \in DOMAIN sessions : sessions'[i] = sessions[i]
      BY <2>2, <2>3
    <2>6. /\ captured' = [captured EXCEPT ![s] = id']
          /\ captured \in [Session -> 0 .. IdCount - 1]
      BY <1>1, <1>2, <1>9 DEF ServerTypeOK
    <2>7. /\ captured'[s] = id' /\ captured' \in [Session -> 0 .. IdCount - 1]
          /\ \A t \in Session : t # s => captured'[t] = captured[t]
      BY <2>4, <2>6
    <2> QED
      BY <2>2, <2>5, <2>7
  <1>10. ServerTypeOK'
    <2>1. TypeOK' /\ joined' \in [Session -> Nat]
      <3>1. Len(log) \in Nat
        BY <1>4
      <3> QED
        BY <1>1, <1>2, <1>7, <3>1 DEF SessionsFine, ServerTypeOK
    <2>2. /\ DOMAIN sessions' \subseteq 1 .. IdCount - 1
          /\ \A i \in DOMAIN sessions' : sessions'[i] \in Session
          /\ id' \in 0 .. IdCount - 1
          /\ captured' \in [Session -> 0 .. IdCount - 1]
          /\ unclosed' \subseteq DOMAIN sessions'
      <3>1. CASE Broadcasts
        <4>1. IdCount \in Nat
          BY ServerAssumption
        <4> QED
          BY <1>1, <1>2, <1>8, <1>9, <3>1, <4>1 DEF ServerTypeOK
      <3>2. CASE ~Broadcasts
        BY <1>1, <1>2, <3>2 DEF ServerTypeOK
      <3> QED
        BY <3>1, <3>2
    <2> QED
      BY <1>1, <1>2, <2>1, <2>2 DEF ServerTypeOK
  <1>11. AcceptedOnce'
    <2> SUFFICES ASSUME NEW t \in Session
                 PROVE  /\ onclose'[t] = "unset" <=> onmessage'[t] = "unset"
                        /\ held'[t] => alive[t]
                        /\ ~Accepted(t)' =>
                             held'[t] /\ socket_[t] /\ popped[t] = 0 /\ write_queue[t] = <<>>
                        /\ Broadcasts /\ Accepted(t)' /\ phase \in {"running", "closing"} => held'[t]
      BY <1>1, <1>2 DEF AcceptedOnce
    <2>1. CASE t = s
      <3>1. onclose'[s] # "unset" /\ Accepted(s)' /\ held'[s] = Broadcasts
        BY <1>5, <1>6
      <3> QED
        BY <1>3, <1>5, <2>1, <3>1
    <2>2. CASE t # s
      <3>1. /\ onclose'[t] = onclose[t] /\ onmessage'[t] = onmessage[t] /\ held'[t] = held[t]
            /\ Accepted(t)' <=> Accepted(t)
        BY <1>5, <1>6, <2>2
      <3> QED
        BY <1>2, <3>1 DEF AcceptedOnce
    <2> QED
      BY <2>1, <2>2
  <1>12. TableFits'
    <2>1. CASE Broadcasts
      <3>1. \A i \in DOMAIN sessions' : /\ onclose'[sessions'[i]] # "unset"
                                        /\ captured'[sessions'[i]] = i
        BY <1>2, <1>5, <1>8, <1>9, <2>1 DEF TableFits, Accepted
      <3>2. \A t \in Session : Accepted(t)' => /\ captured'[t] \in DOMAIN sessions'
                                               /\ sessions'[captured'[t]] = t
        BY <1>1, <1>2, <1>6, <1>9, <2>1 DEF TableFits, CallbacksFindTheirSession
      <3> QED
        BY <3>1, <3>2 DEF TableFits, CallbacksFindTheirSession, Accepted
    <2>2. CASE ~Broadcasts
      BY <1>1, <1>2, <1>5, <1>8, <2>2 DEF TableFits, CallbacksFindTheirSession, Accepted
    <2> QED
      BY <2>1, <2>2
  <1>13. AnswerPending' /\ LoopFits'
    BY <1>1, <1>2 DEF AnswerPending, CallsAccepted, LoopFits, NoCallbackAfterServer
  <1>14. LogFits'
    <2>1. \A t \in Session : t # s =>
            /\ joined'[t] <= Len(log)
            /\ popped[t] + Len(write_queue[t]) <= Len(log)
            /\ ~Broadcasts /\ ~Accepted(t)' => \A j \in DOMAIN log : log[j] # t
            /\ QueueOwed(t)'
      <3>1. \A t \in Session : t # s => Owed(t)' = Owed(t)
        BY <1>1, <1>2, <1>5 DEF Owed
      <3> QED
        BY <1>1, <1>2, <1>5, <1>6, <3>1 DEF LogFits, QueueOwed
    <2>2. popped[s] + Len(write_queue[s]) <= Len(log)
      BY <1>2 DEF LogFits
    <2>3. Owed(s)' = <<>>
      <3>1. CASE Broadcasts
        <4>1. Owed(s)' = SubSeq(log, Len(log) + 1, Len(log))
          BY <1>1, <1>2, <1>5, <3>1 DEF Owed
        <4>2. Len(log) + 1 \in Int /\ Len(log) \in Int /\ Len(log) < Len(log) + 1
          BY <1>4
        <4> QED
          BY <4>1, <4>2, SubSeqEmpty
      <3>2. CASE ~Broadcasts
        <4>1. Mine(s) = {}
          BY <1>1, <1>2, <3>2 DEF LogFits, Mine
        <4>2. Owed(s)' = [i \in 1 .. Cardinality(Mine(s)) |-> s]
          BY <1>1, <1>2, <3>2 DEF Owed, Mine
        <4>3. Cardinality(Mine(s)) = 0
          BY <4>1, FS_EmptySet
        <4>4. [i \in 1 .. 0 |-> s] = <<>>
          OBVIOUS
        <4> QED
          BY <4>2, <4>3, <4>4
      <3> QED
        BY <3>1, <3>2
    <2>4. QueueOwed(s)'
      <3>1. SubSeq(<<>>, 0 + 1, 0) = <<>> /\ Len(<<>>) = 0
        BY SubSeqEmpty
      <3> QED
        BY <1>1, <1>3, <2>3, <3>1 DEF QueueOwed
    <2> QED
      BY <1>1, <1>2, <1>4, <1>5, <1>6, <2>1, <2>2, <2>4 DEF LogFits
  <1> QED
    BY <1>7, <1>10, <1>11, <1>12, <1>13, <1>14 DEF ServerInv

(* The server sends: all that are in the table, or the sender alone, are   *)
(* owed one message more and have it in their queues.                      *)
LEMMA SendAllInv ==
  ASSUME ServerInv, NEW m \in Message, SendAll(m), phase = "running",
         ~Broadcasts => m \in Session /\ Accepted(m) /\ alive[m],
         argument' = "none",
         UNCHANGED <<socket_, onmessage, onclose, reading, held, alive, stack, cause, reports,
                     kind, sessions, id, captured, phase, unclosed, joined, popped>>
  PROVE  ServerInv'
  <1>1. /\ ServerTypeOK /\ TypeOK /\ AcceptedOnce /\ TableFits /\ SessionInv /\ LogFits
        /\ Broadcasts' = Broadcasts /\ \A t : Accepted(t)' = Accepted(t)
    BY DEF ServerInv, SessionsFine, Broadcasts, Accepted
  <1>2. log' = Append(log, m)
    BY DEF SendAll
  <1>3. /\ log \in Seq(Message) /\ Len(log) \in Nat
        /\ log' \in Seq(Message) /\ Len(log') = Len(log) + 1
        /\ DOMAIN log = 1 .. Len(log) /\ DOMAIN log' = 1 .. Len(log) + 1
        /\ log'[Len(log) + 1] = m /\ \A i \in 1 .. Len(log) : log'[i] = log[i]
    <2>1. log \in Seq(Message)
      BY <1>1 DEF ServerTypeOK
    <2> QED
      BY <1>2, <2>1
  <1> DEFINE to == IF Broadcasts THEN Registered ELSE {m}
  <1>4. \A t \in Session : write_queue'[t] = IF t \in to THEN Append(write_queue[t], m)
                                                         ELSE write_queue[t]
    BY DEF SendAll
  <1>5. \A t \in Session : (t \in to <=> Accepted(t) /\ (Broadcasts \/ t = m))
    <2>1. CASE Broadcasts
      BY <1>1, <2>1 DEF TableFits, CallbacksFindTheirSession, Registered
    <2>2. CASE ~Broadcasts
      BY <2>2
    <2> QED
      BY <2>1, <2>2
  <1> HIDE DEF to
  <1>6. SessionInv' /\ SessionsFine'
    <2>1. IF Broadcasts THEN \A i \in DOMAIN sessions : alive[sessions[i]] ELSE alive[m]
      BY <1>1 DEF TableFits, AcceptedOnce, ServerTypeOK
    <2>2. SessionInv'
      BY <1>1, <2>1, SendAllPreserves
    <2> QED
      BY <2>2 DEF SessionsFine, SessionInv
  <1>7. ServerTypeOK'
    BY <1>1, <1>3, <1>6 DEF ServerTypeOK, SessionsFine
  <1>8. AcceptedOnce' /\ TableFits' /\ LoopFits'
    <2>1. AcceptedOnce'
      BY <1>1, <1>4, <1>5 DEF AcceptedOnce
    <2>2. TableFits' /\ LoopFits'
      BY <1>1 DEF ServerInv, TableFits, CallbacksFindTheirSession, LoopFits, NoCallbackAfterServer,
         Accepted
    <2> QED
      BY <2>1, <2>2
  <1>9. AnswerPending'
    BY <1>1 DEF ServerInv, AnswerPending, CallsAccepted, Accepted
  <1>10. ASSUME NEW t \in Session
         PROVE  /\ joined[t] <= Len(log')
                /\ popped[t] + Len(write_queue'[t]) <= Len(log')
                /\ ~Broadcasts /\ ~Accepted(t) => \A j \in DOMAIN log' : log'[j] # t
                /\ QueueOwed(t)'
    <2>1. /\ joined[t] <= Len(log) /\ joined[t] \in Nat /\ popped[t] \in Nat
          /\ popped[t] + Len(write_queue[t]) <= Len(log)
          /\ ~Broadcasts /\ ~Accepted(t) => \A j \in DOMAIN log : log[j] # t
          /\ QueueOwed(t) /\ write_queue[t] \in Seq(Message) /\ Len(write_queue[t]) \in Nat
      BY <1>1, <1>3 DEF LogFits, ServerTypeOK, TypeOK
    <2>2. joined[t] <= Len(log')
      BY <1>3, <2>1
    <2>3. popped[t] + Len(write_queue'[t]) <= Len(log')
      <3>1. Len(Append(write_queue[t], m)) = Len(write_queue[t]) + 1
        BY <2>1
      <3>2. Len(write_queue'[t]) \in {Len(write_queue[t]), Len(write_queue[t]) + 1}
        BY <1>4, <3>1
      <3> QED
        BY <1>3, <2>1, <3>2, SMTT(30)
    <2>4. ~Broadcasts /\ ~Accepted(t) => \A j \in DOMAIN log' : log'[j] # t
      <3> SUFFICES ASSUME ~Broadcasts, ~Accepted(t), NEW j \in 1 .. Len(log) + 1 PROVE log'[j] # t
        BY <1>3
      <3>1. CASE j = Len(log) + 1
        BY <1>3, <3>1
      <3>2. CASE j # Len(log) + 1
        <4>1. j \in 1 .. Len(log)
          BY <1>3, <3>2
        <4> QED
          BY <1>3, <2>1, <4>1
      <3> QED
        BY <3>1, <3>2
    <2>5. QueueOwed(t)'
      <3> SUFFICES ASSUME Accepted(t), socket_[t]
                   PROVE  /\ popped[t] <= Len(Owed(t)')
                          /\ write_queue'[t] = SubSeq(Owed(t)', popped[t] + 1, Len(Owed(t)'))
        BY <1>1 DEF QueueOwed
      <3> DEFINE o == Owed(t)
                 p == popped[t]
      <3>1. o \in Seq(Message) /\ Len(o) \in Nat
        BY <1>1, <2>1, OwedTypes
      <3>2. Owed(t)' = IF Broadcasts \/ t = m THEN Append(o, m) ELSE o
        BY <1>1, <1>2, <1>7, <2>1, OwedAppend
      <3>3. p <= Len(o) /\ p \in Nat /\ write_queue[t] = SubSeq(o, p + 1, Len(o))
        BY <2>1 DEF QueueOwed
      <3>4. Accepted(t)
        OBVIOUS
      <3> HIDE DEF o, p
      <3>5. CASE Broadcasts \/ t = m
        <4>1. Owed(t)' = Append(o, m) /\ write_queue'[t] = Append(write_queue[t], m)
          BY <1>4, <1>5, <3>2, <3>4, <3>5
        <4>2. Len(Append(o, m)) = Len(o) + 1 /\ p <= Len(o) + 1
          BY <3>1, <3>3
        <4>3. Rest(Append(o, m), p) = Append(Rest(o, p), m)
          BY <3>1, <3>3, RestAppend
        <4> QED
          BY <3>3, <4>1, <4>2, <4>3 DEF p, Rest
      <3>6. CASE ~(Broadcasts \/ t = m)
        <4>1. Owed(t)' = o /\ write_queue'[t] = write_queue[t]
          BY <1>4, <1>5, <3>2, <3>6
        <4> QED
          BY <3>3, <4>1 DEF p
      <3> QED
        BY <3>5, <3>6
    <2> QED
      BY <2>2, <2>3, <2>4, <2>5
  <1>11. LogFits'
    BY <1>1, <1>3, <1>10 DEF LogFits
  <1> QED
    BY <1>6, <1>7, <1>8, <1>9, <1>11 DEF ServerInv

(* The timer of the notification server. *)
LEMMA NotifyInv ==
  ASSUME ServerInv, Notify
  PROVE  ServerInv'
  <1>1. /\ phase = "running" /\ stack = <<>> /\ SendAll(Timer)
        /\ Broadcasts /\ Timer \in Message
    BY ServerAssumption DEF Notify, Broadcasts
  <1>2. argument = "none"
    BY <1>1, NothingPending
  <1> QED
    BY <1>1, <1>2, SendAllInv DEF Notify

(* The message handlers of chat and echo. *)
LEMMA OnMessageInv ==
  ASSUME ServerInv, OnMessage
  PROVE  ServerInv'
  <1> DEFINE s == Head(stack).s
  <1>1. /\ argument' = "none" /\ phase = "running"
        /\ stack # <<>> /\ Head(stack).call = "onmessage"
        /\ UNCHANGED <<socket_, onmessage, onclose, reading, held, alive, stack, cause,
                       reports, kind, id, captured, phase, unclosed, joined, popped>>
    BY DEF OnMessage, ServerInv, AnswerPending
  <1>2. /\ SessionInv /\ TypeOK /\ stack \in Seq(Frame) /\ CallsAccepted
    BY <1>1 DEF ServerInv, SessionsFine, TypeOK, AnswerPending
  <1>3. s \in Session /\ Accepted(s) /\ alive[s]
    <2>1. /\ Head(stack) \in Frame /\ Head(stack) = stack[1] /\ 1 \in 1 .. Len(stack)
      BY <1>1, <1>2, PopFrame
    <2>2. s \in Session /\ Accepted(s)
      BY <1>2, <2>1 DEF Frame, CallsAccepted
    <2>3. stack[1].by = "handler"
      BY <1>1, <1>2, <2>1 DEF SessionInv, StackShape
    <2>4. OwnedByRunningHandler(s)
      BY <2>1, <2>3 DEF OwnedByRunningHandler
    <2> QED
      BY <1>2, <2>2, <2>4 DEF SessionInv, AliveWhileInUse
  <1>4. CASE UNCHANGED <<write_queue, writing, log>> /\ UNCHANGED sessions
    <2>1. SessionsFine'
      <3>1. held' \in [Session -> BOOLEAN]
        BY <1>1, <1>2 DEF TypeOK
      <3>2. SessionInv'
        BY <1>1, <1>2, <1>4, <3>1, HeldPreserves
      <3> QED
        BY <3>2 DEF SessionsFine, SessionInv
    <2>2. CallsAccepted' /\ NoCallbackAfterServer'
      BY <1>1, <1>2 DEF CallsAccepted, Accepted, NoCallbackAfterServer
    <2>3. \A t \in Session : ~Accepted(t) => socket_'[t]
      BY <1>1 DEF ServerInv, AcceptedOnce
    <2> QED
      BY <1>1, <1>4, <2>1, <2>2, <2>3, QuietStep
  <1>5. CASE SendAll(s) /\ UNCHANGED sessions
    <2>1. s \in Message
      BY <1>3, ServerAssumption
    <2> HIDE DEF s
    <2> QED
      BY <1>1, <1>3, <1>5, <2>1, SendAllInv
  <1> QED
    BY <1>4, <1>5 DEF OnMessage, Remove
-----------------------------------------------------------------------------
(* The theorems. *)

LEMMA StepServerInv == ServerInv /\ [ServerNext]_allVars => ServerInv'
  <1> SUFFICES ASSUME ServerInv, [ServerNext]_allVars PROVE ServerInv'
    OBVIOUS
  <1>1. ASSUME NEW s \in Session, DestroySession(s) PROVE ServerInv'
    BY <1>1, DestroySessionInv
  <1>2. ASSUME NEW s \in Session, NoGarbage,
               Accept(s) \/ ServerIo(s) \/ ReadCompletes(s) \/ WriteCompletes(s)
        PROVE  ServerInv'
    BY <1>2, AcceptInv, ReadHeaderInv, ReceiveInv, WriteInv, CompletesInv DEF ServerIo
  <1>3. CASE Notify \/ ServerCallback \/ Signal
    BY <1>3, NotifyInv, OnMessageInv, ReturnInv, SignalInv DEF ServerCallback
  <1>4. CASE Stop
    BY <1>4, CloseNextInv, DestroyServerInv, DestroyContextInv DEF Stop
  <1>5. CASE UNCHANGED allVars
    <2>1. UNCHANGED vars /\ UNCHANGED serverVars
      BY <1>5 DEF allVars
    <2>2. /\ UNCHANGED <<socket_, onmessage, onclose, write_queue, reading, writing, held, alive,
                         stack, cause, reports>>
          /\ UNCHANGED <<kind, sessions, id, captured, phase, unclosed, argument, log, joined, popped>>
      BY <2>1 DEF vars, serverVars
    <2>3. ServerTypeOK' /\ AcceptedOnce' /\ TableFits' /\ AnswerPending'
      BY <2>2 DEF ServerInv, ServerTypeOK, TypeOK, AcceptedOnce, TableFits, CallbacksFindTheirSession,
         AnswerPending, CallsAccepted, Accepted, Broadcasts, NoGarbage, Referenced,
         OwnedByRunningHandler
    <2>4. LogFits'
      BY <2>2, ZenonT(60) DEF ServerInv, LogFits, QueueOwed, Owed, Accepted, Broadcasts
    <2>5. LoopFits'
      <3>1. LoopFits
        BY DEF ServerInv
      <3> QED
        BY <2>2, <3>1 DEF LoopFits, NoCallbackAfterServer, Accepted, Broadcasts
    <2>6. SessionsFine'
      <3>1. SessionInv => SessionInv'
        BY <2>1, StepSessionInv
      <3> QED
        BY <2>2, <2>3, <3>1 DEF ServerInv, SessionsFine, ServerTypeOK
    <2> QED
      BY <2>3, <2>4, <2>5, <2>6 DEF ServerInv
  <1> QED
    BY <1>1, <1>2, <1>3, <1>4, <1>5 DEF ServerNext

(* The invariant of the servers, with that of their sessions for as long   *)
(* as the io_context exists.                                               *)
THEOREM ServerInvariant == ServerSpec => []ServerInv
  <1> QED
    BY InitServerInv, StepServerInv, PTL DEF ServerSpec

(* The states of the servers are what they are meant to be; in particular  *)
(* ids stay in their range, and zero is no id.                             *)
THEOREM ServerTypeCorrect == ServerSpec => []ServerTypeOK
  <1>1. ServerInv => ServerTypeOK
    BY DEF ServerInv
  <1> QED
    BY <1>1, ServerInvariant, PTL

(* What was sent to an open session, and what waits in its queue, is       *)
(* together everything that it is owed, in the order of the server: no     *)
(* client misses a message, and no other client's loss changes that.       *)
THEOREM EveryoneGetsEverythingAlways == ServerSpec => []EveryoneGetsEverything
  <1>1. ServerInv => EveryoneGetsEverything
    BY DEF ServerInv, LogFits, QueueOwed, EveryoneGetsEverything
  <1> QED
    BY <1>1, ServerInvariant, PTL

(* create_id never returns an id in use, and no handler calls remove with  *)
(* an id that is not in the table.                                         *)
THEOREM CallbacksFindTheirSessionAlways == ServerSpec => []CallbacksFindTheirSession
  <1>1. ServerInv => CallbacksFindTheirSession
    BY DEF ServerInv, TableFits
  <1> QED
    BY <1>1, ServerInvariant, PTL

(* The handlers that captured the server do not outlive it.                *)
THEOREM NoCallbackAfterServerAlways == ServerSpec => []NoCallbackAfterServer
  <1>1. ServerInv => NoCallbackAfterServer
    BY DEF ServerInv, LoopFits
  <1> QED
    BY <1>1, ServerInvariant, PTL

(* Nothing that the close handlers do inside the loop of close() changes   *)
(* the table that it iterates over.                                        *)
LEMMA LoopStep ==
  ASSUME ServerNext, phase = "closing", phase' = "closing"
  PROVE  sessions' = sessions
  <1>1. ASSUME NEW s \in Session, DestroySession(s) PROVE sessions' = sessions
    BY <1>1 DEF DestroySession, serverVars
  <1>2. ASSUME NEW s \in Session, Accept(s) \/ ServerIo(s) \/ ReadCompletes(s) \/ WriteCompletes(s)
        PROVE  FALSE
    BY <1>2 DEF Accept, ServerIo, ReadHeader, Receive, Write, ReadCompletes, WriteCompletes
  <1>3. ASSUME Notify \/ Signal \/ DestroyServer \/ DestroyContext PROVE FALSE
    BY <1>3 DEF Notify, Signal, DestroyServer, DestroyContext
  <1>4. ASSUME ServerCallback PROVE sessions' = sessions
    BY <1>4 DEF ServerCallback, OnMessage, ReturnOnMessage, OnClose, Remove, serverVars
  <1>5. ASSUME NEW i \in unclosed, CloseNext(i) PROVE sessions' = sessions
    BY <1>5 DEF CloseNext
  <1> QED
    BY <1>1, <1>2, <1>3, <1>4, <1>5 DEF ServerNext, Stop

(* The iterator of the loop stays valid. *)
THEOREM TableStableUnderLoopAlways == ServerSpec => TableStableUnderLoop
  <1>1. [ServerNext]_allVars =>
          [phase = "closing" /\ phase' = "closing" => sessions' = sessions]_allVars
    BY LoopStep
  <1> QED
    BY <1>1, PTL DEF ServerSpec, TableStableUnderLoop
=============================================================================
