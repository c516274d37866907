-------------------------- MODULE SessionLinkProofs --------------------------
(***************************************************************************)
(* The safety of two connected sessions, for all messages that com_message *)
(* can hold, any capacity of the kernel and any number of messages, and    *)
(* that they implement a pair of FIFO channels.                            *)
(***************************************************************************)
EXTENDS SessionLink, AsioSessionProofs, ComMessageProofs, Induction

(* The other one of two sessions. *)
LEMMA PeerProps ==
  ASSUME NEW s \in Session
  PROVE  /\ Peer(s) \in Session /\ Peer(s) # s /\ Peer(Peer(s)) = s
         /\ \A t \in Session : t = s \/ t = Peer(s)
<1>1. PICK a \in Session, b \in Session : a # b /\ Session = {a, b}
  BY LinkAssumption
<1>2. \A t \in Session : Peer(t) \in Session /\ Peer(t) # t
  BY <1>1 DEF Peer
<1> QED BY <1>1, <1>2
-----------------------------------------------------------------------------
(* Sequences of bytes. *)

(* What is left of a sequence, by its first element. *)
LEMMA DropFirst ==
  ASSUME NEW S, NEW x \in Seq(S), NEW n \in Nat, n < Len(x)
  PROVE  SubSeq(x, n + 1, Len(x)) = <<x[n + 1]>> \o SubSeq(x, n + 2, Len(x))
<1>1. n + 1 \in 1 .. Len(x) /\ Len(x) \in n + 1 .. Len(x) /\ (n + 1) + 1 = n + 2
  OBVIOUS
<1> QED BY <1>1, SubSeqRecursiveFirst

(* Nothing is left behind its end. *)
LEMMA DropConcat ==
  ASSUME NEW S, NEW x \in Seq(S), NEW y \in Seq(S), NEW n \in 0 .. Len(x)
  PROVE  SubSeq(x \o y, n + 1, Len(x \o y)) = SubSeq(x, n + 1, Len(x)) \o y
<1> DEFINE z == x \o y  d == SubSeq(x, n + 1, Len(x))  u == SubSeq(z, n + 1, Len(z))
<1>1. /\ z \in Seq(S) /\ Len(z) = Len(x) + Len(y) /\ Len(x) \in Nat /\ Len(y) \in Nat
      /\ \A i \in 1 .. Len(z) : z[i] = IF i <= Len(x) THEN x[i] ELSE y[i - Len(x)]
  OBVIOUS
<1>2. /\ d \in Seq(S) /\ Len(d) = Len(x) - n
      /\ \A i \in 1 .. Len(x) - n : d[i] = x[n + i]
  OBVIOUS
<1> HIDE DEF z
<1>3. /\ u \in Seq(S) /\ Len(u) = Len(z) - n
      /\ \A i \in 1 .. Len(z) - n : u[i] = z[n + i]
  BY <1>1
<1> HIDE DEF d, u
<1>4. /\ d \o y \in Seq(S) /\ Len(d \o y) = Len(u)
      /\ \A i \in 1 .. Len(u) : (d \o y)[i] = IF i <= Len(d) THEN d[i] ELSE y[i - Len(d)]
  <2>1. /\ d \o y \in Seq(S) /\ Len(d \o y) = Len(d) + Len(y)
        /\ \A i \in 1 .. Len(d) + Len(y) : (d \o y)[i] = IF i <= Len(d) THEN d[i] ELSE y[i - Len(d)]
    BY <1>2, ConcatProperties, Zenon
  <2> QED BY <1>1, <1>2, <1>3, <2>1
<1>5. \A i \in 1 .. Len(u) : u[i] = (d \o y)[i]
  <2> TAKE i \in 1 .. Len(u)
  <2>1. u[i] = IF n + i <= Len(x) THEN x[n + i] ELSE y[(n + i) - Len(x)]
    BY <1>1, <1>2, <1>3
  <2>2. (n + i) - Len(x) = i - Len(d) /\ (n + i <= Len(x) <=> i <= Len(d))
    BY <1>1, <1>2, <1>3
  <2>3. i <= Len(d) => d[i] = x[n + i]
    BY <1>1, <1>2, <1>3
  <2> QED BY <1>4, <2>1, <2>2, <2>3
<1>6. u = d \o y
  BY <1>3, <1>4, <1>5, SeqEqual
<1> QED BY <1>6 DEF u, d, z

LEMMA DropAll ==
  ASSUME NEW S, NEW x \in Seq(S), NEW y \in Seq(S)
  PROVE  SubSeq(x \o y, Len(x) + 1, Len(x \o y)) = y
  OBVIOUS

LEMMA DropType ==
  ASSUME NEW S, NEW x \in Seq(S), NEW n \in Nat
  PROVE  SubSeq(x, n + 1, Len(x)) \in Seq(S)
  OBVIOUS

(* Two divisions of a sequence after as many elements are the same. *)
LEMMA SameCut ==
  ASSUME NEW S, NEW x \in Seq(S), NEW y \in Seq(S), NEW u \in Seq(S), NEW v \in Seq(S),
         Len(x) = Len(u), x \o y = u \o v
  PROVE  x = u /\ y = v
<1>1. x = SubSeq(x \o y, 1, Len(x)) /\ u = SubSeq(u \o v, 1, Len(u))
  OBVIOUS
<1>2. x = u
  BY <1>1
<1>3. y = SubSeq(x \o y, Len(x) + 1, Len(x \o y)) /\ v = SubSeq(u \o v, Len(u) + 1, Len(u \o v))
  BY DropAll
<1> QED BY <1>2, <1>3

(* One element goes from the second sequence to the first. *)
LEMMA MoveOne ==
  ASSUME NEW S, NEW x \in Seq(S), NEW y \in Seq(S), y # <<>>
  PROVE  Append(x, Head(y)) \o Tail(y) = x \o y
  OBVIOUS

LEMMA FourAndMore ==
  ASSUME NEW S, NEW x \in Seq(S), NEW y \in Seq(S), Len(x) = 4
  PROVE  x \o y # <<>>
<1>1. Len(x \o y) = Len(x) + Len(y) /\ Len(y) \in Nat
  BY ConcatProperties, LenProperties
<1>2. Len(x \o y) # 0
  BY <1>1
<1> QED BY <1>2

-----------------------------------------------------------------------------
(* Frames. *)

LEMMA MessageType ==
  ASSUME NEW m \in Message
  PROVE  /\ m \in Seq(Byte) /\ Len(m) \in Nat /\ Len(m) > 0 /\ ValidSize(Len(m))
         /\ Len(m) <= com_max_message_size
<1>1. m \in Seq(Byte) /\ ValidSize(Len(m))
  BY LinkAssumption
<1> QED BY <1>1 DEF ValidSize

(* A header is four bytes. *)
LEMMA HeaderType ==
  ASSUME NEW n \in Nat
  PROVE  HeaderOf(n) \in Seq(Byte) /\ Len(HeaderOf(n)) = 4
<1>1. \A w \in {1, 256, 65536} : ByteOf(n, w) \in Byte
  BY DEF ByteOf, Byte
<1>2. 0 \in Byte
  BY DEF Byte
<1> QED BY <1>1, <1>2 DEF HeaderOf

(* Four bytes that have arrived are a header. *)
LEMMA FourBytes ==
  ASSUME NEW h \in Seq(Byte), Len(h) = 4
  PROVE  h \in Header
<1>1. h = <<h[1], h[2], h[3], h[4]>> /\ h[1] \in Byte /\ h[2] \in Byte /\ h[3] \in Byte /\ h[4] \in Byte
  OBVIOUS
<1> QED BY <1>1 DEF Header

LEMMA FrameType ==
  ASSUME NEW m \in Message
  PROVE  FrameOf(m) \in Seq(Byte) /\ Len(FrameOf(m)) = 4 + Len(m)
<1> DEFINE h == HeaderOf(Len(m))
<1>1. m \in Seq(Byte) /\ h \in Seq(Byte) /\ Len(h) = 4
  BY MessageType, HeaderType
<1> HIDE DEF h
<1>2. h \o m \in Seq(Byte) /\ Len(h \o m) = Len(h) + Len(m)
  BY <1>1, ConcatProperties, Zenon
<1>3. h \o m \in Seq(Byte) /\ Len(h \o m) = 4 + Len(m)
  BY <1>1, <1>2
<1> QED BY <1>3 DEF FrameOf, h

Framed(ms) == [i \in DOMAIN ms |-> FrameOf(ms[i])]

LEMMA FramedType ==
  ASSUME NEW ms \in Seq(Message)
  PROVE  Framed(ms) \in Seq(Seq(Byte)) /\ Len(Framed(ms)) = Len(ms)
<1> DEFINE e(i) == FrameOf(ms[i])  m == Len(ms)  A == Seq(Byte)
<1>1. m \in Nat /\ DOMAIN ms = 1 .. m /\ \A i \in 1 .. m : e(i) \in A
  BY FrameType
<1> HIDE DEF e, m, A
<1>2. [i \in 1 .. m |-> e(i)] \in Seq(A)
  BY <1>1, IsASeq
<1>3. Framed(ms) = [i \in 1 .. m |-> e(i)]
  BY <1>1 DEF Framed, e
<1>4. Len([i \in 1 .. m |-> e(i)]) = m
  BY <1>1, <1>2
<1> QED BY <1>2, <1>3, <1>4 DEF A, m

LEMMA FramesType ==
  ASSUME NEW ms \in Seq(Message)
  PROVE  Frames(ms) \in Seq(Byte)
  BY FramedType, FlattenType DEF Frames, Framed

LEMMA FramesEmpty == Frames(<<>>) = <<>>
<1>1. [i \in DOMAIN <<>> |-> FrameOf(<<>>[i])] = <<>>
  OBVIOUS
<1> QED BY <1>1, FlattenEmpty DEF Frames

(* The frames of messages that follow others follow theirs. *)
LEMMA FramesConcat ==
  ASSUME NEW ms \in Seq(Message), NEW ns \in Seq(Message)
  PROVE  Frames(ms \o ns) = Frames(ms) \o Frames(ns)
<1> DEFINE ks == ms \o ns
<1>1. /\ ks \in Seq(Message) /\ Len(ms) \in Nat /\ Len(ns) \in Nat /\ Len(ks) = Len(ms) + Len(ns)
      /\ \A i \in 1 .. Len(ks) : ks[i] = IF i <= Len(ms) THEN ms[i] ELSE ns[i - Len(ms)]
      /\ DOMAIN ms = 1 .. Len(ms) /\ DOMAIN ns = 1 .. Len(ns) /\ DOMAIN ks = 1 .. Len(ks)
  BY ConcatProperties
<1> HIDE DEF ks
<1>2. \A i \in 1 .. Len(ks) :
        Framed(ks)[i] = IF i <= Len(ms) THEN Framed(ms)[i] ELSE Framed(ns)[i - Len(ms)]
  <2>1. /\ \A i \in 1 .. Len(ms) : Framed(ms)[i] = FrameOf(ms[i])
        /\ \A i \in 1 .. Len(ns) : Framed(ns)[i] = FrameOf(ns[i])
        /\ \A i \in 1 .. Len(ks) : Framed(ks)[i] = FrameOf(ks[i])
    BY <1>1 DEF Framed
  <2>2. \A i \in 1 .. Len(ks) : IF i <= Len(ms) THEN i \in 1 .. Len(ms) ELSE i - Len(ms) \in 1 .. Len(ns)
    BY <1>1
  <2> QED BY <1>1, <2>1, <2>2
<1>3. Framed(ks) = Framed(ms) \o Framed(ns)
  <2> DEFINE A == Seq(Byte)  x == Framed(ms)  y == Framed(ns)  z == Framed(ks)
  <2>1. /\ x \in Seq(A) /\ y \in Seq(A) /\ z \in Seq(A)
        /\ Len(x) = Len(ms) /\ Len(y) = Len(ns) /\ Len(z) = Len(ks)
    BY <1>1, FramedType
  <2>2. \A i \in 1 .. Len(ks) : z[i] = IF i <= Len(ms) THEN x[i] ELSE y[i - Len(ms)]
    BY <1>2
  <2> HIDE DEF A, x, y, z
  <2>3. /\ x \o y \in Seq(A) /\ Len(x \o y) = Len(z)
        /\ \A i \in 1 .. Len(z) : (x \o y)[i] = IF i <= Len(ms) THEN x[i] ELSE y[i - Len(ms)]
    <3>1. /\ x \o y \in Seq(A) /\ Len(x \o y) = Len(x) + Len(y)
          /\ \A i \in 1 .. Len(x) + Len(y) : (x \o y)[i] = IF i <= Len(x) THEN x[i] ELSE y[i - Len(x)]
      BY <2>1, ConcatProperties, Zenon
    <3> QED BY <1>1, <2>1, <3>1
  <2>4. \A i \in 1 .. Len(z) : z[i] = (x \o y)[i]
    BY <2>1, <2>2, <2>3
  <2>5. z = x \o y
    BY <2>1, <2>3, <2>4, SeqEqual
  <2> QED BY <2>5 DEF x, y, z
<1>4. FlattenSeq(Framed(ms) \o Framed(ns)) = FlattenSeq(Framed(ms)) \o FlattenSeq(Framed(ns))
  BY FramedType, FlattenConcat
<1> QED BY <1>3, <1>4 DEF Frames, Framed, ks

LEMMA FramesOne ==
  ASSUME NEW m \in Message
  PROVE  Frames(<<m>>) = FrameOf(m)
<1> DEFINE f == FrameOf(m)
<1>1. Framed(<<m>>) = <<f>>
  BY DEF Framed
<1>2. f \in Seq(Byte) /\ <<>> \in Seq(Seq(Byte))
  BY FrameType, EmptySeq
<1> HIDE DEF f
<1>3. Append(<<>>, f) = <<f>> /\ <<>> \o f = f
  BY <1>2
<1>4. FlattenSeq(Append(<<>>, f)) = FlattenSeq(<<>>) \o f
  BY <1>2, FlattenAppend
<1> QED BY <1>1, <1>3, <1>4, FlattenEmpty DEF Frames, Framed, f

LEMMA FramesAppend ==
  ASSUME NEW ms \in Seq(Message), NEW m \in Message
  PROVE  Frames(Append(ms, m)) = Frames(ms) \o FrameOf(m)
<1>1. Append(ms, m) = ms \o <<m>> /\ <<m>> \in Seq(Message)
  OBVIOUS
<1> QED BY <1>1, FramesConcat, FramesOne

LEMMA FramesFirst ==
  ASSUME NEW ms \in Seq(Message), ms # <<>>
  PROVE  /\ Head(ms) \in Message /\ Tail(ms) \in Seq(Message)
         /\ Frames(ms) = FrameOf(Head(ms)) \o Frames(Tail(ms))
<1>1. /\ Head(ms) \in Message /\ Tail(ms) \in Seq(Message) /\ <<Head(ms)>> \in Seq(Message)
      /\ ms = <<Head(ms)>> \o Tail(ms)
  OBVIOUS
<1> QED BY <1>1, FramesConcat, FramesOne
-----------------------------------------------------------------------------
(* The inductive invariant. *)

ByteTypes ==
  /\ wire \in [Session -> Seq(Byte)] /\ \A s \in Session : Len(wire[s]) <= Capacity
  /\ got \in [Session -> Seq(Byte)]
  /\ put \in [Session -> Nat]
  /\ parsed \in [Session -> 0 .. com_max_message_size]
  /\ sent \in [Session -> Seq(Message)]
  /\ delivered \in [Session -> Seq(Message)]

(* Users set their handlers and keep their sessions; a closed session has  *)
(* no write that could go on.                                              *)
Ready(s) ==
  /\ held[s] /\ alive[s]
  /\ socket_[s] => onmessage[s] = "user" /\ onclose[s] = "user"
  /\ ~socket_[s] /\ writing[s].step # "idle" => writing[s].res # "pending"

(* A read has as many bytes as it wanted exactly when it has succeeded.    *)
ReaderFits(s) ==
  /\ reading[s].step = "idle" => got[s] = <<>>
  /\ reading[s].step = "payload" => parsed[s] > 0
  /\ reading[s].step # "idle" /\ reading[s].res = "pending" => Len(got[s]) < Wanted(s)
  /\ reading[s].step # "idle" /\ reading[s].res = "ok" => Len(got[s]) = Wanted(s)

(* A write that is not complete has something left to write; the next one  *)
(* begins at the start of its buffer.                                      *)
WriterFits(s) ==
  socket_[s] =>
    /\ writing[s].step # "idle" /\ writing[s].res # "ok" => put[s] < Len(Buffer(s))
    /\ writing[s].step = "idle" \/ writing[s].res = "ok" => put[s] = 0

(* An open session has delivered the first of its peer's messages, and the *)
(* frames of all others are the stream of bytes that comes next.  When its *)
(* peer is closed too, the end of that stream is lost.                     *)
Flow(s) ==
  socket_[s] =>
    \E todo \in Seq(Message), rest \in Seq(Byte) :
      /\ sent[Peer(s)] = delivered[s] \o todo
      /\ Frames(todo) = (Received(s) \o wire[s]) \o rest
      /\ socket_[Peer(s)] => rest = Unwritten(Peer(s))

LinkInv ==
  /\ SessionInv
  /\ ByteTypes
  /\ \A s \in Session : Ready(s) /\ ReaderFits(s) /\ WriterFits(s) /\ Flow(s)

(* The invariant of both sessions, by those of the one that acts and of    *)
(* its peer.                                                               *)
LEMMA BothInv ==
  ASSUME NEW s \in Session, SessionInv', ByteTypes',
         Ready(s)', ReaderFits(s)', WriterFits(s)', Flow(s)',
         Ready(Peer(s))', ReaderFits(Peer(s))', WriterFits(Peer(s))', Flow(Peer(s))'
  PROVE  LinkInv'
<1>1. ASSUME NEW t \in Session
      PROVE  Ready(t)' /\ ReaderFits(t)' /\ WriterFits(t)' /\ Flow(t)'
  <2>1. CASE t = s
    BY <2>1
  <2>2. CASE t = Peer(s)
    BY <2>2
  <2> QED BY <2>1, <2>2, PeerProps
<1> QED BY <1>1 DEF LinkInv

(* A step leaves a session as it is, but for the bytes that wait for it    *)
(* and for the handlers that a closed one no longer needs.                 *)
Same(t) ==
  /\ socket_'[t] = socket_[t]
  /\ socket_[t] => onmessage'[t] = onmessage[t] /\ onclose'[t] = onclose[t]
  /\ write_queue'[t] = write_queue[t] /\ reading'[t] = reading[t] /\ writing'[t] = writing[t]
  /\ held'[t] = held[t] /\ alive'[t] = alive[t]
  /\ got'[t] = got[t] /\ put'[t] = put[t] /\ parsed'[t] = parsed[t]
  /\ sent'[t] = sent[t] /\ delivered'[t] = delivered[t]

LEMMA SameKeeps ==
  ASSUME NEW t \in Session, Ready(t), ReaderFits(t), WriterFits(t), Same(t)
  PROVE  /\ Ready(t)' /\ ReaderFits(t)' /\ WriterFits(t)'
         /\ Received(t)' = Received(t) /\ Unwritten(t)' = Unwritten(t)
<1> USE DEF Same
<1>1. Buffer(t)' = Buffer(t) /\ Wanted(t)' = Wanted(t)
  BY DEF Buffer, Wanted
<1>2. Written(t)' = Written(t) /\ Received(t)' = Received(t)
  BY <1>1 DEF Written, Received
<1>3. Unwritten(t)' = Unwritten(t)
  BY <1>2 DEF Unwritten
<1> QED BY <1>1, <1>2, <1>3 DEF Ready, ReaderFits, WriterFits

(* The invariant after a step of s that leaves its peer as it is.          *)
LEMMA OneMoves ==
  ASSUME LinkInv, NEW s \in Session, Same(Peer(s)), SessionInv', ByteTypes',
         Ready(s)', ReaderFits(s)', WriterFits(s)', Flow(s)', Flow(Peer(s))'
  PROVE  LinkInv'
<1>1. Ready(Peer(s))' /\ ReaderFits(Peer(s))' /\ WriterFits(Peer(s))'
  BY PeerProps, SameKeeps DEF LinkInv
<1> QED BY <1>1, BothInv

(* The reader of s, and its writer, depend on their own variables only.    *)
LEMMA SameReader ==
  ASSUME NEW s \in Session, reading'[s] = reading[s], got'[s] = got[s], parsed'[s] = parsed[s]
  PROVE  Received(s)' = Received(s) /\ Wanted(s)' = Wanted(s)
  BY DEF Received, Wanted

LEMMA SameWriter ==
  ASSUME NEW s \in Session, write_queue'[s] = write_queue[s], writing'[s] = writing[s],
         put'[s] = put[s]
  PROVE  Buffer(s)' = Buffer(s) /\ Written(s)' = Written(s) /\ Unwritten(s)' = Unwritten(s)
<1>1. Buffer(s)' = Buffer(s)
  BY DEF Buffer
<1>2. Written(s)' = Written(s)
  BY <1>1 DEF Written
<1> QED BY <1>1, <1>2 DEF Unwritten
-----------------------------------------------------------------------------
(* What a step does to the direction to s. *)

(* The next bytes are the same, wherever they are now. *)
LEMMA FlowKept ==
  ASSUME NEW s \in Session, Flow(s), sent'[Peer(s)] = sent[Peer(s)],
         socket_'[s] =>
           /\ socket_[s] /\ delivered'[s] = delivered[s]
           /\ Received(s)' \o wire'[s] = Received(s) \o wire[s],
         socket_'[s] /\ socket_'[Peer(s)] =>
           socket_[Peer(s)] /\ Unwritten(Peer(s))' = Unwritten(Peer(s))
  PROVE  Flow(s)'
<1> SUFFICES ASSUME socket_'[s]
             PROVE  \E todo \in Seq(Message), rest \in Seq(Byte) :
                      /\ sent'[Peer(s)] = delivered'[s] \o todo
                      /\ Frames(todo) = (Received(s)' \o wire'[s]) \o rest
                      /\ socket_'[Peer(s)] => rest = Unwritten(Peer(s))'
  BY DEF Flow
<1>1. PICK todo \in Seq(Message), rest \in Seq(Byte) :
        /\ sent[Peer(s)] = delivered[s] \o todo
        /\ Frames(todo) = (Received(s) \o wire[s]) \o rest
        /\ socket_[Peer(s)] => rest = Unwritten(Peer(s))
  BY DEF Flow
<1> QED BY <1>1, Zenon

LEMMA ReceivedType ==
  ASSUME ByteTypes, NEW s \in Session
  PROVE  Received(s) \in Seq(Byte) /\ Received(s) \o wire[s] \in Seq(Byte)
<1>1. wire[s] \in Seq(Byte) /\ got[s] \in Seq(Byte) /\ parsed[s] \in Nat
  BY DEF ByteTypes
<1> DEFINE h == HeaderOf(parsed[s])
<1>2. h \in Seq(Byte)
  BY <1>1, HeaderType
<1> HIDE DEF h
<1>3. h \o got[s] \in Seq(Byte)
  BY <1>1, <1>2, ConcatProperties, Zenon
<1>4. Received(s) \in Seq(Byte)
  BY <1>1, <1>3 DEF Received, h
<1>5. Received(s) \o wire[s] \in Seq(Byte)
  BY <1>1, <1>4, ConcatProperties, Zenon
<1> QED BY <1>4, <1>5

(* The peer sends one more message. *)
LEMMA FlowSent ==
  ASSUME NEW s \in Session, NEW m \in Message, LinkInv,
         sent'[Peer(s)] = Append(sent[Peer(s)], m),
         socket_'[s] = socket_[s], socket_'[Peer(s)] = socket_[Peer(s)],
         delivered'[s] = delivered[s], Received(s)' = Received(s), wire'[s] = wire[s],
         socket_[Peer(s)] => Unwritten(Peer(s))' = Unwritten(Peer(s)) \o FrameOf(m)
  PROVE  Flow(s)'
<1> SUFFICES ASSUME socket_[s]
             PROVE  \E todo \in Seq(Message), rest \in Seq(Byte) :
                      /\ sent'[Peer(s)] = delivered[s] \o todo
                      /\ Frames(todo) = (Received(s) \o wire[s]) \o rest
                      /\ socket_[Peer(s)] => rest = Unwritten(Peer(s))'
  BY DEF Flow
<1> DEFINE f == FrameOf(m)  x == Received(s) \o wire[s]
<1>1. PICK todo \in Seq(Message), rest \in Seq(Byte) :
        /\ sent[Peer(s)] = delivered[s] \o todo
        /\ Frames(todo) = x \o rest
        /\ socket_[Peer(s)] => rest = Unwritten(Peer(s))
  BY DEF Flow, LinkInv
<1>2. /\ delivered[s] \in Seq(Message) /\ f \in Seq(Byte) /\ x \in Seq(Byte)
      /\ Frames(Append(todo, m)) = Frames(todo) \o f
  BY FrameType, ReceivedType, FramesAppend DEF LinkInv, ByteTypes
<1> HIDE DEF f, x
<1>3. Append(todo, m) \in Seq(Message) /\ rest \o f \in Seq(Byte)
  BY <1>2
<1>4. sent'[Peer(s)] = delivered[s] \o Append(todo, m)
  <2> DEFINE d == delivered[s]
  <2>1. d \in Seq(Message)
    BY <1>2
  <2> HIDE DEF d
  <2>2. d \o Append(todo, m) = Append(d \o todo, m)
    BY <2>1
  <2> QED BY <1>1, <2>2 DEF d
<1>5. Frames(Append(todo, m)) = x \o (rest \o f)
  <2>1. (x \o rest) \o f = x \o (rest \o f)
    BY <1>2, ConcatAssociative, SMTT(30)
  <2> QED BY <1>1, <1>2, <2>1
<1>6. socket_[Peer(s)] => rest \o f = Unwritten(Peer(s))'
  BY <1>1 DEF f
<1> QED BY <1>3, <1>4, <1>5, <1>6 DEF x

(* The next byte that the peer writes is under way. *)
LEMMA FlowWritten ==
  ASSUME NEW s \in Session, NEW b \in Byte, LinkInv, sent' = sent, delivered' = delivered,
         socket_' = socket_, socket_[Peer(s)], Received(s)' = Received(s),
         wire'[s] = Append(wire[s], b),
         Unwritten(Peer(s))' \in Seq(Byte),
         Unwritten(Peer(s)) = <<b>> \o Unwritten(Peer(s))'
  PROVE  Flow(s)'
<1> SUFFICES ASSUME socket_[s]
             PROVE  \E todo \in Seq(Message), rest \in Seq(Byte) :
                      /\ sent[Peer(s)] = delivered[s] \o todo
                      /\ Frames(todo) = (Received(s) \o wire'[s]) \o rest
                      /\ rest = Unwritten(Peer(s))'
  BY DEF Flow
<1> DEFINE x == Received(s)  w == wire[s]  v == Unwritten(Peer(s))'
<1>1. PICK todo \in Seq(Message) :
        /\ sent[Peer(s)] = delivered[s] \o todo
        /\ Frames(todo) = (x \o w) \o (<<b>> \o v)
  BY DEF Flow, LinkInv
<1>2. x \in Seq(Byte) /\ w \in Seq(Byte) /\ v \in Seq(Byte)
  BY ReceivedType DEF LinkInv, ByteTypes
<1> HIDE DEF x, w, v
<1>3. (x \o w) \o (<<b>> \o v) = (x \o Append(w, b)) \o v
  <2> DEFINE a == x \o w
  <2>1. a \in Seq(Byte) /\ x \o Append(w, b) = Append(a, b)
    BY <1>2
  <2> HIDE DEF a
  <2>2. Append(a, b) \o v = a \o (<<b>> \o v)
    <3> DEFINE c == <<b>>
    <3>1. a \in Seq(Byte) /\ v \in Seq(Byte) /\ c \in Seq(Byte) /\ Append(a, b) = a \o c
      BY <1>2, <2>1
    <3> HIDE DEF c
    <3>2. (a \o c) \o v = a \o (c \o v)
      BY <3>1, ConcatAssociative, SMTT(30)
    <3> QED BY <3>1, <3>2 DEF c
  <2> QED BY <2>1, <2>2 DEF a
<1> QED BY <1>1, <1>2, <1>3 DEF x, w, v
-----------------------------------------------------------------------------
(* The frame that s reads, of a stream of legal frames. *)

(* A header that has arrived is that of the next message. *)
LEMMA HeaderArrived ==
  ASSUME LinkInv, NEW s \in Session, socket_[s], reading[s].step = "header",
         Succeeded(reading[s])
  PROVE  AcceptsHeader(got[s]) /\ HeaderOf(ParsedLength(got[s])) = got[s]
<1>1. PICK todo \in Seq(Message), rest \in Seq(Byte) :
        Frames(todo) = (Received(s) \o wire[s]) \o rest
  BY DEF Flow, LinkInv
<1> DEFINE h == got[s]  w == wire[s]
<1>2. h \in Seq(Byte) /\ w \in Seq(Byte) /\ Len(h) = 4 /\ Received(s) = h
  BY DEF LinkInv, ByteTypes, ReaderFits, Wanted, Succeeded, Received
<1> HIDE DEF h, w
<1>3. Frames(todo) = h \o (w \o rest) /\ w \o rest \in Seq(Byte)
  <2>1. (h \o w) \o rest = h \o (w \o rest) /\ w \o rest \in Seq(Byte)
    BY <1>2
  <2> QED BY <1>1, <1>2, <2>1 DEF w
<1>4. todo # <<>>
  <2> DEFINE v == w \o rest
  <2>1. v \in Seq(Byte)
    BY <1>3
  <2> HIDE DEF v
  <2>2. h \o v # <<>>
    BY <1>2, <2>1, FourAndMore
  <2> QED BY <1>3, <2>2, FramesEmpty DEF v
<1> DEFINE m == Head(todo)  n == Len(m)  k == HeaderOf(n)  fs == Frames(Tail(todo))
<1>5. m \in Message /\ Tail(todo) \in Seq(Message) /\ Frames(todo) = (k \o m) \o fs
  BY <1>4, FramesFirst DEF FrameOf
<1>6. n \in Nat /\ ValidSize(n) /\ m \in Seq(Byte) /\ k \in Seq(Byte) /\ Len(k) = 4 /\ fs \in Seq(Byte)
  BY <1>5, MessageType, HeaderType, FramesType
<1>7. AcceptsHeader(k) /\ ParsedLength(k) = n
  BY <1>6, HeaderRoundTrip
<1> HIDE DEF k, fs, m, n
<1>8. h = k
  <2>1. (k \o m) \o fs = k \o (m \o fs) /\ m \o fs \in Seq(Byte)
    BY <1>6
  <2>2. Len(h) = Len(k) /\ h \o (w \o rest) = k \o (m \o fs)
    BY <1>2, <1>3, <1>5, <1>6, <2>1
  <2> QED BY <1>2, <1>3, <1>6, <2>1, <2>2, SameCut
<1> QED BY <1>7, <1>8 DEF h, k

(* A payload that has arrived is the next message. *)
LEMMA PayloadArrived ==
  ASSUME LinkInv, NEW s \in Session, socket_[s], reading[s].step = "payload",
         Succeeded(reading[s])
  PROVE  \E todo \in Seq(Message), rest \in Seq(Byte) :
           /\ got[s] \in Message
           /\ sent[Peer(s)] = (delivered[s] \o <<got[s]>>) \o todo
           /\ Frames(todo) = wire[s] \o rest
           /\ socket_[Peer(s)] => rest = Unwritten(Peer(s))
<1>1. PICK old \in Seq(Message), rest \in Seq(Byte) :
        /\ sent[Peer(s)] = delivered[s] \o old
        /\ Frames(old) = (Received(s) \o wire[s]) \o rest
        /\ socket_[Peer(s)] => rest = Unwritten(Peer(s))
  BY DEF Flow, LinkInv
<1> DEFINE g == got[s]  w == wire[s]  l == parsed[s]  h == HeaderOf(l)  v == w \o rest
           d == delivered[s]
<1>2. /\ g \in Seq(Byte) /\ w \in Seq(Byte) /\ Len(g) = l /\ Received(s) = h \o g
      /\ l \in Nat /\ ValidSize(l) /\ d \in Seq(Message)
  BY DEF LinkInv, ByteTypes, ReaderFits, Wanted, Succeeded, Received, ValidSize
<1>3. h \in Seq(Byte) /\ Len(h) = 4 /\ AcceptsHeader(h) /\ ParsedLength(h) = l /\ v \in Seq(Byte)
  BY <1>2, HeaderType, HeaderRoundTrip
<1> HIDE DEF h, g, l, d
<1>4. Frames(old) = h \o (g \o v) /\ g \o v \in Seq(Byte)
  <2> DEFINE a == h \o g
  <2>1. a \in Seq(Byte) /\ w \in Seq(Byte) /\ v \in Seq(Byte)
    BY <1>2, <1>3
  <2>2. Frames(old) = (a \o w) \o rest
    BY <1>1, <1>2
  <2>3. (a \o w) \o rest = a \o v
    <3> HIDE DEF a, w
    <3> QED BY <2>1
  <2>4. a \o v = h \o (g \o v) /\ g \o v \in Seq(Byte)
    <3> HIDE DEF v, w
    <3> QED BY <1>2, <1>3, SMTT(30)
  <2> QED BY <2>2, <2>3, <2>4
<1> HIDE DEF w, v
<1>5. old # <<>>
  <2> DEFINE u == g \o v
  <2>1. u \in Seq(Byte)
    BY <1>4
  <2> HIDE DEF u
  <2>2. h \o u # <<>>
    BY <1>3, <2>1, FourAndMore
  <2> QED BY <1>4, <2>2, FramesEmpty DEF u
<1> DEFINE m == Head(old)  n == Len(m)  k == HeaderOf(n)  todo == Tail(old)  fs == Frames(todo)
<1>6. /\ m \in Message /\ todo \in Seq(Message) /\ Frames(old) = (k \o m) \o fs
      /\ old = <<m>> \o todo
  <2>1. old = <<Head(old)>> \o Tail(old)
    BY <1>5
  <2> QED BY <1>5, <2>1, FramesFirst DEF FrameOf
<1>7. n \in Nat /\ ValidSize(n) /\ m \in Seq(Byte) /\ k \in Seq(Byte) /\ Len(k) = 4 /\ fs \in Seq(Byte)
  BY <1>6, MessageType, HeaderType, FramesType
<1>8. AcceptsHeader(k) /\ ParsedLength(k) = n
  BY <1>7, HeaderRoundTrip
<1>9. n = Len(m)
  OBVIOUS
<1> HIDE DEF k, fs, m, n, todo
<1>10. h = k /\ g \o v = m \o fs
  <2>1. (k \o m) \o fs = k \o (m \o fs) /\ m \o fs \in Seq(Byte)
    BY <1>7
  <2>2. Len(h) = Len(k) /\ h \o (g \o v) = k \o (m \o fs)
    BY <1>3, <1>4, <1>6, <1>7, <2>1
  <2> QED BY <1>3, <1>4, <1>7, <2>1, <2>2, SameCut
<1>11. g = m /\ v = fs
  <2>1. Len(g) = Len(m)
    BY <1>2, <1>3, <1>8, <1>9, <1>10
  <2> QED BY <1>2, <1>3, <1>7, <1>10, <2>1, SameCut
<1>12. d \o old = (d \o <<m>>) \o todo
  <2> DEFINE c == <<m>>
  <2>1. c \in Seq(Message) /\ d \in Seq(Message) /\ todo \in Seq(Message) /\ old = c \o todo
    BY <1>2, <1>6
  <2> HIDE DEF c
  <2>2. d \o (c \o todo) = (d \o c) \o todo
    BY <2>1, ConcatAssociative, SMTT(30)
  <2> QED BY <2>1, <2>2 DEF c
<1>13. sent[Peer(s)] = (d \o <<g>>) \o todo /\ Frames(todo) = v /\ g \in Message
  BY <1>1, <1>6, <1>11, <1>12 DEF d, fs
<1> QED BY <1>1, <1>6, <1>13 DEF d, g, v, w
-----------------------------------------------------------------------------
(* The writer. *)

(* The buffers of the front message, and its frame in front of the others. *)
LEMMA FrontMessage ==
  ASSUME TypeOK, NEW s \in Session, write_queue[s] # <<>>
  PROVE  LET m == Head(write_queue[s])
         IN  /\ m \in Message /\ Tail(write_queue[s]) \in Seq(Message)
             /\ Frames(write_queue[s]) = FrameOf(m) \o Frames(Tail(write_queue[s]))
             /\ m \in Seq(Byte) /\ HeaderOf(Len(m)) \in Seq(Byte) /\ Len(m) \in Nat \ {0}
             /\ Len(HeaderOf(Len(m))) = 4
             /\ FrameOf(m) \in Seq(Byte) /\ Len(FrameOf(m)) = 4 + Len(m)
             /\ Frames(Tail(write_queue[s])) \in Seq(Byte)
             /\ Frames(write_queue[s]) \in Seq(Byte)
<1> DEFINE q == write_queue[s]  m == Head(q)
<1>1. q \in Seq(Message) /\ q # <<>>
  BY DEF TypeOK
<1> HIDE DEF q
<1>2. /\ m \in Message /\ Tail(q) \in Seq(Message)
      /\ Frames(q) = FrameOf(m) \o Frames(Tail(q))
  BY <1>1, FramesFirst
<1> HIDE DEF m
<1>3. m \in Seq(Byte) /\ Len(m) \in Nat \ {0}
  BY <1>2, MessageType
<1>4. /\ HeaderOf(Len(m)) \in Seq(Byte) /\ Len(HeaderOf(Len(m))) = 4
      /\ FrameOf(m) \in Seq(Byte) /\ Len(FrameOf(m)) = 4 + Len(m)
  BY <1>2, <1>3, HeaderType, FrameType
<1>5. Frames(Tail(q)) \in Seq(Byte) /\ Frames(q) \in Seq(Byte)
  BY <1>1, <1>2, FramesType
<1> QED BY <1>2, <1>3, <1>4, <1>5 DEF m, q

(* The byte that goes next is the one behind those that are written. *)
LEMMA NextByte ==
  ASSUME LinkInv, NEW s \in Session, socket_[s], writing[s].step # "idle",
         writing[s].res = "pending"
  PROVE  LET b == Buffer(s)[put[s] + 1]
             frames == Frames(write_queue[s])
         IN  /\ b \in Byte /\ Written(s) \in Nat /\ put[s] + 1 <= Len(Buffer(s))
             /\ Len(Buffer(s)) \in Nat
             /\ SubSeq(frames, Written(s) + 2, Len(frames)) \in Seq(Byte)
             /\ Unwritten(s) = <<b>> \o SubSeq(frames, Written(s) + 2, Len(frames))
<1> DEFINE q == write_queue[s]  m == Head(q)  h == HeaderOf(Len(m))  f == FrameOf(m)
           fs == Frames(q)  ts == Frames(Tail(q))  b == Buffer(s)[put[s] + 1]  n == Written(s)
<1>1. q # <<>> /\ TypeOK /\ writing[s].step \in {"header", "payload"}
  BY DEF LinkInv, SessionInv, WriterMatchesQueue, OneReadOneWrite, TypeOK, Op
<1>2. /\ m \in Seq(Byte) /\ h \in Seq(Byte) /\ Len(m) \in Nat \ {0} /\ Len(h) = 4
      /\ f \in Seq(Byte) /\ Len(f) = 4 + Len(m) /\ ts \in Seq(Byte) /\ fs \in Seq(Byte)
      /\ fs = f \o ts
  BY <1>1, FrontMessage
<1>3. f = h \o m
  BY DEF FrameOf
<1>4. put[s] \in Nat /\ put[s] < Len(Buffer(s)) /\ ~Succeeded(writing[s])
  BY DEF LinkInv, WriterFits, ByteTypes, Succeeded
<1>5. /\ n \in Nat /\ n < Len(f) /\ b \in Byte /\ f[n + 1] = b /\ Len(Buffer(s)) \in Nat
      /\ put[s] + 1 <= Len(Buffer(s))
  <2> DEFINE k == put[s] + 1  l == Len(Buffer(s))
  <2>0. l \in Nat => k \in 1 .. l /\ put[s] + 1 <= l
    BY <1>4
  <2>1. CASE writing[s].step = "header"
    <3>1. Buffer(s) = h /\ n = put[s]
      BY <1>4, <2>1 DEF Buffer, Written
    <3>2. l = 4 /\ b = h[k]
      BY <1>2, <3>1
    <3> HIDE DEF q, m, h, f, n, b, l
    <3>3. k \in 1 .. Len(h) /\ n + 1 = k /\ n \in Nat /\ n < 4 + Len(m)
      <4>1. put[s] \in Nat /\ k \in 1 .. 4 /\ Len(h) = 4 /\ Len(m) \in Nat /\ n = put[s]
        BY <1>2, <1>4, <2>0, <3>1, <3>2
      <4> QED BY <4>1
    <3> HIDE DEF k
    <3>4. (h \o m)[k] = h[k] /\ h[k] \in Byte
      <4>1. h \in Seq(Byte) /\ m \in Seq(Byte) /\ k \in 1 .. Len(h)
        BY <1>2, <3>3
      <4> QED BY <4>1
    <3>5. f[n + 1] = b /\ b \in Byte
      BY <1>3, <3>2, <3>3, <3>4
    <3> QED BY <1>2, <2>0, <3>2, <3>3, <3>5 DEF l
  <2>2. CASE writing[s].step = "payload"
    <3>1. Buffer(s) = m /\ n = 4 + put[s]
      BY <1>4, <2>2 DEF Buffer, Written
    <3>2. l = Len(m) /\ b = m[k] /\ l \in Nat
      BY <1>2, <3>1
    <3>3. k \in 1 .. Len(m) /\ n + 1 = 4 + k /\ n \in Nat /\ n < 4 + Len(m)
      <4>1. put[s] \in Nat /\ put[s] < Len(m) /\ Len(m) \in Nat /\ n = 4 + put[s]
        BY <1>2, <1>4, <3>1, <3>2
      <4> HIDE DEF n
      <4> QED BY <4>1
    <3> HIDE DEF q, m, h, f, n, b, k
    <3>4. (h \o m)[4 + k] = m[k] /\ m[k] \in Byte
      <4>1. h \in Seq(Byte) /\ m \in Seq(Byte) /\ k \in 1 .. Len(m)
        BY <1>2, <3>3
      <4>2. (h \o m)[Len(h) + k] = m[k] /\ m[k] \in Byte
        BY <4>1
      <4> QED BY <1>2, <4>2
    <3>5. f[n + 1] = b /\ b \in Byte
      BY <1>3, <3>2, <3>3, <3>4
    <3> QED BY <1>2, <2>0, <3>2, <3>3, <3>5 DEF l
  <2> QED BY <1>1, <2>1, <2>2
<1>6. Unwritten(s) = SubSeq(fs, n + 1, Len(fs))
  BY DEF Unwritten
<1> HIDE DEF q, m, h, f, fs, ts, b, n
<1>7. n < Len(fs) /\ fs[n + 1] = f[n + 1]
  <2>1. n + 1 \in 1 .. Len(f) /\ Len(ts) \in Nat /\ Len(f) \in Nat
    BY <1>2, <1>5
  <2>2. Len(f \o ts) = Len(f) + Len(ts) /\ (f \o ts)[n + 1] = f[n + 1]
    <3>1. f \in Seq(Byte) /\ ts \in Seq(Byte)
      BY <1>2
    <3> QED BY <2>1, <3>1
  <2> QED BY <1>2, <1>5, <2>1, <2>2
<1>8. SubSeq(fs, n + 1, Len(fs)) = <<fs[n + 1]>> \o SubSeq(fs, n + 2, Len(fs))
  BY <1>2, <1>5, <1>7, DropFirst
<1>9. SubSeq(fs, n + 2, Len(fs)) \in Seq(Byte)
  BY <1>2, <1>5
<1> QED BY <1>5, <1>6, <1>7, <1>8, <1>9 DEF b, fs, n, q
-----------------------------------------------------------------------------
(* The actions, one by one. *)

(* Two connected sessions are sessions. *)
LEMMA LinkSteps ==
  ASSUME SessionInv, [LinkNext]_<<vars, linkVars>>
  PROVE  SessionInv'
<1>1. ASSUME NEW s \in Session, LinkKernel(s) PROVE SessionInv'
  <2>1. Kernel(s) \/ UNCHANGED vars
    BY <1>1 DEF LinkKernel, WriteByte, WriteFails, ReadByte, ReadFails, Kernel
  <2> QED BY <2>1, KernelPreserves, StepSessionInv
<1>2. ASSUME NEW s \in Session, LinkReadHandler(s) PROVE SessionInv'
  BY <1>2, ReadHeaderPreserves, ReadPayloadPreserves DEF LinkReadHandler, LinkReadHeader, LinkReadPayload
<1>3. ASSUME NEW s \in Session, LinkWriteHandler(s) PROVE SessionInv'
  BY <1>3, WriteHandlerPreserves DEF LinkWriteHandler
<1>4. ASSUME NEW s \in Session, NEW m \in Message, LinkSend(s, m) PROVE SessionInv'
  BY <1>4, SendPreserves DEF LinkSend
<1>5. ASSUME NEW s \in Session, LinkClose(s) PROVE SessionInv'
  BY <1>5, ClosePreserves DEF LinkClose
<1>6. CASE LinkReturn
  BY <1>6, ReturnFromOnClosePreserves, ReturnFromLateOnClosePreserves, ReturnFromOnMessagePreserves
     DEF LinkReturn, Return
<1>7. CASE UNCHANGED <<vars, linkVars>>
  BY <1>7, StepSessionInv
<1> QED BY <1>1, <1>2, <1>3, <1>4, <1>5, <1>6, <1>7 DEF LinkNext

LEMMA WriteByteStep ==
  ASSUME LinkInv, NEW s \in Session, WriteByte(s), SessionInv'
  PROVE  LinkInv'
<1> DEFINE p == Peer(s)  b == Buffer(s)[put[s] + 1]  done == put[s] + 1 = Len(Buffer(s))
           frames == Frames(write_queue[s])
<1>p. p \in Session /\ p # s /\ Peer(p) = s
  BY PeerProps
<1>t. TypeOK /\ ByteTypes /\ Ready(s) /\ ReaderFits(s) /\ WriterFits(s) /\ Flow(s)
      /\ Ready(p) /\ ReaderFits(p) /\ WriterFits(p) /\ Flow(p)
  BY <1>p DEF LinkInv, SessionInv
<1>1. /\ writing[s].step # "idle" /\ writing[s].res = "pending" /\ socket_[p]
      /\ Len(wire[p]) < Capacity
      /\ wire' = [wire EXCEPT ![p] = Append(wire[p], b)]
      /\ UNCHANGED <<got, parsed, sent, delivered>>
      /\ UNCHANGED <<socket_, onmessage, onclose, write_queue, reading, held, alive>>
      /\ done => writing' = [writing EXCEPT ![s].res = "ok"] /\ put' = [put EXCEPT ![s] = 0]
      /\ ~done => writing' = writing /\ put' = [put EXCEPT ![s] = put[s] + 1]
  BY DEF WriteByte, WriteDone, vars
<1>2. socket_[s]
  BY <1>1, <1>t DEF Ready
<1>3. /\ b \in Byte /\ Written(s) \in Nat /\ put[s] + 1 <= Len(Buffer(s)) /\ Len(Buffer(s)) \in Nat
      /\ SubSeq(frames, Written(s) + 2, Len(frames)) \in Seq(Byte)
      /\ Unwritten(s) = <<b>> \o SubSeq(frames, Written(s) + 2, Len(frames))
  BY <1>1, <1>2, NextByte
<1> HIDE DEF p
<1>4. /\ writing'[s].step = writing[s].step /\ put[s] \in Nat
      /\ done => writing'[s].res = "ok" /\ put'[s] = 0
      /\ ~done => writing'[s].res = "pending" /\ put'[s] = put[s] + 1
      /\ \A t \in Session : t # s => writing'[t] = writing[t] /\ put'[t] = put[t]
      /\ wire'[p] = Append(wire[p], b) /\ \A t \in Session : t # p => wire'[t] = wire[t]
  <2>1. writing \in [Session -> Op] /\ put \in [Session -> Nat] /\ wire \in [Session -> Seq(Byte)]
    BY <1>t DEF TypeOK, ByteTypes
  <2>2. writing[s] \in Op /\ p \in Session
    BY <2>1, <1>p
  <2> HIDE DEF b, done
  <2>3. CASE done
    <3>1. writing' = [writing EXCEPT ![s].res = "ok"] /\ put' = [put EXCEPT ![s] = 0]
      BY <1>1, <2>3
    <3> QED BY <1>1, <2>1, <2>2, <2>3, <3>1 DEF Op
  <2>4. CASE ~done
    BY <1>1, <2>1, <2>2, <2>4
  <2> QED BY <2>3, <2>4
<1>5. Buffer(s)' = Buffer(s)
  BY <1>1, <1>4 DEF Buffer
<1>6. Written(s)' = Written(s) + 1
  <2>1. ~Succeeded(writing[s]) /\ (done => Succeeded(writing[s])') /\ (~done => ~Succeeded(writing[s])')
    BY <1>1, <1>4 DEF Succeeded
  <2>2. Written(s) = (IF writing[s].step = "payload" THEN 4 ELSE 0) + put[s]
    BY <2>1 DEF Written
  <2>3. CASE done
    BY <1>3, <1>4, <1>5, <2>1, <2>2, <2>3, SMTT(30) DEF Written
  <2>4. CASE ~done
    BY <1>3, <1>4, <1>5, <2>1, <2>2, <2>4 DEF Written
  <2> QED BY <2>3, <2>4
<1>7. Unwritten(s)' = SubSeq(frames, Written(s) + 2, Len(frames))
  <2>1. Written(s)' + 1 = Written(s) + 2
    BY <1>3, <1>6
  <2>2. write_queue'[s] = write_queue[s] /\ writing'[s].step # "idle"
    BY <1>1, <1>4
  <2> QED BY <2>1, <2>2 DEF Unwritten
<1>8. Received(s)' = Received(s) /\ Received(p)' = Received(p)
  BY <1>1 DEF Received
<1>9. Flow(p)'
  <2>1. Unwritten(s)' \in Seq(Byte) /\ Unwritten(s) = <<b>> \o Unwritten(s)'
    BY <1>3, <1>7
  <2> HIDE DEF b, done, frames
  <2> QED BY <1>p, <1>1, <1>2, <1>3, <1>4, <1>8, <2>1, FlowWritten
<1>10. Same(p)
  BY <1>p, <1>1, <1>4 DEF Same
<1>11. Flow(s)'
  <2>1. wire'[s] = wire[s] /\ Unwritten(p)' = Unwritten(p)
    BY <1>p, <1>t, <1>4, <1>10, SameKeeps
  <2> QED BY <1>t, <1>1, <1>8, <2>1, FlowKept DEF p
<1>12. Ready(s)' /\ ReaderFits(s)'
  BY <1>t, <1>1, <1>2, <1>4 DEF Ready, ReaderFits, Wanted
<1>13. WriterFits(s)'
  BY <1>1, <1>3, <1>4, <1>5 DEF WriterFits
<1>14. ByteTypes'
  <2>1. Append(wire[p], b) \in Seq(Byte) /\ Len(Append(wire[p], b)) = Len(wire[p]) + 1 /\ Len(wire[p]) \in Nat
    BY <1>p, <1>t, <1>3 DEF ByteTypes
  <2>2. Len(Append(wire[p], b)) <= Capacity
    BY <1>1, <2>1, LinkAssumption
  <2>3. /\ wire' \in [Session -> Seq(Byte)]
        /\ \A t \in Session : Len(wire'[t]) <= Capacity
    BY <1>t, <1>1, <1>4, <2>1, <2>2 DEF ByteTypes, p
  <2>4. put' \in [Session -> Nat]
    <3>1. put \in [Session -> Nat] /\ 0 \in Nat /\ put[s] + 1 \in Nat
      BY <1>t, <1>4, SMTT(30) DEF ByteTypes
    <3> HIDE DEF b, done, frames
    <3>2. CASE done
      BY <1>1, <3>1, <3>2
    <3>3. CASE ~done
      BY <1>1, <3>1, <3>3
    <3> QED BY <3>2, <3>3
  <2> QED BY <1>t, <1>1, <2>3, <2>4 DEF ByteTypes
<1> QED BY <1>p, <1>t, <1>9, <1>10, <1>11, <1>12, <1>13, <1>14, SameKeeps, BothInv DEF p

LEMMA WriteFailsStep ==
  ASSUME LinkInv, NEW s \in Session, WriteFails(s), SessionInv'
  PROVE  LinkInv'
<1> DEFINE p == Peer(s)
<1>p. p \in Session /\ p # s /\ Peer(p) = s
  BY PeerProps
<1>t. /\ TypeOK /\ ByteTypes /\ Ready(s) /\ ReaderFits(s) /\ WriterFits(s) /\ Flow(s)
      /\ Ready(p) /\ ReaderFits(p) /\ WriterFits(p) /\ Flow(p)
  BY <1>p DEF LinkInv, SessionInv
<1>1. /\ writing[s].step # "idle" /\ writing[s].res = "pending" /\ ~socket_[p]
      /\ writing' = [writing EXCEPT ![s].res = "io_error"]
      /\ UNCHANGED <<wire, got, put, parsed, sent, delivered>>
      /\ UNCHANGED <<socket_, onmessage, onclose, write_queue, reading, held, alive>>
  BY DEF WriteFails, WriteDone, linkVars
<1>2. /\ writing'[s].step = writing[s].step /\ writing'[s].res = "io_error"
      /\ \A t \in Session : t # s => writing'[t] = writing[t]
  BY <1>t, <1>1 DEF TypeOK, Op
<1> HIDE DEF p
<1>3. Same(p)
  BY <1>p, <1>1, <1>2 DEF Same
<1>4. Ready(s)' /\ ReaderFits(s)' /\ WriterFits(s)'
  <2>1. Buffer(s)' = Buffer(s) /\ Wanted(s)' = Wanted(s)
    BY <1>1, <1>2 DEF Buffer, Wanted
  <2> QED BY <1>t, <1>1, <1>2, <2>1 DEF Ready, ReaderFits, WriterFits
<1>5. Flow(s)'
  BY <1>t, <1>1, SameReader, FlowKept DEF p
<1>6. Flow(p)'
  BY <1>1 DEF Flow
<1>7. ByteTypes'
  BY <1>t, <1>1 DEF ByteTypes
<1> QED BY <1>3, <1>4, <1>5, <1>6, <1>7, OneMoves DEF p

LEMMA ReadFailsStep ==
  ASSUME LinkInv, NEW s \in Session, ReadFails(s), SessionInv'
  PROVE  LinkInv'
<1> DEFINE p == Peer(s)
<1>p. p \in Session /\ p # s /\ Peer(p) = s
  BY PeerProps
<1>t. /\ TypeOK /\ ByteTypes /\ Ready(s) /\ ReaderFits(s) /\ WriterFits(s) /\ Flow(s)
      /\ Ready(p) /\ ReaderFits(p) /\ WriterFits(p) /\ Flow(p)
  BY <1>p DEF LinkInv, SessionInv
<1>1. /\ reading[s].step # "idle" /\ reading[s].res = "pending" /\ ~socket_[p]
      /\ reading' = [reading EXCEPT ![s].res = "io_error"]
      /\ UNCHANGED <<wire, got, put, parsed, sent, delivered>>
      /\ UNCHANGED <<socket_, onmessage, onclose, write_queue, writing, held, alive>>
  BY DEF ReadFails, ReadDone, linkVars
<1>2. /\ reading'[s].step = reading[s].step /\ reading'[s].res = "io_error"
      /\ \A t \in Session : t # s => reading'[t] = reading[t]
  BY <1>t, <1>1 DEF TypeOK, Op
<1> HIDE DEF p
<1>3. Same(p)
  BY <1>p, <1>1, <1>2 DEF Same
<1>4. Received(s)' = Received(s)
  BY <1>1, <1>2 DEF Received
<1>5. Ready(s)' /\ ReaderFits(s)' /\ WriterFits(s)'
  BY <1>t, <1>1, <1>2, SameWriter DEF Ready, ReaderFits, WriterFits
<1>6. Flow(s)'
  BY <1>t, <1>1, <1>4, FlowKept DEF p
<1>7. Flow(p)'
  BY <1>1 DEF Flow
<1>8. ByteTypes'
  BY <1>t, <1>1 DEF ByteTypes
<1> QED BY <1>3, <1>5, <1>6, <1>7, <1>8, OneMoves DEF p

(* A byte that arrives goes from the front of the wire to the end of what  *)
(* has been received.                                                      *)
LEMMA ReadByteStep ==
  ASSUME LinkInv, NEW s \in Session, ReadByte(s), SessionInv'
  PROVE  LinkInv'
<1> DEFINE p == Peer(s)  w == wire[s]  g == got[s]  e == Head(w)
           done == Len(got[s]) + 1 = Wanted(s)
<1>p. p \in Session /\ p # s /\ Peer(p) = s
  BY PeerProps
<1>t. /\ TypeOK /\ ByteTypes /\ Ready(s) /\ ReaderFits(s) /\ WriterFits(s) /\ Flow(s)
      /\ Ready(p) /\ ReaderFits(p) /\ WriterFits(p) /\ Flow(p)
  BY <1>p DEF LinkInv, SessionInv
<1>1. /\ reading[s].step # "idle" /\ reading[s].res = "pending" /\ w # <<>>
      /\ wire' = [wire EXCEPT ![s] = Tail(w)]
      /\ got' = [got EXCEPT ![s] = Append(g, e)]
      /\ UNCHANGED <<put, parsed, sent, delivered>>
      /\ UNCHANGED <<socket_, onmessage, onclose, write_queue, writing, held, alive>>
      /\ done => reading' = [reading EXCEPT ![s].res = "ok"]
      /\ ~done => reading' = reading
  BY DEF ReadByte, ReadDone, vars
<1>2. /\ w \in Seq(Byte) /\ g \in Seq(Byte) /\ Len(g) \in Nat /\ Len(w) <= Capacity
      /\ Len(g) < Wanted(s)
  BY <1>t, <1>1 DEF ByteTypes, ReaderFits
<1>3. /\ e \in Byte /\ Tail(w) \in Seq(Byte) /\ Len(Tail(w)) <= Capacity
      /\ Append(g, e) \in Seq(Byte) /\ Len(Append(g, e)) = Len(g) + 1
  <2> HIDE DEF w, g
  <2>1. e \in Byte /\ Tail(w) \in Seq(Byte) /\ Len(Tail(w)) = Len(w) - 1 /\ Len(w) \in Nat
    BY <1>1, <1>2
  <2> QED BY <1>2, <2>1, LinkAssumption
<1>4. /\ reading'[s].step = reading[s].step
      /\ done => reading'[s].res = "ok"
      /\ ~done => reading'[s].res = "pending"
      /\ got'[s] = Append(g, e) /\ wire'[s] = Tail(w)
      /\ \A t \in Session : t # s => reading'[t] = reading[t] /\ got'[t] = got[t] /\ wire'[t] = wire[t]
  <2>1. reading \in [Session -> Op] /\ got \in [Session -> Seq(Byte)] /\ wire \in [Session -> Seq(Byte)]
    BY <1>t DEF TypeOK, ByteTypes
  <2> HIDE DEF w, g, e, done
  <2>2. CASE done
    <3>1. reading' = [reading EXCEPT ![s].res = "ok"]
      BY <1>1, <2>2
    <3> QED BY <1>1, <2>1, <2>2, <3>1 DEF Op
  <2>3. CASE ~done
    BY <1>1, <2>1, <2>3
  <2> QED BY <2>2, <2>3
<1> HIDE DEF p, e
<1>5. Same(p)
  BY <1>p, <1>1, <1>4 DEF Same
<1>6. Received(s)' \o wire'[s] = Received(s) \o wire[s]
  <2>1. CASE reading[s].step = "payload"
    <3> DEFINE h == HeaderOf(parsed[s])  x == h \o g
    <3>1. parsed[s] \in Nat
      BY <1>t DEF ByteTypes
    <3>2. h \in Seq(Byte)
      BY <3>1, HeaderType
    <3>3. Received(s) = x /\ Received(s)' = h \o Append(g, e)
      BY <1>1, <1>4, <2>1 DEF Received
    <3> HIDE DEF h, g, w
    <3>4. h \o Append(g, e) = Append(h \o g, e) /\ h \o g \in Seq(Byte)
      BY <1>2, <1>3, <3>2
    <3> HIDE DEF x
    <3>5. Append(x, Head(w)) \o Tail(w) = x \o w
      BY <1>1, <1>2, <3>4, MoveOne DEF x
    <3> QED BY <1>4, <3>3, <3>4, <3>5 DEF x, e, w
  <2>2. CASE reading[s].step # "payload"
    <3>1. Received(s) = g /\ Received(s)' = Append(g, e)
      BY <1>4, <2>2 DEF Received
    <3> HIDE DEF g, w
    <3>2. Append(g, Head(w)) \o Tail(w) = g \o w
      BY <1>1, <1>2, MoveOne
    <3> QED BY <1>4, <3>1, <3>2 DEF e, w
  <2> QED BY <2>1, <2>2
<1>7. Ready(s)' /\ WriterFits(s)'
  BY <1>t, <1>1, SameWriter DEF Ready, WriterFits
<1>8. ReaderFits(s)'
  <2>1. Wanted(s)' = Wanted(s) /\ Wanted(s) \in Nat
    BY <1>t, <1>1, <1>4 DEF Wanted, ByteTypes
  <2>2. Len(got'[s]) = Len(g) + 1
    BY <1>3, <1>4
  <2> QED BY <1>t, <1>1, <1>2, <1>4, <2>1, <2>2 DEF ReaderFits
<1>9. Flow(s)'
  <2>1. Unwritten(p)' = Unwritten(p)
    BY <1>p, <1>t, <1>5, SameKeeps
  <2> QED BY <1>t, <1>1, <1>6, <2>1, FlowKept DEF p
<1>10. Flow(p)'
  <2>1. Unwritten(s)' = Unwritten(s) /\ Received(p)' = Received(p) /\ wire'[p] = wire[p]
    BY <1>p, <1>t, <1>1, <1>4, <1>5, SameKeeps, SameWriter
  <2> QED BY <1>p, <1>t, <1>1, <2>1, FlowKept
<1>11. ByteTypes'
  <2> HIDE DEF w, g
  <2> QED BY <1>t, <1>1, <1>3, <1>4 DEF ByteTypes
<1> QED BY <1>5, <1>7, <1>8, <1>9, <1>10, <1>11, OneMoves DEF p

(* close_intern, whoever calls it: the session's own direction ends, and   *)
(* the end of the other one's bytes is lost.                               *)
LEMMA EndingStep ==
  ASSUME LinkInv, NEW s \in Session, NEW err, NEW by, NEW rd, NEW wr \in {writing[s], Idle},
         CloseIntern(s, err, by, rd, wr), SessionInv',
         UNCHANGED <<write_queue, held, alive, wire, put, parsed, sent, delivered>>,
         \/ rd = reading[s] /\ got' = got
         \/ rd = Idle /\ got' = [got EXCEPT ![s] = <<>>]
  PROVE  LinkInv'
<1> DEFINE p == Peer(s)
<1>p. p \in Session /\ p # s /\ Peer(p) = s
  BY PeerProps
<1>t. /\ TypeOK /\ ByteTypes /\ Ready(s) /\ ReaderFits(s) /\ WriterFits(s) /\ Flow(s)
      /\ Ready(p) /\ ReaderFits(p) /\ WriterFits(p) /\ Flow(p)
  BY <1>p DEF LinkInv, SessionInv
<1>0. /\ reading \in [Session -> Op] /\ writing \in [Session -> Op] /\ got \in [Session -> Seq(Byte)]
      /\ onmessage \in [Session -> Handler] /\ socket_ \in [Session -> BOOLEAN] /\ <<>> \in Seq(Byte)
  BY <1>t, EmptySeq DEF TypeOK, ByteTypes
<1>1. /\ rd \in Op /\ wr \in Op
      /\ \/ reading'[s] = rd /\ writing'[s] = wr /\ ~socket_[s]
         \/ reading'[s] = Cancelled(rd) /\ writing'[s] = Cancelled(wr)
      /\ ~socket_'[s] /\ onclose' = onclose
      /\ \A t \in Session : t # s =>
           /\ socket_'[t] = socket_[t] /\ onmessage'[t] = onmessage[t]
           /\ reading'[t] = reading[t] /\ writing'[t] = writing[t]
  BY <1>0, IdleOp DEF CloseIntern, MustClose
<1>2. /\ \/ got'[s] = got[s] /\ rd = reading[s]
         \/ got'[s] = <<>> /\ rd = Idle
      /\ \A t \in Session : t # s => got'[t] = got[t]
      /\ got' \in [Session -> Seq(Byte)]
  <2>1. CASE rd = reading[s] /\ got' = got
    BY <1>0, <2>1
  <2>2. CASE rd = Idle /\ got' = [got EXCEPT ![s] = <<>>]
    BY <1>0, <2>2
  <2> QED BY <2>1, <2>2
<1> HIDE DEF p
<1>3. Same(p)
  BY <1>p, <1>1, <1>2 DEF Same
<1>4. Ready(s)'
  <2>1. writing'[s].step # "idle" => writing'[s].res # "pending"
    <3>1. CASE writing'[s] = wr /\ ~socket_[s]
      BY <1>t, <3>1, IdleOp DEF Ready
    <3>2. CASE writing'[s] = Cancelled(wr)
      BY <1>1, <3>2, CancelledOp
    <3> QED BY <1>1, <3>1, <3>2
  <2> QED BY <1>t, <1>1, <2>1 DEF Ready
<1>5. ReaderFits(s)'
  <2>1. CASE rd = Idle
    <3>1. reading'[s] = Idle
      BY <1>1, <2>1, CancelledOp
    <3>2. got'[s] = <<>>
      BY <1>t, <1>2, <2>1, IdleOp DEF ReaderFits
    <3> QED BY <3>1, <3>2, IdleOp DEF ReaderFits
  <2>2. CASE rd = reading[s] /\ got'[s] = got[s]
    <3>1. /\ reading'[s].step = reading[s].step
          /\ reading'[s].res = "ok" => reading[s].res = "ok"
          /\ reading'[s].step # "idle" /\ reading'[s].res = "pending" => reading[s].res = "pending"
      BY <1>1, <2>2, CancelledOp DEF Succeeded
    <3>2. Wanted(s)' = Wanted(s) /\ parsed' = parsed
      BY <3>1 DEF Wanted
    <3> QED BY <1>t, <2>2, <3>1, <3>2 DEF ReaderFits
  <2> QED BY <1>2, <2>1, <2>2
<1>6. WriterFits(s)' /\ Flow(s)'
  BY <1>1 DEF WriterFits, Flow
<1>7. Flow(p)'
  <2>1. Received(p)' = Received(p) /\ ~socket_'[s] /\ wire'[p] = wire[p] /\ delivered'[p] = delivered[p]
        /\ socket_'[p] = socket_[p]
    BY <1>p, <1>t, <1>1, <1>3, SameKeeps
  <2> QED BY <1>p, <1>t, <2>1, FlowKept
<1>8. ByteTypes'
  BY <1>t, <1>2 DEF ByteTypes
<1> QED BY <1>3, <1>4, <1>5, <1>6, <1>7, <1>8, OneMoves DEF p

LEMMA MaximumIsNat == com_max_message_size \in Nat
  BY SMT DEF com_max_message_size

(* The length of a header that is accepted is a legal one. *)
LEMMA AcceptedLength ==
  ASSUME NEW h \in Seq(Byte), Len(h) = 4, AcceptsHeader(h)
  PROVE  ParsedLength(h) \in 1 .. com_max_message_size
<1>1. h \in Header
  BY FourBytes
<1>2. ParsedLength(h) \in Nat
  BY <1>1, ParsedLengthRange
<1>3. ParsedLength(h) > 0 /\ ParsedLength(h) <= com_max_message_size
  BY DEF AcceptsHeader, ValidSize
<1> HIDE DEF ParsedLength
<1> QED BY <1>2, <1>3, MaximumIsNat

LEMMA LinkReadHeaderStep ==
  ASSUME LinkInv, NEW s \in Session, LinkReadHeader(s), SessionInv'
  PROVE  LinkInv'
<1> DEFINE p == Peer(s)  g == got[s]
<1>p. p \in Session /\ p # s /\ Peer(p) = s
  BY PeerProps
<1>t. /\ TypeOK /\ ByteTypes /\ Ready(s) /\ ReaderFits(s) /\ WriterFits(s) /\ Flow(s)
      /\ Ready(p) /\ ReaderFits(p) /\ WriterFits(p) /\ Flow(p)
  BY <1>p DEF LinkInv, SessionInv
<1>0. /\ stack = <<>> /\ reading[s].step = "header"
      /\ got' = [got EXCEPT ![s] = <<>>]
      /\ UNCHANGED <<wire, put, sent, delivered>> /\ UNCHANGED <<write_queue, held, alive>>
  BY DEF LinkReadHeader, HandleReadHeader
<1>1. CASE Succeeded(reading[s]) /\ AcceptsHeader(g)
  <2>1. /\ reading' = [reading EXCEPT ![s] = Begin(Idle, "payload", socket_[s])]
        /\ UNCHANGED <<socket_, onmessage, onclose, writing>>
        /\ parsed' = [parsed EXCEPT ![s] = ParsedLength(g)]
    BY <1>1 DEF LinkReadHeader, HandleReadHeader, Failed, Succeeded
  <2>2. /\ reading \in [Session -> Op] /\ got \in [Session -> Seq(Byte)] /\ g \in Seq(Byte)
        /\ parsed \in [Session -> 0 .. com_max_message_size]
    BY <1>t DEF TypeOK, ByteTypes
  <2>3. Len(g) = 4
    BY <1>t, <1>0, <1>1 DEF ReaderFits, Wanted, Succeeded
  <2>4. ParsedLength(g) \in 1 .. com_max_message_size
    BY <1>1, <2>2, <2>3, AcceptedLength
  <2>5. /\ reading'[s].step = "payload" /\ reading'[s].res = IF socket_[s] THEN "pending" ELSE "aborted"
        /\ got'[s] = <<>> /\ parsed'[s] = ParsedLength(g)
        /\ \A t \in Session : t # s =>
             reading'[t] = reading[t] /\ got'[t] = got[t] /\ parsed'[t] = parsed[t]
    <3> HIDE DEF g
    <3> QED BY <1>0, <2>1, <2>2, IdleOp DEF Begin
  <2> HIDE DEF p
  <2>6. Same(p)
    BY <1>p, <1>0, <2>1, <2>5 DEF Same
  <2>7. Ready(s)' /\ WriterFits(s)'
    BY <1>t, <1>0, <2>1, SameWriter DEF Ready, WriterFits
  <2>8. ReaderFits(s)'
    <3>1. Wanted(s)' = ParsedLength(g) /\ Len(got'[s]) = 0
      BY <2>5 DEF Wanted
    <3> HIDE DEF g
    <3> QED BY <2>4, <2>5, <3>1 DEF ReaderFits
  <2>9. Flow(s)'
    <3>1. ASSUME socket_[s] PROVE Received(s)' = Received(s)
      <4>1. Received(s) = g
        BY <1>0 DEF Received
      <4>2. HeaderOf(ParsedLength(g)) = g
        BY <1>0, <1>1, <3>1, HeaderArrived
      <4>3. Received(s)' = g \o <<>>
        BY <2>5, <4>2 DEF Received
      <4> HIDE DEF g
      <4>4. g \o <<>> = g
        BY <2>2
      <4> QED BY <4>1, <4>3, <4>4
    <3>2. Unwritten(p)' = Unwritten(p)
      BY <1>p, <1>t, <2>6, SameKeeps
    <3> QED BY <1>t, <1>0, <2>1, <3>1, <3>2, FlowKept DEF p
  <2>10. Flow(p)'
    <3>1. Unwritten(s)' = Unwritten(s) /\ Received(p)' = Received(p)
      BY <1>p, <1>t, <1>0, <2>1, <2>6, SameKeeps, SameWriter
    <3> QED BY <1>p, <1>t, <1>0, <2>1, <3>1, FlowKept
  <2>11. ByteTypes'
    <3>1. got' \in [Session -> Seq(Byte)]
      BY <1>0, <2>2, EmptySeq
    <3>2. parsed' \in [Session -> 0 .. com_max_message_size]
      <4>1. ParsedLength(g) \in 0 .. com_max_message_size
        <5> HIDE DEF g
        <5> QED BY <2>4, MaximumIsNat
      <4> HIDE DEF g
      <4> QED BY <2>1, <2>2, <4>1
    <3> QED BY <1>t, <1>0, <3>1, <3>2 DEF ByteTypes
  <2> QED BY <2>6, <2>7, <2>8, <2>9, <2>10, <2>11, OneMoves DEF p
<1>2. CASE ~(Succeeded(reading[s]) /\ AcceptsHeader(g))
  <2>1. parsed' = parsed
    BY <1>t, <1>2 DEF LinkReadHeader, ByteTypes
  <2>2. PICK err : CloseIntern(s, err, "handler", Idle, writing[s])
    BY <1>2 DEF LinkReadHeader, HandleReadHeader
  <2> QED BY <1>0, <2>1, <2>2, EndingStep
<1> QED BY <1>1, <1>2

LEMMA LinkReadPayloadStep ==
  ASSUME LinkInv, NEW s \in Session, LinkReadPayload(s), SessionInv'
  PROVE  LinkInv'
<1> DEFINE p == Peer(s)  g == got[s]
<1>p. p \in Session /\ p # s /\ Peer(p) = s
  BY PeerProps
<1>t. /\ TypeOK /\ ByteTypes /\ Ready(s) /\ ReaderFits(s) /\ WriterFits(s) /\ Flow(s)
      /\ Ready(p) /\ ReaderFits(p) /\ WriterFits(p) /\ Flow(p)
  BY <1>p DEF LinkInv, SessionInv
<1>0. /\ stack = <<>> /\ reading[s].step = "payload"
      /\ got' = [got EXCEPT ![s] = <<>>]
      /\ UNCHANGED <<wire, put, parsed, sent>> /\ UNCHANGED <<write_queue, held, alive>>
  BY DEF LinkReadPayload, HandleReadPayload
<1>i. /\ reading \in [Session -> Op] /\ got \in [Session -> Seq(Byte)] /\ g \in Seq(Byte)
      /\ delivered \in [Session -> Seq(Message)]
  BY <1>t DEF TypeOK, ByteTypes
<1>g. got' \in [Session -> Seq(Byte)] /\ got'[s] = <<>> /\ \A t \in Session : t # s => got'[t] = got[t]
  BY <1>0, <1>i, EmptySeq
<1>1. CASE Failed(reading[s])
  <2>1. CloseIntern(s, reading[s].res, "handler", Idle, writing[s]) /\ delivered' = delivered
    BY <1>1 DEF LinkReadPayload, HandleReadPayload, Failed, Succeeded
  <2> QED BY <1>0, <2>1, EndingStep
<1>2. CASE Succeeded(reading[s]) /\ onmessage[s] \notin UserHandler
  <2>1. ~socket_[s]
    BY <1>t, <1>2 DEF Ready, UserHandler
  <2>2. /\ reading' = [reading EXCEPT ![s] = Begin(Idle, "header", socket_[s])]
        /\ UNCHANGED <<socket_, onmessage, onclose, writing>> /\ delivered' = delivered
    BY <1>2 DEF LinkReadPayload, HandleReadPayload, Failed, Succeeded
  <2>3. /\ reading'[s].step = "header" /\ reading'[s].res = "aborted"
        /\ \A t \in Session : t # s => reading'[t] = reading[t]
    BY <1>i, <2>1, <2>2, IdleOp DEF Begin
  <2> HIDE DEF p, g
  <2>4. Same(p)
    BY <1>p, <1>0, <1>g, <2>2, <2>3 DEF Same
  <2>5. Ready(s)' /\ ReaderFits(s)' /\ WriterFits(s)' /\ Flow(s)'
    BY <1>t, <1>0, <2>1, <2>2, <2>3 DEF Ready, ReaderFits, WriterFits, Flow
  <2>6. Flow(p)'
    <3>1. Received(p)' = Received(p)
      BY <1>p, <1>t, <2>4, SameKeeps
    <3> QED BY <1>p, <1>t, <1>0, <2>1, <2>2, <3>1, FlowKept
  <2>7. ByteTypes'
    BY <1>t, <1>0, <1>g, <2>2 DEF ByteTypes
  <2> QED BY <2>4, <2>5, <2>6, <2>7, OneMoves DEF p
<1>3. CASE Succeeded(reading[s]) /\ onmessage[s] \in UserHandler
  <2>1. socket_[s]
    <3>1. ~Running(s, "onclose")
      BY <1>0 DEF Running
    <3> QED BY <1>0, <1>3, <3>1 DEF LinkInv, SessionInv, ClosedOperations
  <2>2. /\ reading' = [reading EXCEPT ![s] = Idle]
        /\ UNCHANGED <<socket_, onmessage, onclose, writing>>
        /\ delivered' = [delivered EXCEPT ![s] = Append(delivered[s], g)]
    BY <1>3 DEF LinkReadPayload, HandleReadPayload, Failed, Succeeded
  <2>3. PICK todo \in Seq(Message), rest \in Seq(Byte) :
          /\ g \in Message
          /\ sent[p] = (delivered[s] \o <<g>>) \o todo
          /\ Frames(todo) = wire[s] \o rest
          /\ socket_[p] => rest = Unwritten(p)
    BY <1>0, <1>3, <2>1, PayloadArrived
  <2>4. /\ reading'[s] = Idle /\ delivered'[s] = Append(delivered[s], g)
        /\ \A t \in Session : t # s => reading'[t] = reading[t] /\ delivered'[t] = delivered[t]
    <3> HIDE DEF g
    <3> QED BY <1>i, <2>2
  <2> HIDE DEF p, g
  <2>5. Same(p)
    BY <1>p, <1>0, <1>g, <2>2, <2>4 DEF Same
  <2>6. Ready(s)' /\ ReaderFits(s)' /\ WriterFits(s)'
    BY <1>t, <1>0, <1>g, <2>2, <2>4, IdleOp, SameWriter DEF Ready, ReaderFits, WriterFits
  <2>7. Flow(s)'
    <3>1. Received(s)' \o wire'[s] = wire[s]
      <4>1. Received(s)' = <<>> /\ wire'[s] = wire[s] /\ wire[s] \in Seq(Byte)
        BY <1>t, <1>0, <1>g, <2>4, IdleOp DEF Received, ByteTypes
      <4> QED BY <4>1
    <3>2. delivered'[s] = delivered[s] \o <<g>>
      <4>1. delivered[s] \in Seq(Message) /\ g \in Message
        BY <1>i, <2>3
      <4> QED BY <2>4, <4>1
    <3>3. Unwritten(p)' = Unwritten(p) /\ socket_'[p] = socket_[p] /\ sent'[p] = sent[p]
      BY <1>p, <1>t, <2>5, SameKeeps DEF Same
    <3> QED BY <2>3, <3>1, <3>2, <3>3 DEF Flow, p
  <2>8. Flow(p)'
    <3>1. Received(p)' = Received(p) /\ Unwritten(s)' = Unwritten(s) /\ delivered'[p] = delivered[p]
      BY <1>p, <1>t, <1>0, <2>2, <2>5, SameKeeps, SameWriter DEF Same
    <3> QED BY <1>p, <1>t, <1>0, <2>2, <3>1, FlowKept
  <2>9. ByteTypes'
    <3>1. Append(delivered[s], g) \in Seq(Message)
      BY <1>i, <2>3
    <3>2. delivered' \in [Session -> Seq(Message)]
      BY <1>i, <2>2, <3>1
    <3> QED BY <1>t, <1>0, <1>g, <3>2 DEF ByteTypes
  <2> QED BY <2>5, <2>6, <2>7, <2>8, <2>9, OneMoves DEF p
<1> QED BY <1>1, <1>2, <1>3 DEF LinkReadPayload, HandleReadPayload

(* The header is written: the payload is next, from its start. *)
LEMMA HeaderWrittenStep ==
  ASSUME LinkInv, NEW s \in Session, HandleWriteHeader(s), UNCHANGED linkVars, SessionInv'
  PROVE  LinkInv'
<1> DEFINE p == Peer(s)  q == write_queue[s]  m == Head(q)
<1>p. p \in Session /\ p # s /\ Peer(p) = s
  BY PeerProps
<1>t. /\ TypeOK /\ ByteTypes /\ Ready(s) /\ ReaderFits(s) /\ WriterFits(s) /\ Flow(s)
      /\ Ready(p) /\ ReaderFits(p) /\ WriterFits(p) /\ Flow(p)
  BY <1>p DEF LinkInv, SessionInv
<1>0. /\ writing[s].step = "header"
      /\ UNCHANGED <<wire, got, put, parsed, sent, delivered>> /\ UNCHANGED <<write_queue, held, alive>>
  BY DEF HandleWriteHeader, linkVars
<1>1. CASE Failed(writing[s])
  <2>1. CloseIntern(s, writing[s].res, "handler", reading[s], Idle)
    BY <1>1 DEF HandleWriteHeader, Failed, Succeeded
  <2> QED BY <1>0, <2>1, EndingStep
<1>2. CASE Succeeded(writing[s])
  <2>1. /\ writing' = [writing EXCEPT ![s] = WriteNext(q, "payload", socket_[s])]
        /\ UNCHANGED <<socket_, onmessage, onclose, reading>>
    BY <1>2 DEF HandleWriteHeader, Failed, Succeeded
  <2>2. q # <<>>
    BY <1>0 DEF LinkInv, SessionInv, WriterMatchesQueue
  <2>3. /\ writing'[s].step = "payload" /\ writing'[s].res = IF socket_[s] THEN "pending" ELSE "aborted"
        /\ \A t \in Session : t # s => writing'[t] = writing[t]
    BY <1>t, <2>1, <2>2, IdleOp DEF TypeOK, Begin, WriteNext
  <2>4. /\ m \in Seq(Byte) /\ Len(m) \in Nat \ {0} /\ Len(HeaderOf(Len(m))) = 4
    BY <1>t, <2>2, FrontMessage
  <2>5. Buffer(s) = HeaderOf(Len(m)) /\ Buffer(s)' = m
    BY <1>0, <2>3 DEF Buffer
  <2> HIDE DEF p, q, m
  <2>6. Same(p)
    BY <1>p, <1>0, <2>1, <2>3 DEF Same
  <2>7. Ready(s)' /\ ReaderFits(s)'
    BY <1>t, <1>0, <2>1, <2>3, SameReader DEF Ready, ReaderFits
  <2>8. socket_[s] => put[s] = 0
    BY <1>t, <1>2 DEF WriterFits, Succeeded
  <2>9. WriterFits(s)'
    <3>1. writing'[s].step # "idle" /\ put'[s] = put[s] /\ socket_'[s] = socket_[s]
      BY <1>0, <2>1, <2>3
    <3>2. socket_[s] => put'[s] < Len(Buffer(s)') /\ writing'[s].res # "ok"
      BY <2>3, <2>4, <2>5, <2>8, <3>1
    <3> QED BY <3>1, <3>2 DEF WriterFits
  <2>10. Flow(s)'
    <3>1. Received(s)' = Received(s) /\ Unwritten(p)' = Unwritten(p)
      BY <1>p, <1>t, <1>0, <2>1, <2>6, SameReader, SameKeeps
    <3> QED BY <1>t, <1>0, <2>1, <3>1, FlowKept DEF p
  <2>11. Flow(p)'
    <3>1. ASSUME socket_[s] PROVE Unwritten(s)' = Unwritten(s)
      <4>1. Written(s) = 4
        BY <1>0, <1>2, <2>4, <2>5 DEF Written
      <4>2. Written(s)' = 4
        BY <1>0, <2>3, <2>8, <3>1 DEF Written, Succeeded
      <4> QED BY <1>0, <2>3, <4>1, <4>2 DEF Unwritten
    <3>2. Received(p)' = Received(p)
      BY <1>p, <1>t, <2>6, SameKeeps
    <3> QED BY <1>p, <1>t, <1>0, <2>1, <3>1, <3>2, FlowKept
  <2>12. ByteTypes'
    BY <1>t, <1>0 DEF ByteTypes
  <2> QED BY <2>6, <2>7, <2>9, <2>10, <2>11, <2>12, OneMoves DEF p
<1> QED BY <1>1, <1>2 DEF HandleWriteHeader

(* The payload is written: its message leaves the queue, and what is still *)
(* to be written are the frames of the others.                             *)
LEMMA PayloadWrittenStep ==
  ASSUME LinkInv, NEW s \in Session, HandleWritePayload(s), UNCHANGED linkVars, SessionInv'
  PROVE  LinkInv'
<1> DEFINE p == Peer(s)  q == write_queue[s]  m == Head(q)
<1>p. p \in Session /\ p # s /\ Peer(p) = s
  BY PeerProps
<1>t. /\ TypeOK /\ ByteTypes /\ Ready(s) /\ ReaderFits(s) /\ WriterFits(s) /\ Flow(s)
      /\ Ready(p) /\ ReaderFits(p) /\ WriterFits(p) /\ Flow(p)
  BY <1>p DEF LinkInv, SessionInv
<1>0. /\ writing[s].step = "payload"
      /\ UNCHANGED <<wire, got, put, parsed, sent, delivered>> /\ UNCHANGED <<held, alive>>
  BY DEF HandleWritePayload, linkVars
<1>1. CASE Failed(writing[s])
  <2>1. CloseIntern(s, writing[s].res, "handler", reading[s], Idle) /\ UNCHANGED write_queue
    BY <1>1 DEF HandleWritePayload, Failed, Succeeded
  <2> QED BY <1>0, <2>1, EndingStep
<1>2. CASE Succeeded(writing[s])
  <2>1. /\ writing' = [writing EXCEPT ![s] = WriteNext(Tail(q), "header", socket_[s])]
        /\ write_queue' = [write_queue EXCEPT ![s] = Tail(q)]
        /\ UNCHANGED <<socket_, onmessage, onclose, reading>>
    BY <1>2 DEF HandleWritePayload, Failed, Succeeded
  <2>2. q # <<>>
    BY <1>0 DEF LinkInv, SessionInv, WriterMatchesQueue
  <2>3. /\ write_queue'[s] = Tail(q)
        /\ Tail(q) = <<>> => writing'[s] = Idle
        /\ Tail(q) # <<>> => /\ writing'[s].step = "header"
                             /\ writing'[s].res = IF socket_[s] THEN "pending" ELSE "aborted"
        /\ \A t \in Session : t # s => writing'[t] = writing[t] /\ write_queue'[t] = write_queue[t]
    BY <1>t, <2>1, IdleOp DEF TypeOK, Begin, WriteNext
  <2>4. /\ m \in Seq(Byte) /\ FrameOf(m) \in Seq(Byte) /\ Len(FrameOf(m)) = 4 + Len(m)
        /\ Tail(q) \in Seq(Message) /\ Frames(Tail(q)) \in Seq(Byte)
        /\ Frames(q) = FrameOf(m) \o Frames(Tail(q))
    BY <1>t, <2>2, FrontMessage
  <2>5. Buffer(s) = m
    BY <1>0 DEF Buffer
  <2>6. socket_[s] => put[s] = 0
    BY <1>t, <1>2 DEF WriterFits, Succeeded
  <2>7. Tail(q) # <<>> => Buffer(s)' = HeaderOf(Len(Head(Tail(q)))) /\ Len(Buffer(s)') = 4
    <3>1. SUFFICES ASSUME Tail(q) # <<>>
                   PROVE  Buffer(s)' = HeaderOf(Len(Head(Tail(q)))) /\ Len(Buffer(s)') = 4
      OBVIOUS
    <3>2. Buffer(s)' = HeaderOf(Len(Head(Tail(q))))
      BY <2>3, <3>1 DEF Buffer
    <3>3. Head(Tail(q)) \in Message
      BY <2>4, <3>1, FramesFirst
    <3>4. Len(Head(Tail(q))) \in Nat
      BY <3>3, MessageType
    <3> QED BY <3>2, <3>4, HeaderType
  <2> HIDE DEF p, q, m
  <2>8. Same(p)
    BY <1>p, <1>0, <2>1, <2>3 DEF Same
  <2>9. Ready(s)' /\ ReaderFits(s)'
    BY <1>t, <1>0, <2>1, <2>3, IdleOp, SameReader DEF Ready, ReaderFits
  <2>10. WriterFits(s)'
    <3>1. put'[s] = put[s] /\ socket_'[s] = socket_[s]
      BY <1>0, <2>1
    <3>2. CASE Tail(q) = <<>>
      BY <2>3, <2>6, <3>1, <3>2, IdleOp DEF WriterFits
    <3>3. CASE Tail(q) # <<>>
      <4>1. Len(Buffer(s)') = 4
        BY <2>7, <3>3
      <4>2. socket_[s] => put'[s] < 4 /\ writing'[s].res # "ok"
        BY <2>3, <2>6, <3>1, <3>3
      <4> QED BY <2>3, <3>1, <3>3, <4>1, <4>2 DEF WriterFits
    <3> QED BY <3>2, <3>3
  <2>11. Flow(s)'
    <3>1. Received(s)' = Received(s) /\ Unwritten(p)' = Unwritten(p)
      BY <1>p, <1>t, <1>0, <2>1, <2>8, SameReader, SameKeeps
    <3> QED BY <1>t, <1>0, <2>1, <3>1, FlowKept DEF p
  <2>12. Flow(p)'
    <3>1. ASSUME socket_[s] PROVE Unwritten(s)' = Unwritten(s)
      <4> DEFINE f == FrameOf(m)  rest == Frames(Tail(q))
      <4>1. Unwritten(s) = SubSeq(f \o rest, Len(f) + 1, Len(f \o rest))
        <5>1. Written(s) = Len(f)
          BY <1>0, <1>2, <2>4, <2>5 DEF Written
        <5> QED BY <1>0, <2>4, <5>1 DEF Unwritten, q
      <4>2. SubSeq(f \o rest, Len(f) + 1, Len(f \o rest)) = rest
        <5>1. f \in Seq(Byte) /\ rest \in Seq(Byte)
          BY <2>4
        <5> HIDE DEF f, rest
        <5> QED BY <5>1, DropAll
      <4>3. Unwritten(s)' = rest
        <5>1. CASE Tail(q) = <<>>
          BY <2>3, <5>1, IdleOp DEF Unwritten
        <5>2. CASE Tail(q) # <<>>
          <6>1. Written(s)' = 0
            BY <1>0, <2>3, <2>6, <3>1, <5>2 DEF Written, Succeeded
          <6>2. Unwritten(s)' = SubSeq(rest, 1, Len(rest))
            BY <2>3, <5>2, <6>1 DEF Unwritten
          <6>3. SubSeq(rest, 1, Len(rest)) = rest
            <7>1. rest \in Seq(Byte)
              BY <2>4
            <7> HIDE DEF rest
            <7> QED BY <7>1
          <6> QED BY <6>2, <6>3
        <5> QED BY <5>1, <5>2
      <4> QED BY <4>1, <4>2, <4>3
    <3>2. Received(p)' = Received(p)
      BY <1>p, <1>t, <2>8, SameKeeps
    <3> QED BY <1>p, <1>t, <1>0, <2>1, <3>1, <3>2, FlowKept
  <2>13. ByteTypes'
    BY <1>t, <1>0 DEF ByteTypes
  <2> QED BY <2>8, <2>9, <2>10, <2>11, <2>12, <2>13, OneMoves DEF p
<1> QED BY <1>1, <1>2 DEF HandleWritePayload

LEMMA LinkCloseStep ==
  ASSUME LinkInv, NEW s \in Session, LinkClose(s), SessionInv'
  PROVE  LinkInv'
<1>1. /\ CloseIntern(s, "success", "user", reading[s], writing[s])
      /\ UNCHANGED <<write_queue, held, alive>>
      /\ UNCHANGED <<wire, got, put, parsed, sent, delivered>>
  BY DEF LinkClose, Close, linkVars
<1> QED BY <1>1, EndingStep

(* A step that moves no byte and starts no operation. *)
LEMMA NothingMoves ==
  ASSUME LinkInv, SessionInv', UNCHANGED linkVars,
         UNCHANGED <<socket_, write_queue, reading, writing, held, alive>>,
         \A t \in Session : socket_[t] => onmessage'[t] = onmessage[t] /\ onclose'[t] = onclose[t]
  PROVE  LinkInv'
<1>1. UNCHANGED <<wire, got, put, parsed, sent, delivered>>
  BY DEF linkVars
<1>2. ASSUME NEW t \in Session
      PROVE  Ready(t)' /\ ReaderFits(t)' /\ WriterFits(t)' /\ Flow(t)'
  <2>1. /\ Ready(t) /\ ReaderFits(t) /\ WriterFits(t) /\ Flow(t) /\ Peer(t) \in Session
        /\ Ready(Peer(t)) /\ ReaderFits(Peer(t)) /\ WriterFits(Peer(t))
    BY PeerProps DEF LinkInv
  <2>2. Same(t) /\ Same(Peer(t))
    BY <1>1, <2>1 DEF Same
  <2>3. /\ Ready(t)' /\ ReaderFits(t)' /\ WriterFits(t)' /\ Received(t)' = Received(t)
        /\ Unwritten(Peer(t))' = Unwritten(Peer(t))
    BY <2>1, <2>2, SameKeeps
  <2>4. Flow(t)'
    BY <1>1, <2>1, <2>3, FlowKept
  <2> QED BY <2>3, <2>4
<1>3. ByteTypes'
  BY <1>1 DEF LinkInv, ByteTypes
<1> QED BY <1>2, <1>3 DEF LinkInv

(* onmessage returned: the next header is read, from nothing. *)
LEMMA ReadOnStep ==
  ASSUME LinkInv, ReturnFromOnMessage, UNCHANGED linkVars, SessionInv'
  PROVE  LinkInv'
<1>0. /\ TypeOK /\ stack \in Seq(Frame) /\ stack # <<>> /\ Head(stack).call = "onmessage"
      /\ Len(stack) \in Nat \ {0} /\ Head(stack) = stack[1] /\ Head(stack) \in Frame
  <2>1. TypeOK /\ stack \in Seq(Frame) /\ stack # <<>> /\ Head(stack).call = "onmessage"
    BY DEF LinkInv, SessionInv, TypeOK, ReturnFromOnMessage
  <2> QED BY <2>1, PopFrame
<1>1. PICK s \in Session : s = Head(stack).s
  BY <1>0 DEF Frame
<1> DEFINE p == Peer(s)
<1>p. p \in Session /\ p # s /\ Peer(p) = s
  BY PeerProps
<1>t. /\ ByteTypes /\ Ready(s) /\ ReaderFits(s) /\ WriterFits(s) /\ Flow(s)
      /\ Ready(p) /\ ReaderFits(p) /\ WriterFits(p) /\ Flow(p)
  BY <1>p DEF LinkInv
<1>2. reading[s].step = "idle"
  <2>1. Running(s, "onmessage")
    BY <1>0, <1>1 DEF Running
  <2> QED BY <2>1 DEF LinkInv, SessionInv, ReadChain
<1>3. /\ reading' = [reading EXCEPT ![s] = Begin(reading[s], "header", socket_[s])]
      /\ UNCHANGED <<socket_, onmessage, onclose, write_queue, writing, held, alive>>
      /\ UNCHANGED <<wire, got, put, parsed, sent, delivered>>
  BY <1>1 DEF ReturnFromOnMessage, linkVars
<1>4. /\ reading'[s].step = "header" /\ reading'[s].res = IF socket_[s] THEN "pending" ELSE "aborted"
      /\ \A t \in Session : t # s => reading'[t] = reading[t]
  BY <1>0, <1>2, <1>3 DEF TypeOK, Begin
<1> HIDE DEF p
<1>5. Same(p)
  BY <1>p, <1>3, <1>4 DEF Same
<1>6. Ready(s)' /\ WriterFits(s)'
  BY <1>t, <1>3, SameWriter DEF Ready, WriterFits
<1>7. ReaderFits(s)'
  <2>1. Wanted(s)' = 4 /\ got'[s] = <<>>
    BY <1>t, <1>2, <1>3, <1>4 DEF Wanted, ReaderFits
  <2> QED BY <1>4, <2>1 DEF ReaderFits
<1>8. Received(s)' = Received(s)
  BY <1>2, <1>3, <1>4 DEF Received
<1>9. Flow(s)'
  <2>1. Unwritten(p)' = Unwritten(p)
    BY <1>p, <1>t, <1>5, SameKeeps
  <2> QED BY <1>t, <1>3, <1>8, <2>1, FlowKept DEF p
<1>10. Flow(p)'
  <2>1. Unwritten(s)' = Unwritten(s) /\ Received(p)' = Received(p)
    BY <1>p, <1>t, <1>3, <1>5, SameKeeps, SameWriter
  <2> QED BY <1>p, <1>t, <1>3, <2>1, FlowKept
<1>11. ByteTypes'
  BY <1>t, <1>3 DEF ByteTypes
<1> QED BY <1>5, <1>6, <1>7, <1>9, <1>10, <1>11, OneMoves DEF p

LEMMA LinkReturnStep ==
  ASSUME LinkInv, LinkReturn, SessionInv'
  PROVE  LinkInv'
<1>0. TypeOK /\ UNCHANGED linkVars
  BY DEF LinkInv, SessionInv, LinkReturn
<1>1. CASE ReturnFromOnMessage
  BY <1>0, <1>1, ReadOnStep
<1>2. CASE ReturnFromLateOnClose
  <2>1. UNCHANGED <<socket_, onmessage, onclose, write_queue, reading, writing, held, alive>>
    BY <1>2 DEF ReturnFromLateOnClose
  <2> QED BY <1>0, <2>1, NothingMoves
<1>3. CASE ReturnFromOnClose
  <2>0. /\ stack \in Seq(Frame) /\ stack # <<>> /\ Head(stack).call = "onclose"
        /\ Len(stack) \in Nat \ {0} /\ Head(stack) = stack[1] /\ Head(stack) \in Frame
    <3>1. stack \in Seq(Frame) /\ stack # <<>> /\ Head(stack).call = "onclose"
      BY <1>0, <1>3 DEF TypeOK, ReturnFromOnClose
    <3> QED BY <3>1, PopFrame
  <2>1. PICK s \in Session : s = Head(stack).s
    BY <2>0 DEF Frame
  <2>2. ~socket_[s]
    BY <2>0, <2>1 DEF LinkInv, SessionInv, StackShape
  <2>3. /\ UNCHANGED <<socket_, write_queue, reading, writing, held, alive>>
        /\ \A t \in Session : t # s => onmessage'[t] = onmessage[t] /\ onclose'[t] = onclose[t]
    BY <1>0, <1>3, <2>1 DEF ReturnFromOnClose, TypeOK
  <2> QED BY <1>0, <2>2, <2>3, NothingMoves
<1> QED BY <1>1, <1>2, <1>3 DEF LinkReturn, Return

(* A message that is sent goes to the end of what is still to be written,  *)
(* whether a write is under way or starts now.                             *)
LEMMA LinkSendStep ==
  ASSUME LinkInv, NEW s \in Session, NEW m \in Message, LinkSend(s, m), SessionInv'
  PROVE  LinkInv'
<1> DEFINE p == Peer(s)  q == write_queue[s]  f == FrameOf(m)
<1>p. p \in Session /\ p # s /\ Peer(p) = s
  BY PeerProps
<1>t. /\ TypeOK /\ ByteTypes /\ Ready(s) /\ ReaderFits(s) /\ WriterFits(s) /\ Flow(s)
      /\ Ready(p) /\ ReaderFits(p) /\ WriterFits(p) /\ Flow(p)
  BY <1>p DEF LinkInv, SessionInv
<1>0. /\ sent' = [sent EXCEPT ![s] = Append(sent[s], m)]
      /\ UNCHANGED <<wire, got, put, parsed, delivered>>
      /\ UNCHANGED <<socket_, onmessage, onclose, reading, held, alive>>
      /\ write_queue' = [write_queue EXCEPT ![s] = Append(q, m)]
      /\ IF Len(q) + 1 = 1
           THEN writing' = [writing EXCEPT ![s] = Begin(writing[s], "header", socket_[s])]
           ELSE writing' = writing
  BY DEF LinkSend, Send, StartsWriter
<1>1. /\ q \in Seq(Message) /\ write_queue \in [Session -> Seq(Message)]
      /\ writing \in [Session -> Op] /\ sent \in [Session -> Seq(Message)]
      /\ q = <<>> => writing[s].step = "idle"
      /\ socket_[s] /\ q # <<>> => writing[s].step # "idle"
  BY <1>t DEF TypeOK, ByteTypes, LinkInv, SessionInv, WriterMatchesQueue
<1>2. /\ Append(q, m) # <<>> /\ Append(q, m) \in Seq(Message)
      /\ q # <<>> => Head(Append(q, m)) = Head(q) /\ Len(q) + 1 # 1
      /\ q = <<>> => Append(q, m) = <<m>> /\ Len(q) + 1 = 1
      /\ Append(sent[s], m) \in Seq(Message)
  <2>1. sent[s] \in Seq(Message)
    BY <1>1
  <2> HIDE DEF q
  <2>2. q \in Seq(Message) /\ Len(q) \in Nat /\ (q = <<>> <=> Len(q) = 0)
    BY <1>1
  <2>3. Append(q, m) # <<>> /\ Append(q, m) \in Seq(Message) /\ Append(sent[s], m) \in Seq(Message)
    BY <2>1, <2>2
  <2>4. q # <<>> => Head(Append(q, m)) = Head(q)
    BY <2>2
  <2>5. q = <<>> => Append(q, m) = <<m>>
    OBVIOUS
  <2> QED BY <2>2, <2>3, <2>4, <2>5
<1>3. /\ write_queue'[s] = Append(q, m) /\ sent'[s] = Append(sent[s], m)
      /\ q = <<>> => /\ writing'[s].step = "header"
                     /\ writing'[s].res = IF socket_[s] THEN "pending" ELSE "aborted"
      /\ q # <<>> => writing'[s] = writing[s]
      /\ \A t \in Session : t # s => /\ writing'[t] = writing[t] /\ write_queue'[t] = write_queue[t]
                                     /\ sent'[t] = sent[t]
  <2> HIDE DEF q
  <2>1. CASE q = <<>>
    BY <1>0, <1>1, <1>2, <2>1 DEF Begin
  <2>2. CASE q # <<>>
    BY <1>0, <1>1, <1>2, <2>2
  <2> QED BY <2>1, <2>2
<1>4. q = <<>> => Buffer(s)' = HeaderOf(Len(m)) /\ Len(Buffer(s)') = 4
  <2>1. Len(m) \in Nat
    BY MessageType
  <2> HIDE DEF q
  <2>2. Head(<<m>>) = m
    OBVIOUS
  <2> QED BY <1>2, <1>3, <2>1, <2>2, HeaderType DEF Buffer
<1>5. q # <<>> => Buffer(s)' = Buffer(s) /\ Written(s)' = Written(s)
  <2>1. q # <<>> => Buffer(s)' = Buffer(s)
    BY <1>2, <1>3 DEF Buffer
  <2> QED BY <1>0, <1>3, <2>1 DEF Written
<1> HIDE DEF p, f
<1>6. Same(p)
  BY <1>p, <1>0, <1>3 DEF Same
<1>7. Ready(s)' /\ ReaderFits(s)'
  <2>1. ~socket_[s] /\ writing'[s].step # "idle" => writing'[s].res # "pending"
    BY <1>t, <1>3 DEF Ready
  <2> QED BY <1>t, <1>0, <2>1, SameReader DEF Ready, ReaderFits
<1>8. WriterFits(s)'
  <2>1. put'[s] = put[s] /\ socket_'[s] = socket_[s]
    BY <1>0
  <2> HIDE DEF q
  <2>2. CASE q = <<>>
    <3>1. socket_[s] => put[s] = 0
      BY <1>t, <1>1, <2>2 DEF WriterFits
    <3>2. Len(Buffer(s)') = 4 /\ writing'[s].step # "idle"
      BY <1>3, <1>4, <2>2
    <3>3. socket_[s] => put'[s] < 4 /\ writing'[s].res # "ok"
      BY <1>3, <2>1, <2>2, <3>1
    <3> QED BY <2>1, <3>2, <3>3 DEF WriterFits
  <2>3. CASE q # <<>>
    BY <1>t, <1>3, <1>5, <2>1, <2>3 DEF WriterFits
  <2> QED BY <2>2, <2>3
<1>9. Flow(s)'
  <2>1. Received(s)' = Received(s) /\ Unwritten(p)' = Unwritten(p) /\ sent'[p] = sent[p]
    BY <1>p, <1>t, <1>0, <1>6, SameReader, SameKeeps DEF Same
  <2> QED BY <1>t, <1>0, <2>1, FlowKept DEF p
<1>10. socket_[s] => Unwritten(s)' = Unwritten(s) \o f
  <2> SUFFICES ASSUME socket_[s] PROVE Unwritten(s)' = Unwritten(s) \o f
    OBVIOUS
  <2>1. f \in Seq(Byte) /\ Frames(q) \in Seq(Byte) /\ Frames(Append(q, m)) = Frames(q) \o f
    BY <1>1, FrameType, FramesType, FramesAppend DEF f
  <2>2. CASE q = <<>>
    <3>1. Unwritten(s) = <<>>
      BY <1>1, <2>2, FramesEmpty DEF Unwritten
    <3>2. Written(s)' = 0
      <4>1. put'[s] = 0
        BY <1>t, <1>0, <1>1, <2>2 DEF WriterFits
      <4>2. writing'[s].step = "header" /\ writing'[s].res = "pending"
        BY <1>3, <2>2
      <4>3. Written(s)' = 0 + put'[s]
        BY <4>2 DEF Written, Succeeded
      <4> QED BY <4>1, <4>3
    <3>3. Unwritten(s)' = SubSeq(f, 1, Len(f))
      <4>1. Frames(write_queue'[s]) = f
        BY <1>2, <1>3, <2>2, FramesOne DEF f
      <4> QED BY <1>3, <2>2, <3>2, <4>1 DEF Unwritten
    <3>4. SubSeq(f, 1, Len(f)) = f /\ <<>> \o f = f
      BY <2>1
    <3> QED BY <3>1, <3>3, <3>4
  <2>3. CASE q # <<>>
    <3> DEFINE fs == Frames(q)  n == Written(s)
    <3>1. n \in 0 .. Len(fs)
      <4> DEFINE h == Head(q)
      <4>1. /\ fs = FrameOf(h) \o Frames(Tail(q)) /\ FrameOf(h) \in Seq(Byte) /\ fs \in Seq(Byte)
            /\ Len(FrameOf(h)) = 4 + Len(h) /\ Frames(Tail(q)) \in Seq(Byte)
            /\ Len(h) \in Nat /\ Len(HeaderOf(Len(h))) = 4
        BY <1>t, <2>3, FrontMessage
      <4>2. Len(fs) >= 4 + Len(h) /\ Len(fs) \in Nat
        <5> DEFINE a == FrameOf(h)  b == Frames(Tail(q))
        <5>1. a \in Seq(Byte) /\ b \in Seq(Byte)
          BY <4>1
        <5> HIDE DEF a, b
        <5>2. Len(a \o b) = Len(a) + Len(b) /\ Len(a) \in Nat /\ Len(b) \in Nat
          BY <5>1
        <5>3. Len(fs) = Len(a) + Len(b) /\ Len(a) = 4 + Len(h)
          BY <4>1, <5>2 DEF a, b
        <5> QED BY <4>1, <5>2, <5>3
      <4>3. writing[s].step \in {"header", "payload"} /\ put[s] \in Nat
        BY <1>t, <1>1, <2>3 DEF TypeOK, Op, ByteTypes, LinkInv, SessionInv, OneReadOneWrite
      <4>4. Buffer(s) = IF writing[s].step = "header" THEN HeaderOf(Len(h)) ELSE h
        BY DEF Buffer
      <4>5. ~Succeeded(writing[s]) => put[s] < Len(Buffer(s))
        BY <1>t, <4>3 DEF WriterFits, Succeeded
      <4> HIDE DEF h, q, fs
      <4>6. n = (IF writing[s].step = "payload" THEN 4 ELSE 0)
                  + (IF Succeeded(writing[s]) THEN Len(Buffer(s)) ELSE put[s])
        BY DEF Written
      <4> HIDE DEF n
      <4> DEFINE l == Len(Buffer(s))  k == IF Succeeded(writing[s]) THEN l ELSE put[s]
      <4>7. l \in Nat => k \in Nat /\ k <= l
        <5> HIDE DEF l
        <5>1. ~Succeeded(writing[s]) => put[s] < l
          BY <4>5 DEF l
        <5> QED BY <4>3, <5>1
      <4>8. CASE writing[s].step = "header"
        <5>1. l = 4 /\ n = 0 + k
          BY <4>1, <4>4, <4>6, <4>8
        <5> HIDE DEF l, k
        <5> QED BY <4>1, <4>2, <4>7, <5>1
      <4>9. CASE writing[s].step = "payload"
        <5>1. l = Len(h) /\ n = 4 + k
          BY <4>4, <4>6, <4>9
        <5> HIDE DEF l, k
        <5> QED BY <4>1, <4>2, <4>7, <5>1
      <4> QED BY <4>3, <4>8, <4>9
    <3>2. Unwritten(s) = SubSeq(fs, n + 1, Len(fs))
      BY <1>1, <2>3 DEF Unwritten
    <3>3. Unwritten(s)' = SubSeq(fs \o f, n + 1, Len(fs \o f))
      <4>1. /\ Frames(write_queue'[s]) = fs \o f /\ Written(s)' = n
            /\ writing'[s].step # "idle"
        BY <1>1, <1>3, <1>5, <2>1, <2>3
      <4> HIDE DEF fs, n
      <4> QED BY <4>1 DEF Unwritten
    <3>4. fs \in Seq(Byte)
      BY <2>1
    <3> HIDE DEF fs, n
    <3>5. SubSeq(fs \o f, n + 1, Len(fs \o f)) = SubSeq(fs, n + 1, Len(fs)) \o f
      <4>1. n \in 0 .. Len(fs) /\ f \in Seq(Byte)
        BY <2>1, <3>1
      <4> QED BY <3>4, <4>1, DropConcat, Zenon
    <3> QED BY <3>2, <3>3, <3>5
  <2> QED BY <2>2, <2>3
<1>11. Flow(p)'
  <2>1. Received(p)' = Received(p)
    BY <1>p, <1>t, <1>6, SameKeeps
  <2> QED BY <1>p, <1>0, <1>3, <1>10, <2>1, FlowSent, ZenonT(60) DEF f
<1>12. ByteTypes'
  BY <1>t, <1>0, <1>1, <1>2 DEF ByteTypes
<1> QED BY <1>6, <1>7, <1>8, <1>9, <1>11, <1>12, OneMoves DEF p
-----------------------------------------------------------------------------
(* The invariant. *)

LEMMA StepLinkInv ==
  ASSUME LinkInv, [LinkNext]_<<vars, linkVars>>
  PROVE  LinkInv'
<1>0. SessionInv'
  BY LinkSteps DEF LinkInv
<1>1. ASSUME NEW s \in Session, LinkKernel(s) PROVE LinkInv'
  BY <1>0, <1>1, WriteByteStep, WriteFailsStep, ReadByteStep, ReadFailsStep DEF LinkKernel
<1>2. ASSUME NEW s \in Session, LinkReadHandler(s) PROVE LinkInv'
  BY <1>0, <1>2, LinkReadHeaderStep, LinkReadPayloadStep DEF LinkReadHandler
<1>3. ASSUME NEW s \in Session, LinkWriteHandler(s) PROVE LinkInv'
  BY <1>0, <1>3, HeaderWrittenStep, PayloadWrittenStep DEF LinkWriteHandler, WriteHandler
<1>4. ASSUME NEW s \in Session, NEW m \in Message, LinkSend(s, m) PROVE LinkInv'
  BY <1>0, <1>4, LinkSendStep
<1>5. ASSUME NEW s \in Session, LinkClose(s) PROVE LinkInv'
  BY <1>0, <1>5, LinkCloseStep
<1>6. CASE LinkReturn
  BY <1>0, <1>6, LinkReturnStep
<1>7. CASE UNCHANGED <<vars, linkVars>>
  BY <1>0, <1>7, NothingMoves DEF vars
<1> QED BY <1>1, <1>2, <1>3, <1>4, <1>5, <1>6, <1>7 DEF LinkNext

LEMMA InitLinkInv ==
  ASSUME LinkInit
  PROVE  LinkInv
<1>0. /\ stack = <<>> /\ Len(stack) = 0
      /\ \A s \in Session :
           /\ socket_[s] = TRUE /\ onmessage[s] = "user" /\ onclose[s] = "user"
           /\ write_queue[s] = <<>> /\ writing[s] = Idle /\ held[s] = TRUE /\ alive[s] = TRUE
           /\ reading[s] = [step |-> "header", res |-> "pending"]
           /\ cause[s] = "none" /\ reports[s] = <<>> /\ Len(reports[s]) = 0
           /\ wire[s] = <<>> /\ got[s] = <<>> /\ Len(got[s]) = 0 /\ put[s] = 0 /\ parsed[s] = 0
           /\ sent[s] = <<>> /\ delivered[s] = <<>>
  <2>1. Begin(Idle, "header", TRUE) = [step |-> "header", res |-> "pending"]
    BY IdleOp DEF Begin
  <2>2. Len(<<>>) = 0
    OBVIOUS
  <2> QED BY <2>1, <2>2 DEF LinkInit
<1>1. \A s \in Session : ~OwnedByRunningHandler(s) /\ ~Running(s, "onmessage")
  BY <1>0 DEF OwnedByRunningHandler, Running
<1>2. TypeOK
  <2>1. [step |-> "header", res |-> "pending"] \in Op
    BY DEF Op
  <2>2. Begin(Idle, "header", TRUE) = [step |-> "header", res |-> "pending"]
    BY IdleOp DEF Begin
  <2>3. <<>> \in Seq(Message) /\ <<>> \in Seq(Frame) /\ <<>> \in Seq(Error)
    BY EmptySeq
  <2>4. /\ write_queue \in [Session -> Seq(Message)] /\ stack \in Seq(Frame)
        /\ reports \in [Session -> Seq(Error)]
    BY <2>3 DEF LinkInit
  <2>5. reading \in [Session -> Op] /\ writing \in [Session -> Op]
    BY <2>1, <2>2, IdleOp DEF LinkInit
  <2>6. /\ socket_ \in [Session -> BOOLEAN] /\ held \in [Session -> BOOLEAN]
        /\ alive \in [Session -> BOOLEAN]
        /\ onmessage \in [Session -> Handler] /\ onclose \in [Session -> Handler]
        /\ cause \in [Session -> Error \cup {"none"}]
    BY DEF LinkInit, Handler
  <2> QED BY <2>4, <2>5, <2>6 DEF TypeOK
<1>3. SessionInv
  <2>1. StackShape
    BY <1>0 DEF StackShape
  <2>2. CloseHandlerOnce
    BY <1>0 DEF CloseHandlerOnce
  <2>3. OneReadOneWrite /\ WriterMatchesQueue /\ ReadArmed /\ AliveWhileInUse
    BY <1>0, <1>1, IdleOp DEF OneReadOneWrite, WriterMatchesQueue, ReadArmed, AliveWhileInUse
  <2>4. ReportedCause /\ ReadChain /\ ClosedOperations /\ CloseHistory
    BY <1>0, <1>1, IdleOp DEF ReportedCause, ReadChain, ClosedOperations, CloseHistory
  <2> QED BY <1>2, <2>1, <2>2, <2>3, <2>4 DEF SessionInv
<1>4. ByteTypes
  <2>1. <<>> \in Seq(Byte) /\ <<>> \in Seq(Message) /\ Len(<<>>) = 0 /\ Len(<<>>) <= Capacity
    BY EmptySeq, LinkAssumption
  <2>2. 0 \in 0 .. com_max_message_size
    BY MaximumIsNat
  <2> QED BY <2>1, <2>2 DEF LinkInit, ByteTypes
<1>5. ASSUME NEW s \in Session
      PROVE  Ready(s) /\ ReaderFits(s) /\ WriterFits(s) /\ Flow(s)
  <2>1. Ready(s) /\ WriterFits(s)
    BY <1>0, IdleOp DEF Ready, WriterFits
  <2>2. ReaderFits(s)
    BY <1>0 DEF ReaderFits, Wanted
  <2>3. Flow(s)
    <3> DEFINE e == <<>>
    <3>1. e \in Seq(Message) /\ e \in Seq(Byte) /\ e \o e = e
      OBVIOUS
    <3>2. sent[Peer(s)] = e /\ delivered[s] = e /\ wire[s] = e /\ Received(s) = e
      BY <1>0, PeerProps DEF Received
    <3>3. Frames(e) = e /\ Unwritten(Peer(s)) = e
      BY <1>0, PeerProps, FramesEmpty, IdleOp DEF Unwritten
    <3> HIDE DEF e
    <3>4. sent[Peer(s)] = delivered[s] \o e /\ Frames(e) = (Received(s) \o wire[s]) \o e
      BY <3>1, <3>2, <3>3
    <3> QED BY <3>1, <3>3, <3>4 DEF Flow
  <2> QED BY <2>1, <2>2, <2>3
<1> QED BY <1>3, <1>4, <1>5 DEF LinkInv

(* However the bytes of two peers are cut and whoever closes when: what is *)
(* needed for the theorems below holds between any two steps.              *)
THEOREM LinkInvariant == LinkSpec => []LinkInv
<1>1. LinkInit => LinkInv
  BY InitLinkInv
<1>2. LinkInv /\ [LinkNext]_<<vars, linkVars>> => LinkInv'
  BY StepLinkInv
<1> QED BY <1>1, <1>2, PTL DEF LinkSpec

(* The states of two connected sessions, and of the bytes between them,    *)
(* are what they are meant to be; the kernel's buffer does not overflow.   *)
THEOREM LinkTypeCorrect == LinkSpec => []LinkTypeOK
<1>1. LinkInv => LinkTypeOK
  BY DEF LinkInv, SessionInv, ByteTypes, LinkTypeOK
<1> QED BY <1>1, LinkInvariant, PTL

(* While both ends are open, every byte that was sent is delivered, or in  *)
(* exactly one place on its way, in the order of the messages.             *)
THEOREM StreamIntactAlways == LinkSpec => []StreamIntact
<1>1. ASSUME LinkInv, NEW s \in Session, socket_[s], socket_[Peer(s)]
      PROVE  Frames(sent[Peer(s)]) =
               Frames(delivered[s]) \o Received(s) \o wire[s] \o Unwritten(Peer(s))
  <2> DEFINE d == delivered[s]  x == Received(s)  w == wire[s]  f == Frames(d)
  <2>1. PICK todo \in Seq(Message), rest \in Seq(Byte) :
          /\ sent[Peer(s)] = d \o todo
          /\ Frames(todo) = (x \o w) \o rest
          /\ rest = Unwritten(Peer(s))
    BY <1>1 DEF Flow, LinkInv
  <2>2. d \in Seq(Message) /\ x \in Seq(Byte) /\ w \in Seq(Byte)
    BY <1>1, ReceivedType DEF LinkInv, ByteTypes
  <2>3. f \in Seq(Byte)
    BY <2>2, FramesType
  <2>4. Frames(d \o todo) = f \o Frames(todo)
    BY <2>2, FramesConcat
  <2> HIDE DEF d, x, w, f
  <2>5. f \o ((x \o w) \o rest) = ((f \o x) \o w) \o rest
    <3> DEFINE v == x \o w
    <3>1. (f \o x) \o w = f \o v /\ v \in Seq(Byte)
      BY <2>2, <2>3
    <3> HIDE DEF v
    <3>2. (f \o v) \o rest = f \o (v \o rest)
      BY <2>3, <3>1
    <3> QED BY <3>1, <3>2 DEF v
  <2> QED BY <2>1, <2>4, <2>5 DEF d, x, w, f
<1>2. LinkInv => StreamIntact
  BY <1>1 DEF StreamIntact
<1> QED BY <1>2, LinkInvariant, PTL

(* The only close with bad_message is that of a header's handler; it needs *)
(* a header that does not come from a message of the peer.                 *)
LEMMA GoodMessages ==
  ASSUME LinkInv, NeverBadMessage, [LinkNext]_<<vars, linkVars>>
  PROVE  NeverBadMessage'
<1>0. TypeOK /\ cause \in [Session -> Error \cup {"none"}]
  BY DEF LinkInv, SessionInv, TypeOK
<1>1. ASSUME NEW s \in Session, NEW err, NEW by, NEW rd, NEW wr, CloseIntern(s, err, by, rd, wr),
             socket_[s] => err # "bad_message"
      PROVE  NeverBadMessage'
  BY <1>0, <1>1 DEF CloseIntern, MustClose, NeverBadMessage
<1>2. ASSUME cause' = cause PROVE NeverBadMessage'
  BY <1>2 DEF NeverBadMessage
<1>3. ASSUME NEW s \in Session, LinkReadHeader(s) PROVE NeverBadMessage'
  <2>1. CASE Succeeded(reading[s])
    <3>1. HandleReadHeader(s, got[s]) /\ reading[s].step = "header"
      BY <1>3, <2>1 DEF LinkReadHeader, HandleReadHeader
    <3>2. socket_[s] => AcceptsHeader(got[s])
      BY <2>1, <3>1, HeaderArrived
    <3>3. ~Failed(reading[s])
      BY <2>1 DEF Succeeded, Failed
    <3>4. CASE AcceptsHeader(got[s])
      BY <1>2, <3>1, <3>3, <3>4 DEF HandleReadHeader
    <3>5. CASE ~AcceptsHeader(got[s])
      <4>1. CloseIntern(s, "bad_message", "handler", Idle, writing[s])
        BY <3>1, <3>3, <3>5 DEF HandleReadHeader
      <4> QED BY <1>1, <3>2, <3>5, <4>1
    <3> QED BY <3>4, <3>5
  <2>2. CASE ~Succeeded(reading[s])
    <3>1. CloseIntern(s, reading[s].res, "handler", Idle, writing[s]) /\ Failed(reading[s])
      BY <1>3, <2>2 DEF LinkReadHeader, HandleReadHeader
    <3>2. reading[s].res # "bad_message"
      BY <3>1 DEF Failed
    <3> QED BY <1>1, <3>1, <3>2
  <2> QED BY <2>1, <2>2
<1>4. ASSUME NEW s \in Session, LinkReadPayload(s) PROVE NeverBadMessage'
  BY <1>1, <1>2, <1>4 DEF LinkReadPayload, HandleReadPayload, Failed
<1>5. ASSUME NEW s \in Session, LinkWriteHandler(s) PROVE NeverBadMessage'
  BY <1>1, <1>2, <1>5 DEF LinkWriteHandler, WriteHandler, HandleWriteHeader, HandleWritePayload, Failed
<1>6. ASSUME NEW s \in Session, LinkClose(s) PROVE NeverBadMessage'
  BY <1>1, <1>6 DEF LinkClose, Close
<1>7. ASSUME NEW s \in Session, LinkKernel(s) \/ \E m \in Message : LinkSend(s, m)
      PROVE  NeverBadMessage'
  BY <1>2, <1>7 DEF LinkKernel, WriteByte, WriteFails, ReadByte, ReadFails, ReadDone, WriteDone,
                    LinkSend, Send, vars
<1>8. CASE LinkReturn \/ UNCHANGED <<vars, linkVars>>
  BY <1>2, <1>8 DEF LinkReturn, Return, ReturnFromOnClose, ReturnFromLateOnClose, ReturnFromOnMessage,
                    vars
<1> QED BY <1>3, <1>4, <1>5, <1>6, <1>7, <1>8 DEF LinkNext, LinkReadHandler

(* Two liboizys peers never take each other's bytes for an illegal header. *)
THEOREM NeverBadMessageAlways == LinkSpec => []NeverBadMessage
<1>1. LinkInit => NeverBadMessage
  BY DEF LinkInit, NeverBadMessage
<1>2. LinkInv /\ NeverBadMessage /\ [LinkNext]_<<vars, linkVars>> => NeverBadMessage'
  BY GoodMessages
<1> QED BY <1>1, <1>2, LinkInvariant, PTL DEF LinkSpec
-----------------------------------------------------------------------------
(* The pair of channels. *)

(* The next message that a session delivers is the first of its peer's     *)
(* that it has not delivered.                                              *)
LEMMA NextDelivered ==
  ASSUME NEW d \in Seq(Message), NEW g \in Message, NEW todo \in Seq(Message),
         NEW all, all = (d \o <<g>>) \o todo
  PROVE  Len(d) < Len(all) /\ all[Len(d) + 1] = g
<1> DEFINE x == d \o <<g>>
<1>1. x \in Seq(Message) /\ Len(x) = Len(d) + 1 /\ x[Len(d) + 1] = g /\ Len(d) \in Nat
  OBVIOUS
<1> HIDE DEF x
<1>2. x \in Seq(Message)
  BY <1>1
<1>3. /\ Len(x \o todo) = Len(x) + Len(todo) /\ Len(todo) \in Nat
      /\ \A i \in 1 .. Len(x) : (x \o todo)[i] = x[i]
  BY <1>2
<1>4. Len(d) + 1 \in 1 .. Len(x)
  BY <1>1
<1>5. all = x \o todo
  BY DEF x
<1> QED BY <1>1, <1>3, <1>4, <1>5

(* A session closes, or it stays as it is. *)
LEMMA ChannelClose ==
  ASSUME TypeOK, NEW s \in Session, NEW err, NEW by, NEW rd, NEW wr,
         CloseIntern(s, err, by, rd, wr), UNCHANGED <<sent, delivered>>
  PROVE  [Channel!Next]_(Channel!vars)
<1>1. CASE ~socket_[s]
  BY <1>1 DEF CloseIntern, MustClose, Channel!vars
<1>2. CASE socket_[s]
  <2>1. Channel!Close(s)
    BY <1>2 DEF CloseIntern, MustClose, Channel!Close
  <2> QED BY <2>1 DEF Channel!Next
<1> QED BY <1>1, <1>2

LEMMA ChannelStep ==
  ASSUME LinkInv, [LinkNext]_<<vars, linkVars>>
  PROVE  [Channel!Next]_(Channel!vars)
<1>0. TypeOK
  BY DEF LinkInv, SessionInv
<1>1. ASSUME UNCHANGED <<socket_, sent, delivered>> PROVE [Channel!Next]_(Channel!vars)
  BY <1>1 DEF Channel!vars
<1>2. ASSUME NEW s \in Session, LinkKernel(s) PROVE UNCHANGED <<socket_, sent, delivered>>
  BY <1>2 DEF LinkKernel, WriteByte, WriteFails, ReadByte, ReadFails, ReadDone, WriteDone, vars, linkVars
<1>3. ASSUME NEW s \in Session, LinkReadHeader(s) PROVE [Channel!Next]_(Channel!vars)
  <2>1. UNCHANGED <<sent, delivered>>
    BY <1>3 DEF LinkReadHeader
  <2>2. \/ UNCHANGED socket_
        \/ \E err : CloseIntern(s, err, "handler", Idle, writing[s])
    BY <1>3 DEF LinkReadHeader, HandleReadHeader
  <2> QED BY <1>0, <1>1, <2>1, <2>2, ChannelClose
<1>4. ASSUME NEW s \in Session, LinkReadPayload(s) PROVE [Channel!Next]_(Channel!vars)
  <2>1. CASE Succeeded(reading[s]) /\ onmessage[s] \in UserHandler
    <3>1. /\ stack = <<>> /\ reading[s].step = "payload" /\ socket_' = socket_ /\ sent' = sent
          /\ delivered' = [delivered EXCEPT ![s] = Append(delivered[s], got[s])]
      BY <1>4, <2>1 DEF LinkReadPayload, HandleReadPayload, Succeeded, Failed
    <3>2. socket_[s]
      <4>1. ~Running(s, "onclose")
        BY <3>1 DEF Running
      <4> QED BY <2>1, <3>1, <4>1 DEF LinkInv, SessionInv, ClosedOperations
    <3>3. PICK todo \in Seq(Message) :
            got[s] \in Message /\ sent[Peer(s)] = (delivered[s] \o <<got[s]>>) \o todo
      BY <2>1, <3>1, <3>2, PayloadArrived
    <3>4. delivered[s] \in Seq(Message)
      BY DEF LinkInv, ByteTypes
    <3>5. Len(delivered[s]) < Len(sent[Peer(s)]) /\ sent[Peer(s)][Len(delivered[s]) + 1] = got[s]
      BY <3>3, <3>4, NextDelivered
    <3>6. Channel!Peer(s) = Peer(s)
      BY DEF Channel!Peer, Peer
    <3>7. Channel!Deliver(s)
      BY <3>1, <3>2, <3>5, <3>6 DEF Channel!Deliver
    <3> QED BY <3>7 DEF Channel!Next
  <2>2. CASE ~(Succeeded(reading[s]) /\ onmessage[s] \in UserHandler)
    <3>1. UNCHANGED <<sent, delivered>>
      BY <1>4, <2>2 DEF LinkReadPayload
    <3>2. \/ UNCHANGED socket_
          \/ CloseIntern(s, reading[s].res, "handler", Idle, writing[s])
      BY <1>4, <2>2 DEF LinkReadPayload, HandleReadPayload
    <3> QED BY <1>0, <1>1, <3>1, <3>2, ChannelClose
  <2> QED BY <2>1, <2>2
<1>5. ASSUME NEW s \in Session, LinkWriteHandler(s) PROVE [Channel!Next]_(Channel!vars)
  <2>1. UNCHANGED <<sent, delivered>>
    BY <1>5 DEF LinkWriteHandler, linkVars
  <2>2. \/ UNCHANGED socket_
        \/ CloseIntern(s, writing[s].res, "handler", reading[s], Idle)
    BY <1>5 DEF LinkWriteHandler, WriteHandler, HandleWriteHeader, HandleWritePayload
  <2> QED BY <1>0, <1>1, <2>1, <2>2, ChannelClose
<1>6. ASSUME NEW s \in Session, NEW m \in Message, LinkSend(s, m) PROVE [Channel!Next]_(Channel!vars)
  <2>1. Channel!Send(s, m)
    BY <1>6 DEF LinkSend, Send, Channel!Send
  <2> QED BY <2>1 DEF Channel!Next
<1>7. ASSUME NEW s \in Session, LinkClose(s) PROVE [Channel!Next]_(Channel!vars)
  <2>1. CloseIntern(s, "success", "user", reading[s], writing[s]) /\ UNCHANGED <<sent, delivered>>
    BY <1>7 DEF LinkClose, Close, linkVars
  <2> QED BY <1>0, <2>1, ChannelClose
<1>8. CASE LinkReturn \/ UNCHANGED <<vars, linkVars>>
  <2>1. UNCHANGED <<socket_, sent, delivered>>
    BY <1>8 DEF LinkReturn, Return, ReturnFromOnClose, ReturnFromLateOnClose, ReturnFromOnMessage,
                vars, linkVars
  <2> QED BY <1>1, <2>1
<1> QED BY <1>1, <1>2, <1>3, <1>4, <1>5, <1>6, <1>7, <1>8 DEF LinkNext, LinkReadHandler

(* Every behaviour of two connected sessions is one of a pair of FIFO      *)
(* channels of whole messages, but for the channels' fairness.             *)
THEOREM ImplementsChannelSafety ==
  LinkSpec => Channel!Init /\ [][Channel!Next]_(Channel!vars)
<1>1. LinkInit => Channel!Init
  BY DEF LinkInit, Channel!Init
<1>2. LinkInv /\ [LinkNext]_<<vars, linkVars>> => [Channel!Next]_(Channel!vars)
  BY ChannelStep
<1> QED BY <1>1, <1>2, LinkInvariant, PTL DEF LinkSpec
=============================================================================
