---------------------------- MODULE SessionLink ----------------------------
(***************************************************************************)
(* Two asio_sessions connected by a local stream socket.  The sessions are *)
(* those of AsioSession; this module adds the bytes.  The kernel moves     *)
(* them one at a time: between two of them anything else may happen, so    *)
(* that headers and payloads are cut anywhere and the reads and writes of  *)
(* both ends overlap in every way.  The two share one thread; in two       *)
(* processes the callbacks of one touch nothing of the other, so that      *)
(* nothing is lost by running them one after the other.                    *)
(*                                                                         *)
(* Both users set their two handlers before anything else, as README.md    *)
(* recommends, keep their sessions, and send and close whenever they run.  *)
(***************************************************************************)
EXTENDS AsioSession, SequencesExt

CONSTANTS
  Capacity,   (* bytes that the kernel buffers in each direction            *)
  SendBound   (* bound: messages that the two users send together           *)

ASSUME LinkAssumption ==
  /\ \E a, b \in Session : a # b /\ Session = {a, b}
  /\ \A m \in Message : m \in Seq(Byte) /\ ValidSize(Len(m))
  /\ Capacity \in Nat \ {0}
  /\ SendBound \in Nat

VARIABLES
  wire,       (* per session: bytes sent by its peer that it has not read   *)
  got,        (* bytes that the outstanding or completed async_read has     *)
  put,        (* how many bytes the outstanding async_write has sent        *)
  parsed,     (* the length that the last header announced                  *)
  sent,       (* history: the messages passed to send                       *)
  delivered   (* history: the messages passed to onmessage                  *)

linkVars == <<wire, got, put, parsed, sent, delivered>>

Peer(s) == CHOOSE p \in Session : p # s

LinkTypeOK ==
  /\ TypeOK
  /\ wire \in [Session -> Seq(Byte)] /\ \A s \in Session : Len(wire[s]) <= Capacity
  /\ got \in [Session -> Seq(Byte)]
  /\ put \in [Session -> Nat]
  /\ parsed \in [Session -> 0 .. com_max_message_size]
  /\ sent \in [Session -> Seq(Message)]
  /\ delivered \in [Session -> Seq(Message)]

LinkInit ==
  /\ socket_ = [s \in Session |-> TRUE]
  /\ onmessage = [s \in Session |-> "user"]
  /\ onclose = [s \in Session |-> "user"]
  /\ write_queue = [s \in Session |-> <<>>]
  /\ reading = [s \in Session |-> Begin(Idle, "header", TRUE)]
  /\ writing = [s \in Session |-> Idle]
  /\ held = [s \in Session |-> TRUE]
  /\ alive = [s \in Session |-> TRUE]
  /\ stack = <<>>
  /\ cause = [s \in Session |-> "none"]
  /\ reports = [s \in Session |-> <<>>]
  /\ wire = [s \in Session |-> <<>>]
  /\ got = [s \in Session |-> <<>>]
  /\ put = [s \in Session |-> 0]
  /\ parsed = [s \in Session |-> 0]
  /\ sent = [s \in Session |-> <<>>]
  /\ delivered = [s \in Session |-> <<>>]
-----------------------------------------------------------------------------
(* The kernel. *)

(* The buffer of the outstanding async_write. *)
Buffer(s) ==
  LET message == Head(write_queue[s])
  IN  IF writing[s].step = "header" THEN HeaderOf(Len(message)) ELSE message

(* Mutant: the payload buffer is one byte short. *)
WantedOneLess(s) == IF reading[s].step = "header" THEN 4 ELSE parsed[s] - 1

(* The size of the buffer of the outstanding async_read. *)
Wanted(s) == IF reading[s].step = "header" THEN 4 ELSE parsed[s]

WriteByte(s) ==
  /\ writing[s].step # "idle" /\ writing[s].res = "pending"
  /\ socket_[Peer(s)]
  /\ Len(wire[Peer(s)]) < Capacity
  /\ wire' = [wire EXCEPT ![Peer(s)] = Append(@, Buffer(s)[put[s] + 1])]
  /\ IF put[s] + 1 = Len(Buffer(s))
       THEN WriteDone(s, "ok") /\ put' = [put EXCEPT ![s] = 0]
       ELSE UNCHANGED vars /\ put' = [put EXCEPT ![s] = @ + 1]
  /\ UNCHANGED <<got, parsed, sent, delivered>>

(* EPIPE *)
WriteFails(s) ==
  /\ ~socket_[Peer(s)]
  /\ WriteDone(s, "io_error")
  /\ UNCHANGED linkVars

ReadByte(s) ==
  /\ reading[s].step # "idle" /\ reading[s].res = "pending"
  /\ wire[s] # <<>>
  /\ wire' = [wire EXCEPT ![s] = Tail(@)]
  /\ got' = [got EXCEPT ![s] = Append(@, Head(wire[s]))]
  /\ IF Len(got[s]) + 1 = Wanted(s) THEN ReadDone(s, "ok") ELSE UNCHANGED vars
  /\ UNCHANGED <<put, parsed, sent, delivered>>

(* End of file: bytes that the peer has sent before it closed come first. *)
ReadFails(s) ==
  /\ ~socket_[Peer(s)]
  /\ wire[s] = <<>>
  /\ ReadDone(s, "io_error")
  /\ UNCHANGED linkVars
-----------------------------------------------------------------------------
(* The handlers and methods of AsioSession, with the bytes they touch.     *)

(* What message_to_read.header holds is only looked at when all four bytes *)
(* have arrived.                                                           *)
LinkReadHeader(s) ==
  /\ HandleReadHeader(s, IF Succeeded(reading[s]) THEN got[s] ELSE DefaultHeader)
  /\ parsed' = [parsed EXCEPT ![s] =
                  IF Succeeded(reading[s]) /\ AcceptsHeader(got[s]) THEN ParsedLength(got[s]) ELSE @]
  /\ got' = [got EXCEPT ![s] = <<>>]
  /\ UNCHANGED <<wire, put, sent, delivered>>

(* Whenever the user's onmessage is called, it is called with the payload. *)
LinkReadPayload(s) ==
  /\ HandleReadPayload(s)
  /\ got' = [got EXCEPT ![s] = <<>>]
  /\ delivered' = IF Succeeded(reading[s]) /\ onmessage[s] \in UserHandler
                    THEN [delivered EXCEPT ![s] = Append(@, got[s])]
                    ELSE delivered
  /\ UNCHANGED <<wire, put, parsed, sent>>

LinkWriteHandler(s) == WriteHandler(s) /\ UNCHANGED linkVars

LinkReturn == Return /\ UNCHANGED linkVars

LinkSend(s, m) ==
  /\ Len(sent[s]) + Len(sent[Peer(s)]) < SendBound
  /\ Send(s, m)
  /\ sent' = [sent EXCEPT ![s] = Append(@, m)]
  /\ UNCHANGED <<wire, got, put, parsed, delivered>>

LinkClose(s) == Close(s) /\ UNCHANGED linkVars
-----------------------------------------------------------------------------
LinkKernel(s) == WriteByte(s) \/ WriteFails(s) \/ ReadByte(s) \/ ReadFails(s)

LinkReadHandler(s) == LinkReadHeader(s) \/ LinkReadPayload(s)

LinkNext ==
  \/ \E s \in Session :
       \/ LinkKernel(s)
       \/ LinkReadHandler(s)
       \/ LinkWriteHandler(s)
       \/ \E m \in Message : LinkSend(s, m)
       \/ LinkClose(s)
  \/ LinkReturn

(* The kernel moves bytes and reports the loss of a peer; the io_context   *)
(* runs completed operations; callbacks return.  Users owe nothing.        *)
LinkFairness ==
  /\ WF_<<vars, linkVars>>(LinkReturn)
  /\ \A s \in Session :
       /\ WF_<<vars, linkVars>>(WriteByte(s) \/ WriteFails(s))
       /\ WF_<<vars, linkVars>>(ReadByte(s) \/ ReadFails(s))
       /\ WF_<<vars, linkVars>>(LinkReadHandler(s))
       /\ WF_<<vars, linkVars>>(LinkWriteHandler(s))

LinkSpec == LinkInit /\ [][LinkNext]_<<vars, linkVars>> /\ LinkFairness
-----------------------------------------------------------------------------
(* Two liboizys peers never disagree about where a frame begins: however   *)
(* the stream is cut and whoever closes when, no session is closed because *)
(* of what its peer has sent.                                              *)
NeverBadMessage == \A s \in Session : cause[s] # "bad_message"

(* The bytes that com_message holds for a message. *)
FrameOf(message) == HeaderOf(Len(message)) \o message

Frames(messages) == FlattenSeq([i \in DOMAIN messages |-> FrameOf(messages[i])])

(* What s has of the frame that it reads. *)
Received(s) == IF reading[s].step = "payload" THEN HeaderOf(parsed[s]) \o got[s] ELSE got[s]

(* How many bytes of its front message's frame s has written. *)
Written(s) ==
  (IF writing[s].step = "payload" THEN 4 ELSE 0)
    + (IF Succeeded(writing[s]) THEN Len(Buffer(s)) ELSE put[s])

(* The bytes that s still has to write. *)
Unwritten(s) ==
  LET frames == Frames(write_queue[s])
  IN  IF writing[s].step = "idle" THEN frames ELSE SubSeq(frames, Written(s) + 1, Len(frames))

(* As long as both sessions are open, the messages sent, as a stream of     *)
(* bytes, are those delivered, the frame being read, the kernel's bytes and *)
(* what is still to be written: nothing is lost, doubled or overtaken in    *)
(* whatever place it is.                                                    *)
StreamIntact ==
  \A s \in Session :
    socket_[s] /\ socket_[Peer(s)] =>
      Frames(sent[Peer(s)]) =
        Frames(delivered[s]) \o Received(s) \o wire[s] \o Unwritten(Peer(s))

(* The two sessions are a pair of FIFO channels. *)
Channel == INSTANCE MessageChannel
  WITH End <- Session, open <- socket_

ImplementsChannel == Channel!Spec
=============================================================================
