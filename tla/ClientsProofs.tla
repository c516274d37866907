--------------------------- MODULE ClientsProofs ---------------------------
(***************************************************************************)
(* The safety of Clients, for any lines and any number of frames.          *)
(***************************************************************************)
EXTENDS Clients, Induction

(* A text is the lines, each with its end. *)
Ended(ls) == [i \in DOMAIN ls |-> Append(ls[i], Newline)]

LEMMA EndedType ==
  ASSUME NEW ls \in Seq(Seq(STRING))
  PROVE  Ended(ls) \in Seq(Seq(STRING))
<1> DEFINE A == Seq(STRING)  e(i) == Append(ls[i], Newline)  m == Len(ls)
<1>1. m \in Nat /\ DOMAIN ls = 1 .. m /\ \A i \in 1 .. m : ls[i] \in A
  OBVIOUS
<1>2. \A i \in 1 .. m : e(i) \in A
  BY <1>1, ClientAssumption, AppendProperties
<1> HIDE DEF A, e, m
<1>3. [i \in 1 .. m |-> e(i)] \in Seq(A)
  BY <1>1, <1>2, IsASeq
<1> QED BY <1>1, <1>3 DEF Ended, A, e

LEMMA TextEmpty == Text(<<>>) = <<>>
<1>1. [i \in DOMAIN <<>> |-> Append(<<>>[i], Newline)] = <<>>
  OBVIOUS
<1> QED BY <1>1, FlattenEmpty DEF Text

(* One more line adds its characters and the end of the line. *)
LEMMA TextAppend ==
  ASSUME NEW ls \in Seq(Seq(STRING)), NEW l \in Seq(STRING)
  PROVE  Text(Append(ls, l)) = Text(ls) \o Append(l, Newline)
<1> DEFINE ks == Append(ls, l)  x == Append(l, Newline)  m == Len(ls)
<1>1. ks \in Seq(Seq(STRING)) /\ x \in Seq(STRING)
  BY ClientAssumption, AppendProperties
<1>2. Ended(ks) = Append(Ended(ls), x)
  <2>1. /\ m \in Nat /\ DOMAIN ls = 1 .. m /\ DOMAIN ks = 1 .. m + 1
        /\ ks[m + 1] = l /\ \A i \in 1 .. m : ks[i] = ls[i]
    BY AppendProperties
  <2>2. Ended(ks) \in Seq(Seq(STRING)) /\ Ended(ls) \in Seq(Seq(STRING))
    BY <1>1, EndedType
  <2> HIDE DEF ks, m
  <2>3. /\ DOMAIN Ended(ls) = 1 .. m /\ DOMAIN Ended(ks) = 1 .. m + 1
        /\ \A i \in 1 .. m : Ended(ls)[i] = Append(ls[i], Newline)
        /\ \A i \in 1 .. m + 1 : Ended(ks)[i] = Append(ks[i], Newline)
    BY <2>1, Zenon DEF Ended
  <2>4. Len(Ended(ls)) = m /\ Len(Ended(ks)) = m + 1
    BY <2>1, <2>2, <2>3, LenProperties
  <2>5. Ended(ks)[m + 1] = x /\ \A i \in 1 .. m : Ended(ks)[i] = Ended(ls)[i]
    <3>1. m + 1 \in 1 .. m + 1 /\ \A i \in 1 .. m : i \in 1 .. m + 1
      BY <2>1
    <3>2. Ended(ks)[m + 1] = Append(ks[m + 1], Newline)
      BY <2>3, <3>1
    <3>3. \A i \in 1 .. m : Ended(ks)[i] = Append(ks[i], Newline)
      BY <2>3, <3>1
    <3> QED BY <2>1, <2>3, <3>2, <3>3, Zenon
  <2> DEFINE es == Ended(ls)  fs == Ended(ks)  A == Seq(STRING)
  <2>6. es \in Seq(A) /\ fs \in Seq(A) /\ x \in A /\ Len(es) = m /\ Len(fs) = m + 1
    BY <1>1, <2>2, <2>4
  <2> HIDE DEF es, fs, A, x
  <2>7. fs = Append(es, x)
    BY <2>1, <2>5, <2>6 DEF es, fs
  <2> QED BY <2>7 DEF es, fs
<1>3. FlattenSeq(Append(Ended(ls), x)) = FlattenSeq(Ended(ls)) \o x
  BY <1>1, EndedType, FlattenAppend
<1> QED BY <1>2, <1>3 DEF Text, Ended

LEMMA TextType ==
  ASSUME NEW ls \in Seq(Seq(STRING))
  PROVE  Text(ls) \in Seq(STRING)
  BY EndedType, FlattenType DEF Text, Ended
-----------------------------------------------------------------------------
(* A line in the buffer has a first end; otherwise the end is to come. *)
LEMMA FirstLineEnd ==
  ASSUME buffer \in Seq(STRING)
  PROVE  /\ HasLine => /\ LineEnd \in 1 .. Len(buffer) /\ buffer[LineEnd] = Newline
                       /\ \A j \in 1 .. LineEnd - 1 : buffer[j] # Newline
         /\ ~HasLine => LineEnd = Len(buffer) + 1
         /\ LineEnd \in 1 .. Len(buffer) + 1 /\ Len(buffer) \in Nat
<1> DEFINE T == {i \in Nat : i \in 1 .. Len(buffer) /\ buffer[i] = Newline}
<1>1. DOMAIN buffer = 1 .. Len(buffer) /\ Len(buffer) \in Nat
  OBVIOUS
<1>2. ~HasLine => LineEnd = Len(buffer) + 1
  BY DEF LineEnd
<1>3. ASSUME HasLine
      PROVE  /\ LineEnd \in 1 .. Len(buffer) /\ buffer[LineEnd] = Newline
             /\ \A j \in 1 .. LineEnd - 1 : buffer[j] # Newline
  <2>1. \E x \in T : \A y \in T : x <= y
    <3>1. T # {} /\ T \subseteq Nat
      BY <1>1, <1>3 DEF HasLine
    <3> HIDE DEF T
    <3> QED BY <3>1, SmallestNumber
  <2>2. PICK x \in T : \A y \in T : x <= y
    BY <2>1
  <2>3. \A j \in 1 .. x - 1 : buffer[j] # Newline
    BY <1>1, <2>2
  <2>4. \E i \in DOMAIN buffer :
          buffer[i] = Newline /\ \A j \in 1 .. i - 1 : buffer[j] # Newline
    BY <1>1, <2>2, <2>3
  <2> QED BY <1>1, <1>3, <2>4 DEF LineEnd
<1> QED BY <1>1, <1>2, <1>3

(* It divides the buffer into the line, its end and the rest. *)
LEMMA CutLine ==
  ASSUME buffer \in Seq(STRING)
  PROVE  /\ FirstLine \in Seq(STRING) /\ Len(FirstLine) = LineEnd - 1
         /\ After(LineEnd) \in Seq(STRING)
         /\ HasLine => buffer = Append(FirstLine, Newline) \o After(LineEnd)
         /\ ~HasLine => FirstLine = buffer /\ After(LineEnd) = <<>>
         /\ \A i \in 1 .. Len(FirstLine) : FirstLine[i] # Newline
<1> DEFINE n == LineEnd
<1>1. /\ n \in 1 .. Len(buffer) + 1 /\ Len(buffer) \in Nat
      /\ HasLine => /\ n \in 1 .. Len(buffer) /\ buffer[n] = Newline
                    /\ \A j \in 1 .. n - 1 : buffer[j] # Newline
      /\ ~HasLine => n = Len(buffer) + 1
  BY FirstLineEnd
<1> HIDE DEF n
<1>2. /\ SubSeq(buffer, 1, n - 1) \in Seq(STRING) /\ Len(SubSeq(buffer, 1, n - 1)) = n - 1
      /\ \A i \in 1 .. n - 1 : SubSeq(buffer, 1, n - 1)[i] = buffer[i]
  BY <1>1, SubSeqProperties
<1>3. SubSeq(buffer, n + 1, Len(buffer)) \in Seq(STRING)
  BY <1>1
<1>4. ASSUME HasLine
      PROVE  Append(SubSeq(buffer, 1, n - 1), Newline) = SubSeq(buffer, 1, n)
  BY <1>1, <1>4
<1>5. ASSUME HasLine
      PROVE  SubSeq(buffer, 1, n) \o SubSeq(buffer, n + 1, Len(buffer)) = buffer
  BY <1>1, <1>5
<1>6. ASSUME ~HasLine
      PROVE  SubSeq(buffer, 1, n - 1) = buffer /\ SubSeq(buffer, n + 1, Len(buffer)) = <<>>
  BY <1>1, <1>6
<1>7. \A i \in 1 .. n - 1 : buffer[i] # Newline
  BY <1>1 DEF HasLine
<1> QED BY <1>2, <1>3, <1>4, <1>5, <1>6, <1>7 DEF FirstLine, After, n

(* What is trimmed off a text leaves a part of it. *)
LEMMA TrimType ==
  ASSUME NEW l \in Seq(STRING)
  PROVE  Trim(l) \in Seq(STRING)
<1> DEFINE ink == {i \in DOMAIN l : l[i] \notin Blank}
<1>1. DOMAIN l = 1 .. Len(l) /\ Len(l) \in Nat
  OBVIOUS
<1>2. ASSUME ink # {} PROVE Min(ink) \in 1 .. Len(l) /\ Max(ink) \in 1 .. Len(l)
  <2>1. ink \subseteq 1 .. Len(l)
    BY <1>1
  <2>2. \E x \in ink : \A y \in ink : x <= y
    <3>1. ink \subseteq Nat
      BY <1>1, <2>1
    <3> HIDE DEF ink
    <3> QED BY <1>2, <3>1, SmallestNumber
  <2>3. \E x \in ink : \A y \in ink : x >= y
    <3> DEFINE T == {Len(l) - i : i \in ink}
    <3>1. T \subseteq Nat /\ T # {}
      <4> HIDE DEF ink
      <4> QED BY <1>1, <1>2, <2>1
    <3>2. PICK d \in T : \A y \in T : d <= y
      <4> HIDE DEF T
      <4> QED BY <3>1, SmallestNumber
    <3>3. PICK x \in ink : d = Len(l) - x
      BY <3>2
    <3>4. \A y \in ink : Len(l) - x <= Len(l) - y
      BY <3>2, <3>3
    <3> HIDE DEF ink
    <3> QED BY <1>1, <2>1, <3>3, <3>4
  <2> HIDE DEF ink
  <2>4. Min(ink) \in ink
    BY <2>2 DEF Min
  <2>5. Max(ink) \in ink
    BY <2>3 DEF Max
  <2> QED BY <2>1, <2>4, <2>5
<1>3. ASSUME ink # {} PROVE SubSeq(l, Min(ink), Max(ink)) \in Seq(STRING)
  <2> HIDE DEF ink
  <2> QED BY <1>1, <1>2, <1>3
<1>4. Trim(l) = IF ink = {} THEN <<>> ELSE SubSeq(l, Min(ink), Max(ink))
  BY DEF Trim
<1> HIDE DEF ink
<1> QED BY <1>3, <1>4, EmptySeq

(* The message of a text is a text. *)
LEMMA MessageType ==
  ASSUME NEW l \in Seq(STRING), NEW whole \in BOOLEAN
  PROVE  Message(l, whole) \in Seq(STRING) /\ MessagesOf(l, whole) \in Seq(Seq(STRING))
<1>1. l # <<>> => Front(l) \in Seq(STRING)
  BY DEF Front
<1>2. Message(l, whole) \in Seq(STRING)
  BY <1>1, TrimType DEF Message
<1>3. <<>> \in Seq(Seq(STRING)) /\ <<Message(l, whole)>> \in Seq(Seq(STRING))
  BY <1>2
<1> QED BY <1>2, <1>3 DEF MessagesOf
-----------------------------------------------------------------------------
(* An echo client sends one message: the server has one frame to send.     *)
EchoSendsOnce ==
  program = "echo" =>
    /\ console \in {"none", "sending"}
    /\ Len(sent) <= IF console = "sending" THEN 0 ELSE 1

TypeInv == ClientTypeOK /\ EchoSendsOnce

LEMMA InitTypeInv == Init => TypeInv
<1> SUFFICES ASSUME Init PROVE TypeInv
  OBVIOUS
<1>1. /\ <<>> \in Seq(STRING) /\ <<>> \in Seq(0 .. FrameBound)
      /\ <<>> \in Seq(Line) /\ <<>> \in Seq(Seq(STRING)) /\ <<>> \in Line \cup {<<>>}
  OBVIOUS
<1>2. FrameBound \in Nat /\ LineBound \in Nat
  BY ClientAssumption
<1>3. program \in Program /\ lang \in Lang
  BY DEF Init
<1>4. /\ reader \in {"waiting", "reading"} /\ console \in {"none", "sending", "reading"}
      /\ program = "echo" => console \in {"none", "sending"}
  BY DEF Init, InitEcho, InitNotification, InitChat
<1>5. 0 \in 0 .. 4 * FrameBound /\ 0 \in 0 .. 0 /\ 0 \in 0 .. 2 /\ 2 \in 0 .. 2
  BY <1>2
<1>6. ClientTypeOK
  BY <1>1, <1>3, <1>4, <1>5 DEF Init, ClientTypeOK
<1>7. sent = <<>> /\ Len(sent) = 0
  BY DEF Init
<1> QED
  BY <1>4, <1>6, <1>7 DEF TypeInv, EchoSendsOnce

(* The server, the signal, and the reader but for the frames that it shows. *)
LEMMA ServerKeepsTypes ==
  ASSUME TypeInv, ServerSends \/ ServerCloses \/ ServerStalls \/ Interrupt \/ Join
  PROVE  TypeInv'
<1> USE ClientAssumption DEF TypeInv, ClientTypeOK, EchoSendsOnce
<1>1. CASE ServerSends
  BY <1>1 DEF ServerSends, FramesToSend, lines, client
<1>2. CASE ServerCloses \/ ServerStalls
  <2>1. /\ open' \in BOOLEAN /\ serverReads' \in BOOLEAN
        /\ UNCHANGED <<program, lang, status, done>>
    BY <1>2 DEF ServerCloses, ServerStalls, client
  <2>2. UNCHANGED <<emitted, read, got, part, want, reader, shown, cancelled, cut>>
    BY <1>2 DEF ServerCloses, ServerStalls, stream
  <2>3. UNCHANGED <<console, stdin, eof, buffer, outgoing, typed, last, sent, ahead>>
    BY <1>2 DEF ServerCloses, ServerStalls, lines
  <2> QED BY <2>1, <2>2, <2>3
<1>4. CASE Interrupt
  <2>1. status' \in {"running", "exited"} /\ done' \in BOOLEAN
    BY <1>4 DEF Interrupt
  <2>2. UNCHANGED <<program, lang, open, serverReads>>
    BY <1>4 DEF Interrupt, client
  <2>3. UNCHANGED <<emitted, read, got, part, want, reader, shown, cancelled, cut>>
    BY <1>4 DEF Interrupt, stream
  <2>4. UNCHANGED <<console, stdin, eof, buffer, outgoing, typed, last, sent, ahead>>
    BY <1>4 DEF Interrupt, lines
  <2> QED BY <2>1, <2>2, <2>3, <2>4
<1>5. CASE Join
  BY <1>5 DEF Join, stream, lines, client
<1> QED BY <1>1, <1>2, <1>4, <1>5

(* What has been read is one of the frames that the server may send. *)
LEMMA ArrivedType ==
  ASSUME ClientTypeOK
  PROVE  Arrived \in 0 .. FrameBound
<1>1. read \in Nat /\ read <= 4 * FrameBound /\ FrameBound \in Nat
  BY ClientAssumption DEF ClientTypeOK
<1>2. read \div 4 \in 0 .. FrameBound
  BY <1>1
<1> QED BY <1>2, ClientAssumption DEF Arrived

LEMMA ReaderKeepsTypes ==
  ASSUME TypeInv, ReadStream \/ ReceiveMessage
  PROVE  TypeInv'
<1> USE ClientAssumption DEF TypeInv, ClientTypeOK, EchoSendsOnce, lines, client
<1>1. CASE ReadByte
  BY <1>1 DEF ReadByte, WantsMore
<1>2. CASE ReadHeader
  BY <1>2 DEF ReadHeader
<1>3. CASE ReadPayload
  <2>1. Append(shown, Arrived) \in Seq(0 .. FrameBound)
    BY ArrivedType, AppendProperties
  <2>2. /\ reader' \in {"reading", "offering", "ended"} /\ status' \in {"running", "exited"}
        /\ part' \in {"header", "payload"} /\ want' \in 0 .. 2 /\ got' \in 0 .. want'
    BY <1>3 DEF ReadPayload, NextFrame, GoOn
  <2>3. shown' \in Seq(0 .. FrameBound)
    BY <1>3, <2>1 DEF ReadPayload
  <2>4. UNCHANGED <<program, lang, open, serverReads, done, emitted, read, cancelled, cut>>
    BY <1>3 DEF ReadPayload
  <2>5. UNCHANGED <<console, stdin, eof, buffer, outgoing, typed, last, sent, ahead>>
    BY <1>3 DEF ReadPayload
  <2> QED BY <2>2, <2>3, <2>4, <2>5
<1>4. CASE ReadFails
  BY <1>4 DEF ReadFails
<1>5. CASE ReadsShort
  <2>1. Append(shown, 0) \in Seq(0 .. FrameBound)
    BY AppendProperties
  <2>2. /\ reader' \in {"reading", "ended"} /\ status' \in {"running", "exited"}
        /\ cut' \in BOOLEAN
    BY <1>5 DEF ReadsShort, GoOn
  <2>6. part' \in {"header", "payload"} /\ want' \in 0 .. 2 /\ got' \in 0 .. want'
    BY <1>5 DEF ReadsShort, NextFrame
  <2>3. shown' \in Seq(0 .. FrameBound)
    BY <1>5, <2>1 DEF ReadsShort
  <2>4. UNCHANGED <<program, lang, open, serverReads, done, emitted, read, cancelled>>
    BY <1>5 DEF ReadsShort
  <2>5. UNCHANGED <<console, stdin, eof, buffer, outgoing, typed, last, sent, ahead>>
    BY <1>5 DEF ReadsShort
  <2> QED BY <2>2, <2>3, <2>4, <2>5, <2>6
<1>6. CASE ReceiveMessage
  <2>1. Append(shown, Arrived) \in Seq(0 .. FrameBound)
    BY ArrivedType, AppendProperties
  <2> QED BY <1>6, <2>1 DEF ReceiveMessage, NextFrame
<1> QED BY <1>1, <1>2, <1>3, <1>4, <1>5, <1>6 DEF ReadStream

LEMMA RequestKeepsTypes ==
  ASSUME TypeInv, NEW line \in Line, Request(line)
  PROVE  TypeInv'
<1> USE DEF TypeInv, ClientTypeOK, EchoSendsOnce, client
<1>1. line \in Seq(STRING)
  BY ClientAssumption
<1>2. <<line>> \in Seq(Seq(STRING)) /\ Len(<<line>>) = 1
  BY <1>1
<1>3. sent' \in Seq(Seq(STRING)) /\ console' \in {"none", "sending"}
  BY <1>2 DEF Request
<1>4. reader' \in {"waiting", "reading", "offering", "ended"} /\ status' \in {"running", "exited"}
  BY DEF Request
<1>5. UNCHANGED <<program, lang, open, serverReads, done, emitted, read, got, part, want, shown,
                  cancelled, cut, stdin, eof, buffer, outgoing, typed, last, ahead>>
  BY DEF Request
<1>6. Len(sent') <= IF console' = "sending" THEN 0 ELSE 1
  <2>1. \/ sent' = <<line>> /\ console' = "none"
        \/ sent' = sent /\ console' = console
    BY DEF Request
  <2>2. Len(sent) <= IF console = "sending" THEN 0 ELSE 1
    BY DEF Request
  <2>3. CASE sent' = <<line>> /\ console' = "none"
    BY <1>2, <2>3
  <2>4. CASE sent' = sent /\ console' = console
    BY <2>2, <2>4
  <2> QED BY <2>1, <2>3, <2>4
<1> QED BY <1>3, <1>4, <1>5, <1>6

(* What stays behind a line is a part of the buffer. *)
LEMMA AfterType ==
  ASSUME buffer \in Seq(STRING), NEW n \in Nat
  PROVE  After(n) \in Seq(STRING)
  BY DEF After

LEMMA RemainderType ==
  ASSUME buffer \in Seq(STRING)
  PROVE  Remainder \in Seq(STRING)
<1>1. LineEnd \in 1 .. Len(buffer) + 1 /\ Len(buffer) \in Nat
  BY FirstLineEnd
<1>2. 2 * LineEnd \in Nat /\ LineEnd \in Nat
  BY <1>1
<1>3. After(2 * LineEnd) \in Seq(STRING) /\ After(LineEnd) \in Seq(STRING)
  BY <1>2, AfterType
<1> QED BY <1>3, EmptySeq DEF Remainder

(* What becomes of the message of a line. *)
LEMMA SubmitType ==
  ASSUME ClientTypeOK, NEW message \in Seq(STRING), Submit(message), console = "reading"
  PROVE  /\ outgoing' \in Seq(STRING) /\ sent' \in Seq(Seq(STRING))
         /\ console' \in {"reading", "offering", "writing"}
         /\ status' \in {"running", "exited"}
<1>1. Append(sent, message) \in Seq(Seq(STRING))
  BY AppendProperties DEF ClientTypeOK
<1> QED BY <1>1 DEF Submit, ClientTypeOK

(* What TakeLine does to the reader and to the lines. *)
LEMMA TakeLineKeepsTypes ==
  ASSUME TypeInv, TakeLine
  PROVE  TypeInv'
<1> USE DEF TypeInv, ClientTypeOK, EchoSendsOnce, client
<1>1. FirstLine \in Seq(STRING) /\ Remainder \in Seq(STRING) /\ HasLine \in BOOLEAN
  BY CutLine, RemainderType DEF HasLine
<1>2. buffer' \in Seq(STRING) /\ ahead' \in BOOLEAN
  BY <1>1 DEF TakeLine
<1>3. /\ part' \in {"header", "payload"} /\ want' \in 0 .. 2 /\ got' \in 0 .. want'
  BY DEF TakeLine, Abandon, NextFrame
<1>4. cancelled' \in BOOLEAN
  <2>1. cancelled' = cancelled \/ cancelled' = (cancelled \/ got > 0 \/ part = "payload")
    BY DEF TakeLine, Abandon
  <2> QED BY <2>1
<1>5. Message(FirstLine, HasLine) \in Seq(STRING)
  BY <1>1, MessageType
<1>6. /\ outgoing' \in Seq(STRING) /\ sent' \in Seq(Seq(STRING))
      /\ console' \in {"reading", "offering", "writing"}
      /\ status' \in {"running", "exited"}
  <2>1. CASE UNCHANGED <<outgoing, console, status, sent>>
    BY <2>1 DEF TakeLine
  <2>2. CASE Submit(Message(FirstLine, HasLine))
    BY <1>5, <2>2, SubmitType DEF TakeLine
  <2> QED BY <2>1, <2>2 DEF TakeLine
<1>7. program # "echo" /\ program' = program /\ lang' = lang
  BY DEF TakeLine
<1>8. UNCHANGED <<open, serverReads, done, emitted, read, reader, shown, cut, stdin, eof,
                  typed, last>>
  BY DEF TakeLine
<1> QED BY <1>2, <1>3, <1>4, <1>6, <1>7, <1>8

(* Steps of the console that only change where it stands. *)
LEMMA ConsoleKeepsTypes ==
  ASSUME TypeInv, LineTooLong \/ ConsoleFails \/ FloodStalls \/ SendFails \/ ReceiveLine
  PROVE  TypeInv'
<1> USE DEF TypeInv, ClientTypeOK, EchoSendsOnce, client, stream
<1>1. CASE LineTooLong
  <2>1. MaxLine + 1 \in Nat /\ LineEnd \in Nat
    BY FirstLineEnd, ClientAssumption
  <2>2. buffer' \in Seq(STRING)
    BY <1>1, <2>1, AfterType DEF LineTooLong
  <2> QED BY <1>1, <2>2 DEF LineTooLong
<1>2. CASE ConsoleFails
  BY <1>2 DEF ConsoleFails
<1>3. CASE FloodStalls
  BY <1>3 DEF FloodStalls
<1>4. CASE WriteFails
  BY <1>4 DEF WriteFails
<1>5. CASE FloodFails
  BY <1>5 DEF FloodFails
<1>6. CASE ReceiveLine
  BY <1>6 DEF ReceiveLine
<1> QED BY <1>1, <1>2, <1>3, <1>4, <1>5, <1>6 DEF SendFails

LEMMA WrittenKeepsTypes ==
  ASSUME TypeInv, Written
  PROVE  TypeInv'
<1> USE DEF TypeInv, ClientTypeOK, EchoSendsOnce, client, stream
<1>1. Append(sent, outgoing) \in Seq(Seq(STRING)) /\ <<>> \in Seq(STRING)
  BY AppendProperties
<1>2. /\ sent' \in Seq(Seq(STRING)) /\ outgoing' \in Seq(STRING)
      /\ console' \in {"reading", "ended"} /\ program # "echo"
  BY <1>1 DEF Written
<1>3. UNCHANGED <<program, lang, status, open, serverReads, done, stdin, eof, buffer, typed,
                  last, ahead>>
  BY DEF Written
<1>4. UNCHANGED <<emitted, read, got, part, want, reader, shown, cancelled, cut>>
  BY DEF Written
<1> QED BY <1>2, <1>3, <1>4

LEMMA InputKeepsTypes ==
  ASSUME TypeInv,
         \/ ReadConsole
         \/ \E line \in Line : Type(line)
         \/ \E line \in Line \cup {<<>>} : ConsoleEnds(line)
  PROVE  TypeInv'
<1> USE DEF TypeInv, ClientTypeOK, EchoSendsOnce, client, stream
<1>1. CASE ReadConsole
  <2>1. PICK n \in 1 .. Len(stdin) :
          /\ buffer' = buffer \o SubSeq(stdin, 1, n)
          /\ stdin' = SubSeq(stdin, n + 1, Len(stdin))
    BY <1>1 DEF ReadConsole
  <2>2. SubSeq(stdin, 1, n) \in Seq(STRING) /\ SubSeq(stdin, n + 1, Len(stdin)) \in Seq(STRING)
    OBVIOUS
  <2>3. buffer' \in Seq(STRING) /\ stdin' \in Seq(STRING)
    BY <2>1, <2>2, ConcatProperties
  <2>4. UNCHANGED <<program, lang, status, open, serverReads, done, console, eof, outgoing,
                    typed, last, sent, ahead>>
    BY <1>1 DEF ReadConsole
  <2>5. UNCHANGED <<emitted, read, got, part, want, reader, shown, cancelled, cut>>
    BY <1>1 DEF ReadConsole
  <2> QED BY <2>3, <2>4, <2>5
<1>2. ASSUME NEW line \in Line, Type(line) PROVE TypeInv'
  <2>1. line \in Seq(STRING) /\ Newline \in STRING
    BY ClientAssumption
  <2>2. stdin \o Append(line, Newline) \in Seq(STRING)
    BY <2>1, AppendProperties, ConcatProperties
  <2>3. Append(typed, line) \in Seq(Line)
    BY AppendProperties
  <2>4. stdin' \in Seq(STRING) /\ typed' \in Seq(Line)
    BY <1>2, <2>2, <2>3 DEF Type
  <2> QED BY <1>2, <2>4 DEF Type
<1>3. ASSUME NEW line \in Line \cup {<<>>}, ConsoleEnds(line) PROVE TypeInv'
  <2>1. line \in Seq(STRING)
    BY ClientAssumption, EmptySeq
  <2>2. stdin \o line \in Seq(STRING)
    BY <2>1, ConcatProperties
  <2>3. stdin' \in Seq(STRING) /\ last' \in Line \cup {<<>>} /\ eof' \in BOOLEAN
    BY <1>3, <2>2 DEF ConsoleEnds
  <2> QED BY <1>3, <2>3 DEF ConsoleEnds
<1> QED BY <1>1, <1>2, <1>3

LEMMA StepTypeInv == TypeInv /\ [Next]_vars => TypeInv'
<1> SUFFICES ASSUME TypeInv, [Next]_vars PROVE TypeInv'
  OBVIOUS
<1>1. CASE UNCHANGED vars
  BY <1>1 DEF vars, client, stream, lines, TypeInv, ClientTypeOK, EchoSendsOnce
<1>2. CASE Next
  BY <1>2, ServerKeepsTypes, ReaderKeepsTypes, RequestKeepsTypes, TakeLineKeepsTypes,
     ConsoleKeepsTypes, WrittenKeepsTypes, InputKeepsTypes DEF Next, ReadLines
<1> QED BY <1>1, <1>2

(* Clients keep their types, in each of their programs and languages.      *)
THEOREM TypeCorrect == Spec => []ClientTypeOK
<1>1. TypeInv => ClientTypeOK
  BY DEF TypeInv
<1> QED BY <1>1, InitTypeInv, StepTypeInv, PTL DEF Spec
-----------------------------------------------------------------------------
(* The exceptions of ShownAsSent. *)
Intact == (lang = "rust" => ~cancelled) /\ (lang = "zig" => ~cut)

(* The client is in step with the frames of the stream: behind those it    *)
(* has shown it has read what the read under way has got, and the header   *)
(* before that if this read is for a payload.                              *)
InStep ==
  Intact =>
    /\ want = 2
    /\ read = 4 * Len(shown) + got + (IF part = "header" THEN 0 ELSE 2)
    /\ reader = "offering" => part = "payload" /\ got = 2

ReadInv == InStep /\ ShownAsSent

(* Steps that neither read nor show a frame. *)
LEMMA OthersKeepReadInv ==
  ASSUME ReadInv, UNCHANGED <<lang, read, got, part, want, shown, cancelled, cut>>,
         reader' = reader \/ reader' # "offering"
  PROVE  ReadInv'
  BY DEF ReadInv, InStep, ShownAsSent, Intact

(* A frame read in step is the next one; with it the count is right again. *)
LEMMA NextFrameShown ==
  ASSUME ClientTypeOK, ReadInv, Intact, part = "payload", got = 2,
         UNCHANGED <<lang, cancelled, cut, read>>
  PROVE  /\ Arrived = Len(shown) + 1
         /\ shown' = Append(shown, Arrived) /\ NextFrame /\ reader' # "offering" => ReadInv'
<1>1. Len(shown) \in Nat /\ read = 4 * Len(shown) + 4 /\ want = 2
  BY DEF ReadInv, InStep, ClientTypeOK
<1>2. (4 * Len(shown) + 4 - 2) % 4 = 2 /\ (4 * Len(shown) + 4) \div 4 = Len(shown) + 1
  BY <1>1
<1>3. Place = 2
  BY <1>1, <1>2 DEF Place
<1>4. Arrived = Len(shown) + 1
  BY <1>1, <1>2, <1>3 DEF Arrived
<1>5. ASSUME shown' = Append(shown, Arrived), NextFrame, reader' # "offering"
      PROVE  ReadInv'
  <2>1. /\ Len(shown') = Len(shown) + 1 /\ shown'[Len(shown) + 1] = Len(shown) + 1
        /\ \A i \in 1 .. Len(shown) : shown'[i] = shown[i]
        /\ DOMAIN shown' = 1 .. Len(shown) + 1 /\ DOMAIN shown = 1 .. Len(shown)
    BY <1>4, <1>5, AppendProperties DEF ClientTypeOK
  <2>2. InStep'
    BY <1>1, <1>5, <2>1 DEF InStep, NextFrame
  <2>3. \A i \in DOMAIN shown : shown[i] = i
    BY DEF ReadInv, ShownAsSent, Intact
  <2>4. ShownAsSent'
    BY <1>1, <2>1, <2>3 DEF ShownAsSent
  <2> QED BY <2>2, <2>4 DEF ReadInv
<1> QED BY <1>4, <1>5

LEMMA ReaderKeepsReadInv ==
  ASSUME ClientTypeOK, ReadInv, ReadStream \/ ReceiveMessage
  PROVE  ReadInv'
<1>1. CASE ReadByte
  BY <1>1 DEF ReadByte, ReadInv, InStep, ShownAsSent, Intact, client, ClientTypeOK
<1>2. CASE ReadHeader
  <2>1. ASSUME Intact' PROVE want' = 2 /\ read = 4 * Len(shown) + 2
    <3>1. Intact /\ part = "header" /\ ~(got < want)
      BY <1>2, <2>1 DEF ReadHeader, Intact, client, WantsMore
    <3>2. want = 2 /\ got = 2 /\ read = 4 * Len(shown) + 2 /\ Len(shown) \in Nat
      BY <3>1 DEF ReadInv, InStep, ClientTypeOK
    <3>3. (4 * Len(shown) + 2 - 2) % 4 = 0
      BY <3>2
    <3>4. Place = 0
      BY <3>2, <3>3 DEF Place
    <3> QED BY <1>2, <3>2, <3>4 DEF ReadHeader
  <2>2. InStep'
    BY <1>2, <2>1 DEF ReadHeader, InStep, ClientTypeOK
  <2>3. ShownAsSent'
    BY <1>2 DEF ReadHeader, ReadInv, ShownAsSent, client
  <2> QED BY <2>2, <2>3 DEF ReadInv
<1>3. CASE ReadPayload
  <2>1. UNCHANGED <<lang, cancelled, cut, read>>
    BY <1>3 DEF ReadPayload, client
  <2>2. CASE ~Intact
    BY <2>1, <2>2 DEF ReadInv, InStep, ShownAsSent, Intact
  <2>3. CASE Intact
    <3>1. part = "payload" /\ want = 2 /\ got = 2
      BY <1>3, <2>3 DEF ReadPayload, WantsMore, ReadInv, InStep, ClientTypeOK
    <3>2. Len(shown) \in Nat
      BY DEF ClientTypeOK
    <3>3. Arrived # 0
      BY <2>1, <2>3, <3>1, <3>2, NextFrameShown
    <3>4. CASE Offers
      BY <1>3, <3>1, <3>4 DEF ReadPayload, ReadInv, InStep, ShownAsSent, client, Intact
    <3>5. CASE ~Offers
      <4>1. shown' = Append(shown, Arrived) /\ NextFrame /\ reader' # "offering"
        BY <1>3, <3>3, <3>5 DEF ReadPayload, GoOn
      <4> QED BY <2>1, <2>3, <3>1, <4>1, NextFrameShown
    <3> QED BY <3>4, <3>5
  <2> QED BY <2>2, <2>3
<1>4. CASE ReadFails
  BY <1>4, OthersKeepReadInv DEF ReadFails, client
<1>5. CASE ReadsShort
  <2>1. CASE cut'
    BY <1>5, <2>1 DEF ReadsShort, StreamEnd, ReadInv, InStep, ShownAsSent, Intact, client
  <2>2. CASE ~cut'
    BY <1>5, <2>2, OthersKeepReadInv DEF ReadsShort, client
  <2> QED BY <2>1, <2>2
<1>6. CASE ReceiveMessage
  <2>1. UNCHANGED <<lang, cancelled, cut, read>>
    BY <1>6 DEF ReceiveMessage, client
  <2>2. CASE ~Intact
    BY <2>1, <2>2 DEF ReadInv, InStep, ShownAsSent, Intact
  <2>3. CASE Intact
    BY <1>6, <2>1, <2>3, NextFrameShown DEF ReceiveMessage, ReadInv, InStep
  <2> QED BY <2>2, <2>3
<1> QED BY <1>1, <1>2, <1>3, <1>4, <1>5, <1>6 DEF ReadStream

(* A line in the console drops Rust's read; a read that had not begun is   *)
(* begun again, at the same place.                                         *)
LEMMA TakeLineKeepsReadInv ==
  ASSUME ClientTypeOK, ReadInv, TakeLine
  PROVE  ReadInv'
<1>1. UNCHANGED <<lang, read, shown, cut, reader>> /\ Abandon
  BY DEF TakeLine, client
<1>2. CASE DropsRead
  <2>1. ShownAsSent'
    BY <1>1, <1>2 DEF Abandon, DropsRead, ReadInv, ShownAsSent
  <2>2. ASSUME Intact' PROVE Intact /\ got = 0 /\ part = "header"
    <3>1. ~(cancelled \/ got > 0 \/ part = "payload")
      BY <1>1, <1>2, <2>2 DEF Abandon, DropsRead, Intact
    <3>2. part \in {"header", "payload"} /\ got \in 0 .. want /\ want \in 0 .. 2
      BY DEF ClientTypeOK
    <3>3. Intact
      BY <1>1, <2>2, <3>1 DEF Intact
    <3> QED BY <3>1, <3>2, <3>3
  <2>3. InStep'
    BY <1>1, <1>2, <2>2 DEF Abandon, NextFrame, ReadInv, InStep
  <2> QED BY <2>1, <2>3 DEF ReadInv
<1>3. CASE ~DropsRead
  BY <1>1, <1>3, OthersKeepReadInv DEF Abandon
<1> QED BY <1>2, <1>3

LEMMA InitReadInv == Init => ReadInv
  BY DEF Init, ReadInv, InStep, ShownAsSent, InitEcho, InitNotification, InitChat

LEMMA StepReadInv == ClientTypeOK /\ ReadInv /\ [Next]_vars => ReadInv'
<1> SUFFICES ASSUME ClientTypeOK, ReadInv, [Next]_vars PROVE ReadInv'
  OBVIOUS
<1>1. CASE UNCHANGED vars
  BY <1>1, OthersKeepReadInv DEF vars, client, stream
<1>2. CASE ServerSends
  BY <1>2, OthersKeepReadInv DEF ServerSends, client
<1>3. CASE ServerCloses \/ ServerStalls \/ Interrupt \/ Join
  BY <1>3, OthersKeepReadInv DEF ServerCloses, ServerStalls, Interrupt, Join, client, stream
<1>4. ASSUME NEW line \in Line, Type(line) \/ Request(line) PROVE ReadInv'
  BY <1>4, OthersKeepReadInv DEF Type, Request, client, stream
<1>5. ASSUME NEW line, ConsoleEnds(line) PROVE ReadInv'
  BY <1>5, OthersKeepReadInv DEF ConsoleEnds, client, stream
<1>6. CASE ReadConsole \/ LineTooLong \/ ConsoleFails \/ ReceiveLine
  BY <1>6, OthersKeepReadInv
  DEF ReadConsole, LineTooLong, ConsoleFails, ReceiveLine, client, stream
<1>7. CASE Written \/ FloodStalls \/ SendFails
  BY <1>7, OthersKeepReadInv
  DEF Written, FloodStalls, SendFails, WriteFails, FloodFails, client, stream
<1> QED
  BY <1>1, <1>2, <1>3, <1>4, <1>5, <1>6, <1>7, ReaderKeepsReadInv, TakeLineKeepsReadInv
  DEF Next, ReadLines

(* The user sees the messages of the server in their order, none missing,  *)
(* none twice and none made up, of however many frames, however they are   *)
(* cut into reads and whatever is typed meanwhile.  Excepted are clients   *)
(* that have lost their place, as ShownAsSent says of Rust and Zig.        *)
THEOREM ShownInOrder == Spec => []ShownAsSent
<1>1. ReadInv => ShownAsSent
  BY DEF ReadInv
<1> QED BY <1>1, InitReadInv, StepReadInv, TypeCorrect, PTL DEF Spec
-----------------------------------------------------------------------------
(* LinesSentAsTyped but for its exceptions. *)
Accounted ==
  program = "chat" /\ (lang \in {"cpp", "go"} => ~ahead) /\ status = "running" /\ open

(* What has been typed and not been taken as a line. *)
Pending == buffer \o stdin

(* The lines typed are those taken and the others. *)
Split(a, b) ==
  /\ typed = a \o b
  /\ sent \o Held = Messages(a)
  /\ Pending = Text(b) \o last \/ GaveUp(Append(b, last)[1])

RestTaken ==
  /\ last # <<>> /\ Pending = <<>>
  /\ sent \o Held = Messages(typed) \o MessagesOf(last, FALSE)

LinesInv ==
  /\ last # <<>> => eof
  /\ Accounted => (\E a, b \in Seq(Line) : Split(a, b)) \/ RestTaken

LEMMA LineTypes ==
  /\ Newline \in STRING /\ Line \subseteq Seq(STRING) /\ MaxLine \in Nat
  /\ \A ls \in Seq(Line) : ls \in Seq(Seq(STRING))
  /\ <<>> \in Seq(Line) /\ <<>> \in Seq(STRING)
<1>1. Line \subseteq Seq(STRING)
  BY ClientAssumption
<1>2. \A ls \in Seq(Line) : ls \in Seq(Seq(STRING))
  BY <1>1, SeqMonotonic
<1> QED BY <1>1, <1>2, ClientAssumption, EmptySeq

LEMMA LinesTypes ==
  ASSUME ClientTypeOK
  PROVE  /\ buffer \in Seq(STRING) /\ stdin \in Seq(STRING) /\ outgoing \in Seq(STRING)
         /\ typed \in Seq(Line) /\ last \in Seq(STRING)
         /\ \A i \in 1 .. Len(last) : last[i] # Newline
         /\ sent \in Seq(Seq(STRING)) /\ Held \in Seq(Seq(STRING))
         /\ Pending \in Seq(STRING)
<1>1. /\ buffer \in Seq(STRING) /\ stdin \in Seq(STRING) /\ outgoing \in Seq(STRING)
      /\ typed \in Seq(Line) /\ sent \in Seq(Seq(STRING)) /\ last \in Line \cup {<<>>}
  BY DEF ClientTypeOK
<1>2. last \in Seq(STRING) /\ \A i \in 1 .. Len(last) : last[i] # Newline
  <2>1. CASE last \in Line
    BY <2>1, ClientAssumption
  <2>2. CASE last = <<>>
    BY <2>2
  <2> QED BY <1>1, <2>1, <2>2
<1>3. Held \in Seq(Seq(STRING))
  <2>1. <<outgoing>> \in Seq(Seq(STRING)) /\ <<>> \in Seq(Seq(STRING))
    BY <1>1
  <2> QED BY <2>1 DEF Held
<1>4. Pending \in Seq(STRING)
  BY <1>1, ConcatProperties DEF Pending
<1> QED BY <1>1, <1>2, <1>3, <1>4

LEMMA CharactersConcat ==
  ASSUME NEW a \in Seq(STRING), NEW b \in Seq(STRING)
  PROVE  /\ a \o b \in Seq(STRING) /\ Len(a \o b) = Len(a) + Len(b)
         /\ Len(a) \in Nat /\ Len(b) \in Nat
         /\ \A i \in 1 .. Len(a) + Len(b) :
              (a \o b)[i] = IF i <= Len(a) THEN a[i] ELSE b[i - Len(a)]
         /\ \A c \in Seq(STRING) : (a \o b) \o c = a \o (b \o c)
<1>1. \A c \in Seq(STRING) : (a \o b) \o c = a \o (b \o c)
  BY ConcatAssociative
<1>2. Len(a) \in Nat /\ Len(b) \in Nat
  OBVIOUS
<1> QED BY <1>1, <1>2, ConcatProperties

LEMMA AppendedElement ==
  ASSUME NEW S, NEW a \in Seq(S), NEW c \in S
  PROVE  /\ Append(a, c) \in Seq(S) /\ Len(Append(a, c)) = Len(a) + 1
         /\ Append(a, c)[Len(a) + 1] = c
         /\ \A i \in 1 .. Len(a) : Append(a, c)[i] = a[i]
  BY AppendProperties

LEMMA CharactersAssociate ==
  ASSUME NEW a \in Seq(STRING), NEW b \in Seq(STRING), NEW c \in Seq(STRING)
  PROVE  (a \o b) \o c = a \o (b \o c) /\ b \o c \in Seq(STRING)
  BY CharactersConcat

LEMMA LinesAssociate ==
  ASSUME NEW a \in Seq(Line), NEW b \in Seq(Line), NEW c \in Seq(Line)
  PROVE  (a \o b) \o c = a \o (b \o c)
  BY ConcatAssociative

LEMMA AppendBehind ==
  ASSUME NEW a \in Seq(Line), NEW b \in Seq(Line), NEW line \in Line
  PROVE  Append(a \o b, line) = a \o Append(b, line)
<1>1. /\ b \o <<line>> = Append(b, line) /\ <<line>> \in Seq(Line)
      /\ a \o b \in Seq(Line) /\ (a \o b) \o <<line>> = Append(a \o b, line)
  OBVIOUS
<1> DEFINE c == <<line>>
<1>2. c \in Seq(Line)
  BY <1>1
<1> HIDE DEF c
<1>3. (a \o b) \o c = a \o (b \o c)
  BY <1>2, LinesAssociate
<1> QED BY <1>1, <1>3 DEF c

(* The messages of the lines, one after the other. *)
Answers(ls) == [i \in DOMAIN ls |-> MessagesOf(ls[i], TRUE)]

LEMMA AnswersType ==
  ASSUME NEW ls \in Seq(Seq(STRING))
  PROVE  Answers(ls) \in Seq(Seq(Seq(STRING))) /\ Messages(ls) \in Seq(Seq(STRING))
<1> DEFINE A == Seq(Seq(STRING))  e(i) == MessagesOf(ls[i], TRUE)  m == Len(ls)
<1>1. m \in Nat /\ DOMAIN ls = 1 .. m /\ \A i \in 1 .. m : ls[i] \in Seq(STRING)
  OBVIOUS
<1>2. \A i \in 1 .. m : e(i) \in A
  BY <1>1, MessageType
<1> HIDE DEF A, e, m
<1>3. [i \in 1 .. m |-> e(i)] \in Seq(A)
  BY <1>1, <1>2, IsASeq
<1>4. Answers(ls) \in Seq(A)
  BY <1>1, <1>3 DEF Answers, e
<1>5. Messages(ls) \in Seq(Seq(STRING))
  BY <1>4, FlattenType DEF Messages, Answers, A
<1> QED BY <1>4, <1>5 DEF A

LEMMA MessagesEmpty == Messages(<<>>) = <<>>
<1>1. [i \in DOMAIN <<>> |-> MessagesOf(<<>>[i], TRUE)] = <<>>
  OBVIOUS
<1> QED BY <1>1, FlattenEmpty DEF Messages

(* One more line adds its message. *)
LEMMA MessagesAppend ==
  ASSUME NEW ls \in Seq(Seq(STRING)), NEW l \in Seq(STRING)
  PROVE  Messages(Append(ls, l)) = Messages(ls) \o MessagesOf(l, TRUE)
<1> DEFINE ks == Append(ls, l)  x == MessagesOf(l, TRUE)  m == Len(ls)  A == Seq(Seq(STRING))
<1>1. ks \in Seq(Seq(STRING)) /\ x \in A
  BY MessageType, AppendProperties
<1>2. /\ m \in Nat /\ DOMAIN ls = 1 .. m /\ DOMAIN ks = 1 .. m + 1
      /\ ks[m + 1] = l /\ \A i \in 1 .. m : ks[i] = ls[i]
  BY AppendProperties
<1> DEFINE es == Answers(ls)  fs == Answers(ks)
<1>3. es \in Seq(A) /\ fs \in Seq(A)
  <2> HIDE DEF ks
  <2> QED BY <1>1, AnswersType
<1> HIDE DEF ks, m, x
<1>4. /\ DOMAIN es = 1 .. m /\ DOMAIN fs = 1 .. m + 1
      /\ \A i \in 1 .. m : es[i] = MessagesOf(ls[i], TRUE)
      /\ \A i \in 1 .. m + 1 : fs[i] = MessagesOf(ks[i], TRUE)
  BY <1>2, Zenon DEF Answers
<1>5. fs[m + 1] = x /\ \A i \in 1 .. m : fs[i] = es[i]
  <2>1. m + 1 \in 1 .. m + 1 /\ \A i \in 1 .. m : i \in 1 .. m + 1
    BY <1>2
  <2>2. fs[m + 1] = MessagesOf(ks[m + 1], TRUE)
    BY <1>4, <2>1
  <2>3. \A i \in 1 .. m : fs[i] = MessagesOf(ks[i], TRUE)
    BY <1>4, <2>1
  <2> QED BY <1>2, <1>4, <2>2, <2>3, Zenon DEF x
<1> HIDE DEF es, fs, A
<1>6. Len(es) = m /\ Len(fs) = m + 1
  BY <1>2, <1>3, <1>4, LenProperties
<1>7. fs = Append(es, x)
  BY <1>1, <1>2, <1>3, <1>5, <1>6
<1>8. FlattenSeq(Append(es, x)) = FlattenSeq(es) \o x
  BY <1>1, <1>3, FlattenAppend DEF A
<1>9. Messages(ls) = FlattenSeq(es) /\ Messages(ks) = FlattenSeq(fs)
  BY DEF Messages, Answers, es, fs
<1> QED BY <1>7, <1>8, <1>9 DEF ks, x

(* They depend on the language of the client, which does not change. *)
LEMMA MessagesStable ==
  ASSUME lang' = lang
  PROVE  /\ \A l, whole : MessagesOf(l, whole)' = MessagesOf(l, whole)
         /\ \A ls : Messages(ls)' = Messages(ls)
<1>1. \A l, whole : Message(l, whole)' = Message(l, whole)
  BY DEF Message, Trim
<1>2. \A l, whole : MessagesOf(l, whole)' = MessagesOf(l, whole)
  BY <1>1 DEF MessagesOf
<1>3. ASSUME NEW ls PROVE Messages(ls)' = Messages(ls)
  <2>1. [i \in DOMAIN ls |-> MessagesOf(ls[i], TRUE)']
          = [i \in DOMAIN ls |-> MessagesOf(ls[i], TRUE)]
    BY <1>2
  <2> QED BY <2>1 DEF Messages
<1> QED BY <1>2, <1>3

(* The text of lines begins with the first of them and its end. *)
LEMMA TextFirst ==
  ASSUME NEW b \in Seq(Seq(STRING)), b # <<>>
  PROVE  /\ Head(b) \in Seq(STRING) /\ Tail(b) \in Seq(Seq(STRING)) /\ b[1] = Head(b)
         /\ Text(b) = Append(Head(b), Newline) \o Text(Tail(b))
<1> DEFINE es == Ended(b)  ts == Ended(Tail(b))  m == Len(b)
<1>1. /\ m \in Nat \ {0} /\ DOMAIN b = 1 .. m /\ b[1] = Head(b)
      /\ Head(b) \in Seq(STRING) /\ Tail(b) \in Seq(Seq(STRING))
      /\ Len(Tail(b)) = m - 1 /\ DOMAIN Tail(b) = 1 .. m - 1
      /\ \A i \in 1 .. m - 1 : Tail(b)[i] = b[i + 1]
  BY HeadTailProperties
<1>2. es \in Seq(Seq(STRING)) /\ ts \in Seq(Seq(STRING))
  BY <1>1, EndedType
<1>3. /\ DOMAIN es = 1 .. m /\ DOMAIN ts = 1 .. m - 1
      /\ \A i \in 1 .. m : es[i] = Append(b[i], Newline)
      /\ \A i \in 1 .. m - 1 : ts[i] = Append(Tail(b)[i], Newline)
  <2> HIDE DEF m
  <2> QED BY <1>1, Zenon DEF Ended
<1> HIDE DEF m, es, ts
<1>4. Len(es) = m /\ Len(ts) = m - 1
  BY <1>1, <1>2, <1>3, LenProperties
<1>5. es # <<>> /\ Head(es) = es[1] /\ es[1] = Append(Head(b), Newline)
  BY <1>1, <1>2, <1>3, <1>4
<1>6. Tail(es) = ts
  <2>1. /\ Tail(es) \in Seq(Seq(STRING)) /\ Len(Tail(es)) = m - 1
        /\ \A i \in 1 .. m - 1 : Tail(es)[i] = es[i + 1]
    BY <1>2, <1>4, <1>5, HeadTailProperties
  <2>2. ASSUME NEW i \in 1 .. m - 1 PROVE es[i + 1] = ts[i]
    <3>1. i + 1 \in 1 .. m
      BY <1>1
    <3>2. es[i + 1] = Append(b[i + 1], Newline) /\ ts[i] = Append(Tail(b)[i], Newline)
      BY <1>3, <3>1
    <3>3. Tail(b)[i] = b[i + 1]
      BY <1>1
    <3> QED BY <3>2, <3>3
  <2> DEFINE us == Tail(es)
  <2>3. us \in Seq(Seq(STRING)) /\ Len(us) = m - 1 /\ \A i \in 1 .. m - 1 : us[i] = ts[i]
    BY <2>1, <2>2
  <2> HIDE DEF us
  <2>4. us = ts
    BY <1>2, <1>4, <2>3, SeqEqual
  <2> QED BY <2>4 DEF us
<1>7. FlattenSeq(es) = Head(es) \o FlattenSeq(Tail(es))
  BY <1>2, <1>5, FlattenFirst
<1> QED BY <1>1, <1>5, <1>6, <1>7 DEF Text, Ended, es, ts

(* A text has one first line. *)
LEMMA SameFirstLine ==
  ASSUME NEW l \in Seq(STRING), NEW m \in Seq(STRING), NEW x \in Seq(STRING),
         NEW y \in Seq(STRING),
         \A i \in 1 .. Len(l) : l[i] # Newline, \A i \in 1 .. Len(m) : m[i] # Newline,
         Append(l, Newline) \o x = Append(m, Newline) \o y
  PROVE  l = m /\ x = y
<1> DEFINE p == Append(l, Newline)  q == Append(m, Newline)  z == p \o x
<1>0. Newline \in STRING
  BY LineTypes
<1>1. /\ p \in Seq(STRING) /\ Len(p) = Len(l) + 1 /\ p[Len(l) + 1] = Newline
      /\ \A i \in 1 .. Len(l) : p[i] = l[i]
  BY <1>0, AppendedElement, ZenonT(30)
<1>2. /\ q \in Seq(STRING) /\ Len(q) = Len(m) + 1 /\ q[Len(m) + 1] = Newline
      /\ \A i \in 1 .. Len(m) : q[i] = m[i]
  BY <1>0, AppendedElement, ZenonT(30)
<1>3. Len(l) \in Nat /\ Len(m) \in Nat /\ Len(x) \in Nat /\ Len(y) \in Nat /\ z = q \o y
  OBVIOUS
<1> HIDE DEF p, q
<1>4. /\ Len(z) = Len(l) + 1 + Len(x)
      /\ \A i \in 1 .. Len(l) + 1 + Len(x) :
           z[i] = IF i <= Len(l) + 1 THEN p[i] ELSE x[i - (Len(l) + 1)]
  <2>1. /\ Len(z) = Len(p) + Len(x)
        /\ \A i \in 1 .. Len(p) + Len(x) :
             z[i] = IF i <= Len(p) THEN p[i] ELSE x[i - Len(p)]
    BY <1>1, <1>3, CharactersConcat
  <2> HIDE DEF z
  <2> QED BY <1>1, <2>1
<1>5. /\ Len(z) = Len(m) + 1 + Len(y)
      /\ \A i \in 1 .. Len(m) + 1 + Len(y) :
           z[i] = IF i <= Len(m) + 1 THEN q[i] ELSE y[i - (Len(m) + 1)]
  <2>1. /\ Len(z) = Len(q) + Len(y)
        /\ \A i \in 1 .. Len(q) + Len(y) :
             z[i] = IF i <= Len(q) THEN q[i] ELSE y[i - Len(q)]
    <3> DEFINE w == q \o y
    <3>1. /\ Len(w) = Len(q) + Len(y)
          /\ \A i \in 1 .. Len(q) + Len(y) :
               w[i] = IF i <= Len(q) THEN q[i] ELSE y[i - Len(q)]
      BY <1>2, CharactersConcat
    <3>2. z = w
      BY <1>3
    <3> HIDE DEF w, z
    <3> QED BY <3>1, <3>2
  <2> HIDE DEF z
  <2> QED BY <1>2, <2>1
<1> HIDE DEF z
<1>6. ~(Len(l) < Len(m))
  <2> SUFFICES ASSUME Len(l) < Len(m) PROVE FALSE
    OBVIOUS
  <2>1. z[Len(l) + 1] = Newline
    BY <1>1, <1>3, <1>4
  <2>2. z[Len(l) + 1] = m[Len(l) + 1] /\ Len(l) + 1 \in 1 .. Len(m)
    BY <1>2, <1>3, <1>5
  <2> QED BY <2>1, <2>2
<1>7. ~(Len(m) < Len(l))
  <2> SUFFICES ASSUME Len(m) < Len(l) PROVE FALSE
    OBVIOUS
  <2>1. z[Len(m) + 1] = Newline
    BY <1>2, <1>3, <1>5
  <2>2. z[Len(m) + 1] = l[Len(m) + 1] /\ Len(m) + 1 \in 1 .. Len(l)
    BY <1>1, <1>3, <1>4
  <2> QED BY <2>1, <2>2
<1>8. Len(l) = Len(m) /\ Len(x) = Len(y)
  BY <1>3, <1>4, <1>5, <1>6, <1>7
<1>9. \A i \in 1 .. Len(l) : l[i] = m[i]
  BY <1>1, <1>2, <1>3, <1>4, <1>5, <1>8
<1>10. \A i \in 1 .. Len(x) : x[i] = y[i]
  <2> SUFFICES ASSUME NEW i \in 1 .. Len(x) PROVE x[i] = y[i]
    OBVIOUS
  <2>1. z[Len(l) + 1 + i] = x[i]
    BY <1>3, <1>4
  <2>2. z[Len(l) + 1 + i] = y[i]
    BY <1>3, <1>5, <1>8
  <2> QED BY <2>1, <2>2
<1> QED BY <1>8, <1>9, <1>10, SeqEqual
-----------------------------------------------------------------------------
(* Steps that neither type, take nor write a line. *)
LEMMA OthersKeepLines ==
  ASSUME LinesInv, Accounted' => Accounted, eof => eof',
         UNCHANGED <<lang, typed, last, sent, Held, Pending>>,
         console = "ended" => console' = "ended"
  PROVE  LinesInv'
<1>1. /\ \A l, whole : MessagesOf(l, whole)' = MessagesOf(l, whole)
      /\ \A ls : Messages(ls)' = Messages(ls)
  BY MessagesStable
<1>2. \A line : GaveUp(line) => GaveUp(line)'
  BY DEF GaveUp
<1>3. ASSUME NEW a \in Seq(Line), NEW b \in Seq(Line), Split(a, b) PROVE Split(a, b)'
  BY <1>1, <1>2, <1>3 DEF Split
<1>4. RestTaken => RestTaken'
  BY <1>1 DEF RestTaken
<1>5. Accounted' => (\E a, b \in Seq(Line) : Split(a, b)') \/ RestTaken'
  BY <1>3, <1>4 DEF LinesInv
<1>6. (last # <<>> => eof)'
  BY DEF LinesInv
<1> QED BY <1>5, <1>6 DEF LinesInv

(* How what is pending begins, if it is the text of lines. *)
LEMMA FirstPending ==
  ASSUME ClientTypeOK, NEW b \in Seq(Line), Pending = Text(b) \o last
  PROVE  /\ HasLine => /\ b # <<>> /\ FirstLine = Head(b)
                       /\ After(LineEnd) \o stdin = Text(Tail(b)) \o last
         /\ ~HasLine /\ b = <<>> => last = buffer \o stdin
         /\ ~HasLine /\ b # <<>> => Len(Head(b)) >= Len(buffer)
<1>1. /\ buffer \in Seq(STRING) /\ stdin \in Seq(STRING) /\ last \in Seq(STRING)
      /\ Pending \in Seq(STRING) /\ \A i \in 1 .. Len(last) : last[i] # Newline
  BY LinesTypes
<1>2. /\ Newline \in STRING /\ b \in Seq(Seq(STRING))
      /\ Len(buffer) \in Nat /\ Len(stdin) \in Nat
  <2>1. Newline \in STRING /\ b \in Seq(Seq(STRING))
    BY LineTypes
  <2>2. Len(buffer) \in Nat
    BY <1>1
  <2>3. Len(stdin) \in Nat
    BY <1>1
  <2> QED BY <2>1, <2>2, <2>3
<1>3. \A i \in 1 .. Len(buffer) : Pending[i] = buffer[i] /\ i \in 1 .. Len(Pending)
  BY <1>1, <1>2, CharactersConcat DEF Pending
<1>4. /\ HasLine => LineEnd \in 1 .. Len(buffer) /\ buffer[LineEnd] = Newline
      /\ ~HasLine => \A i \in 1 .. Len(buffer) : buffer[i] # Newline
  BY <1>1, FirstLineEnd DEF HasLine
<1>5. CASE b = <<>>
  <2>1. Pending = last
    BY <1>1, <1>5, TextEmpty, ConcatEmptySeq
  <2>2. ~HasLine
    BY <1>1, <1>3, <1>4, <2>1
  <2> QED BY <1>5, <2>1, <2>2 DEF Pending
<1>6. CASE b # <<>>
  <2> DEFINE h == Head(b)  t == Text(Tail(b))  e == Append(h, Newline)
             f == Append(FirstLine, Newline)  r == After(LineEnd)
  <2>1. /\ h \in Seq(STRING) /\ Tail(b) \in Seq(Seq(STRING)) /\ h \in Line
        /\ Text(b) = e \o t
    <3>1. h \in Line
      BY <1>6
    <3> QED BY <1>2, <1>6, <3>1, TextFirst
  <2>2. /\ t \in Seq(STRING) /\ e \in Seq(STRING) /\ Len(e) = Len(h) + 1
        /\ e[Len(h) + 1] = Newline /\ Len(h) \in Nat
    <3>1. t \in Seq(STRING)
      BY <2>1, TextType
    <3> HIDE DEF h, t
    <3>2. e \in Seq(STRING) /\ Len(e) = Len(h) + 1 /\ e[Len(h) + 1] = Newline
      BY <1>2, <2>1, AppendProperties
    <3> QED BY <2>1, <3>1, <3>2
  <2>3. \A i \in 1 .. Len(h) : h[i] # Newline
    BY <2>1, ClientAssumption
  <2>4. FirstLine \in Seq(STRING) /\ r \in Seq(STRING) /\ (HasLine => buffer = f \o r)
        /\ \A i \in 1 .. Len(FirstLine) : FirstLine[i] # Newline
    BY <1>1, CutLine
  <2>5. f \in Seq(STRING)
    BY <1>2, <2>4, AppendProperties
  <2> HIDE DEF h, t, e, f, r
  <2>6. Pending = e \o (t \o last) /\ t \o last \in Seq(STRING)
    <3>1. Pending = (e \o t) \o last
      BY <2>1
    <3>2. e \in Seq(STRING) /\ t \in Seq(STRING) /\ last \in Seq(STRING)
      BY <1>1, <2>2
    <3>3. (e \o t) \o last = e \o (t \o last) /\ t \o last \in Seq(STRING)
      BY <3>2, CharactersAssociate
    <3> QED BY <3>1, <3>3
  <2>7. CASE HasLine
    <3>1. Pending = f \o (r \o stdin) /\ r \o stdin \in Seq(STRING)
      <4>1. Pending = (f \o r) \o stdin
        BY <2>4, <2>7 DEF Pending
      <4> QED BY <1>1, <2>4, <2>5, <4>1, CharactersAssociate
    <3> DEFINE x == r \o stdin  y == t \o last
    <3>2. x \in Seq(STRING) /\ y \in Seq(STRING) /\ f \o x = e \o y
      BY <2>6, <3>1
    <3> HIDE DEF x, y
    <3>3. FirstLine = h /\ x = y
      BY <2>1, <2>3, <2>4, <3>2, SameFirstLine DEF e, f
    <3> QED BY <1>6, <2>7, <3>3 DEF x, y, h, t, r
  <2>8. CASE ~HasLine
    <3> SUFFICES ASSUME Len(h) < Len(buffer) PROVE FALSE
      BY <1>2, <1>6, <2>2, <2>8 DEF h
    <3>1. Len(h) + 1 \in 1 .. Len(buffer) /\ Len(h) + 1 \in 1 .. Len(e)
      BY <1>2, <2>2
    <3>2. Pending[Len(h) + 1] # Newline
      BY <1>3, <1>4, <2>8, <3>1
    <3>3. Pending[Len(h) + 1] = e[Len(h) + 1]
      <4> DEFINE y == t \o last
      <4>1. y \in Seq(STRING) /\ Pending = e \o y
        BY <2>6
      <4> HIDE DEF y
      <4>2. Len(e) \in Nat /\ Len(y) \in Nat
        BY <2>2, <4>1
      <4>3. Len(h) + 1 \in 1 .. Len(e) + Len(y) /\ Len(h) + 1 <= Len(e)
        BY <2>2, <3>1, <4>2
      <4> QED BY <2>2, <4>1, <4>3, CharactersConcat
    <3> QED BY <2>2, <3>2, <3>3
  <2> QED BY <2>7, <2>8
<1> QED BY <1>5, <1>6

(* A line is typed behind all others. *)
LEMMA TypeKeepsLines ==
  ASSUME ClientTypeOK, LinesInv, NEW line \in Line, Type(line)
  PROVE  LinesInv'
<1> DEFINE l == Append(line, Newline)
<1>1. /\ ~eof /\ last = <<>> /\ typed' = Append(typed, line) /\ stdin' = stdin \o l
      /\ UNCHANGED <<lang, last, sent, Held, eof, console, buffer>>
      /\ (Accounted' => Accounted)
  BY DEF Type, LinesInv, Held, Accounted, client
<1>2. /\ line \in Seq(STRING) /\ l \in Seq(STRING)
      /\ buffer \in Seq(STRING) /\ stdin \in Seq(STRING) /\ Pending \in Seq(STRING)
  <2>1. line \in Seq(STRING) /\ Newline \in STRING
    BY LineTypes
  <2>2. l \in Seq(STRING)
    BY <2>1, AppendedElement
  <2> QED BY <2>1, <2>2, LinesTypes
<1> HIDE DEF l
<1>3. Pending' = Pending \o l
  <2>1. (buffer \o stdin) \o l = buffer \o (stdin \o l)
    BY <1>2, CharactersAssociate, SMTT(30)
  <2>2. Pending' = buffer \o (stdin \o l)
    BY <1>1 DEF Pending
  <2> QED BY <2>1, <2>2 DEF Pending
<1>4. \A ls : Messages(ls)' = Messages(ls)
  BY <1>1, MessagesStable
<1>5. SUFFICES ASSUME Accounted, NEW a \in Seq(Line), NEW b \in Seq(Line), Split(a, b)
               PROVE  \E c, d \in Seq(Line) : Split(c, d)'
  BY <1>1 DEF LinesInv, RestTaken
<1> DEFINE d == Append(b, line)
<1>6. /\ d \in Seq(Line) /\ b \in Seq(Seq(STRING)) /\ Text(d) = Text(b) \o l
      /\ Text(b) \in Seq(STRING) /\ Text(d) \in Seq(STRING)
  <2>1. b \in Seq(Seq(STRING)) /\ d \in Seq(Line) /\ d \in Seq(Seq(STRING))
    BY LineTypes, AppendProperties
  <2>2. Text(d) = Text(b) \o l
    BY <1>2, <2>1, TextAppend DEF l
  <2>3. Text(b) \in Seq(STRING) /\ Text(d) \in Seq(STRING)
    <3> HIDE DEF d
    <3> QED BY <2>1, TextType
  <2> QED BY <2>1, <2>2, <2>3
<1>7. typed' = a \o d
  BY <1>1, <1>5, AppendBehind DEF Split
<1>8. (sent \o Held = Messages(a))'
  <2>1. sent \o Held = Messages(a)
    BY <1>5 DEF Split
  <2>2. sent' = sent /\ Held' = Held /\ Messages(a)' = Messages(a)
    BY <1>1, <1>4
  <2> QED BY <2>1, <2>2
<1>9. (Pending = Text(d) \o last \/ GaveUp(Append(d, last)[1]))'
  <2>1. CASE Pending = Text(b) \o last
    <3>1. Pending = Text(b)
      BY <1>1, <1>6, <2>1, ConcatEmptySeq
    <3>2. Pending' = Text(d)
      BY <1>3, <1>6, <3>1
    <3> HIDE DEF d
    <3>3. Text(d) \o <<>> = Text(d)
      BY <1>6, ConcatEmptySeq
    <3> QED BY <1>1, <3>2, <3>3
  <2>2. CASE GaveUp(Append(b, last)[1])
    <3>1. MaxLine \in Nat
      BY LineTypes
    <3>2. b # <<>>
      BY <1>1, <2>2, <3>1 DEF GaveUp
    <3>3. Append(b, last)[1] = b[1] /\ Append(d, last)[1] = b[1]
      BY <1>6, <3>2
    <3> HIDE DEF d
    <3> QED BY <1>1, <2>2, <3>3 DEF GaveUp
  <2>3. Pending = Text(b) \o last \/ GaveUp(Append(b, last)[1])
    BY <1>5 DEF Split
  <2> QED BY <2>1, <2>2, <2>3
<1> HIDE DEF d
<1>10. Split(a, d)'
  BY <1>7, <1>8, <1>9 DEF Split
<1> QED BY <1>6, <1>10

(* The end of the input may cut off a line. *)
LEMMA EndKeepsLines ==
  ASSUME ClientTypeOK, LinesInv, NEW line \in Line \cup {<<>>}, ConsoleEnds(line)
  PROVE  LinesInv'
<1>1. /\ last = <<>> /\ last' = line /\ eof' /\ stdin' = stdin \o line
      /\ UNCHANGED <<lang, typed, sent, Held, console, buffer>>
      /\ (Accounted' => Accounted)
  BY DEF ConsoleEnds, LinesInv, Held, Accounted, client
<1>2. /\ line \in Seq(STRING) /\ buffer \in Seq(STRING) /\ stdin \in Seq(STRING)
  BY LineTypes, LinesTypes
<1>3. Pending' = Pending \o line
  <2>1. (buffer \o stdin) \o line = buffer \o (stdin \o line)
    BY <1>2, CharactersAssociate, SMTT(30)
  <2>2. Pending' = buffer \o (stdin \o line)
    BY <1>1 DEF Pending
  <2> QED BY <2>1, <2>2 DEF Pending
<1>4. \A ls : Messages(ls)' = Messages(ls)
  BY <1>1, MessagesStable
<1>5. SUFFICES ASSUME Accounted, NEW a \in Seq(Line), NEW b \in Seq(Line), Split(a, b)
               PROVE  Split(a, b)'
  BY <1>1 DEF LinesInv, RestTaken
<1>6. (Pending = Text(b) \o last \/ GaveUp(Append(b, last)[1]))'
  <2>1. CASE Pending = Text(b) \o last
    <3>1. Text(b) \in Seq(STRING)
      BY LineTypes, TextType
    <3>2. Pending = Text(b)
      BY <1>1, <2>1, <3>1, ConcatEmptySeq
    <3> QED BY <1>1, <1>3, <3>2
  <2>2. CASE GaveUp(Append(b, last)[1])
    <3>1. MaxLine \in Nat
      BY LineTypes
    <3>2. b # <<>>
      BY <1>1, <2>2, <3>1 DEF GaveUp
    <3>3. Append(b, last)[1] = Append(b, last')[1]
      BY <3>2
    <3> QED BY <1>1, <2>2, <3>3 DEF GaveUp
  <2>3. Pending = Text(b) \o last \/ GaveUp(Append(b, last)[1])
    BY <1>5 DEF Split
  <2> QED BY <2>1, <2>2, <2>3
<1>7. (sent \o Held = Messages(a))'
  <2>1. sent \o Held = Messages(a)
    BY <1>5 DEF Split
  <2>2. sent' = sent /\ Held' = Held /\ Messages(a)' = Messages(a)
    BY <1>1, <1>4
  <2> QED BY <2>1, <2>2
<1>8. (typed = a \o b)'
  BY <1>1, <1>5 DEF Split
<1> QED BY <1>6, <1>7, <1>8 DEF Split

(* Reading the console moves characters from one place to the other. *)
LEMMA ReadConsoleKeepsLines ==
  ASSUME ClientTypeOK, LinesInv, ReadConsole
  PROVE  LinesInv'
<1>1. PICK n \in 1 .. Len(stdin) :
        /\ buffer' = buffer \o SubSeq(stdin, 1, n)
        /\ stdin' = SubSeq(stdin, n + 1, Len(stdin))
  BY DEF ReadConsole
<1> DEFINE a == SubSeq(stdin, 1, n)  b == SubSeq(stdin, n + 1, Len(stdin))
<1>2. buffer \in Seq(STRING) /\ stdin \in Seq(STRING)
  BY LinesTypes
<1>3. a \in Seq(STRING) /\ b \in Seq(STRING) /\ a \o b = stdin
  BY <1>2
<1> HIDE DEF a, b
<1>4. (buffer \o a) \o b = buffer \o (a \o b)
  <2>1. a \in Seq(STRING) /\ b \in Seq(STRING)
    BY <1>3
  <2> QED BY <1>2, <2>1, CharactersConcat
<1>5. Pending' = Pending
  BY <1>1, <1>3, <1>4 DEF Pending, a, b
<1>6. UNCHANGED <<lang, typed, last, sent, Held, console, eof>> /\ (Accounted' => Accounted)
  BY DEF ReadConsole, Held, Accounted, client
<1> QED BY <1>5, <1>6, OthersKeepLines

(* What TakeLine leaves in the buffer, and what it makes of the line.  If  *)
(* all is accounted for, the buffer of C++ and Go ends with the line.      *)
LEMMA LineTaken ==
  ASSUME ClientTypeOK, TakeLine, Accounted'
  PROVE  /\ Accounted /\ console = "reading" /\ Held = <<>> /\ (HasLine \/ HasRest)
         /\ UNCHANGED <<lang, typed, last, stdin, eof>>
         /\ Pending' = After(LineEnd) \o stdin
         /\ sent' \o Held' = sent \o MessagesOf(FirstLine, HasLine)
<1> DEFINE e == LineEnd  rest == After(LineEnd)
<1>1. /\ UNCHANGED <<program, lang, typed, last, stdin, eof, open>> /\ status = "running"
      /\ console = "reading" /\ (HasLine \/ HasRest) /\ buffer' = Remainder
  BY DEF TakeLine, client, Accounted, Submit
<1>2. ahead' = (ahead \/ rest # <<>>)
  BY DEF TakeLine
<1>3. Accounted /\ open /\ (lang \in {"cpp", "go"} => rest = <<>>)
  <2>1. program' = "chat" /\ open' /\ (lang' \in {"cpp", "go"} => ~ahead')
    BY DEF Accounted
  <2>2. CASE lang \in {"cpp", "go"}
    <3>1. ~ahead'
      BY <1>1, <2>1, <2>2
    <3>2. ~ahead /\ rest = <<>>
      <4> HIDE DEF rest
      <4> QED BY <1>2, <3>1, Zenon
    <3> QED BY <1>1, <2>1, <3>2 DEF Accounted
  <2>3. CASE lang \notin {"cpp", "go"}
    BY <1>1, <2>1, <2>3 DEF Accounted
  <2> QED BY <2>2, <2>3
<1>4. Held = <<>>
  BY <1>1 DEF Held
<1>5. Remainder = rest
  <2>1. CASE lang = "cpp"
    <3>1. buffer \in Seq(STRING) /\ HasLine
      BY <1>1, <2>1, LinesTypes DEF HasRest
    <3>2. e \in 1 .. Len(buffer) /\ Len(buffer) \in Nat
      BY <3>1, FirstLineEnd
    <3>3. /\ Len(FirstLine) = e - 1 /\ FirstLine \in Seq(STRING) /\ Newline \in STRING
          /\ buffer = Append(FirstLine, Newline) \o rest
      BY <3>1, CutLine, LineTypes
    <3>4. Len(buffer) = e
      <4> DEFINE f == Append(FirstLine, Newline)
      <4>1. f \in Seq(STRING) /\ Len(f) = Len(FirstLine) + 1
        BY <3>3, AppendProperties
      <4>2. buffer = f \o <<>>
        BY <1>3, <2>1, <3>3
      <4>3. e \in Nat
        BY <3>2
      <4> HIDE DEF f, e
      <4>4. buffer = f
        BY <4>1, <4>2, ConcatEmptySeq
      <4>5. Len(FirstLine) + 1 = e
        BY <3>3, <4>3
      <4> QED BY <4>1, <4>4, <4>5
    <3>5. After(2 * e) = <<>>
      <4> HIDE DEF e
      <4> QED BY <3>2, <3>4, SubSeqEmpty DEF After
    <3> QED BY <1>3, <2>1, <3>5 DEF Remainder
  <2>2. CASE lang = "go"
    BY <1>3, <2>2 DEF Remainder
  <2>3. CASE lang \notin {"cpp", "go"}
    BY <2>3 DEF Remainder
  <2> QED BY <2>1, <2>2, <2>3
<1>6. Pending' = rest \o stdin
  BY <1>1, <1>5 DEF Pending
<1>7. sent' \o Held' = sent \o MessagesOf(FirstLine, HasLine)
  <2> DEFINE m == MessagesOf(FirstLine, HasLine)
  <2>1. sent \in Seq(Seq(STRING)) /\ sent \o <<>> = sent
    BY LinesTypes, ConcatEmptySeq
  <2>2. CASE m = <<>>
    <3>1. UNCHANGED <<outgoing, console, status, sent>>
      BY <2>2 DEF TakeLine
    <3>2. Held' = <<>>
      <4>1. console' = "reading"
        BY <1>1, <3>1
      <4> QED BY <4>1 DEF Held
    <3>3. sent' = sent
      BY <3>1
    <3> HIDE DEF m
    <3> QED BY <2>1, <2>2, <3>2, <3>3 DEF m
  <2>3. CASE m # <<>>
    <3> DEFINE x == Message(FirstLine, HasLine)
    <3>1. m = <<x>>
      BY <2>3 DEF MessagesOf
    <3>2. Submit(x)
      BY <2>3 DEF TakeLine
    <3>3. x \in Seq(STRING) /\ open
      <4>1. FirstLine \in Seq(STRING) /\ HasLine \in BOOLEAN
        BY LinesTypes, CutLine DEF HasLine
      <4> QED BY <1>3, <4>1, MessageType DEF Accounted
    <3> HIDE DEF x, m
    <3>4. CASE lang = "cpp"
      <4>1. sent' = Append(sent, x) /\ Held' = <<>>
        <5>1. sent' = Append(sent, x) /\ console' = console
          BY <3>2, <3>3, <3>4, Zenon DEF Submit
        <5> QED BY <1>1, <5>1 DEF Held
      <4>2. Append(sent, x) \in Seq(Seq(STRING)) /\ Append(sent, x) = sent \o <<x>>
        BY <2>1, <3>3, AppendProperties
      <4>3. Append(sent, x) \o <<>> = Append(sent, x)
        <5> DEFINE y == Append(sent, x)
        <5>1. y \in Seq(Seq(STRING))
          BY <4>2
        <5> HIDE DEF y
        <5> QED BY <5>1, ConcatEmptySeq DEF y
      <4>4. MessagesOf(FirstLine, HasLine) = <<x>>
        BY <3>1 DEF m
      <4> QED BY <4>1, <4>2, <4>3, <4>4
    <3>5. CASE lang # "cpp"
      <4>1. sent' = sent /\ Held' = <<x>>
        <5>1. outgoing' = x /\ console' \in {"offering", "writing"} /\ sent' = sent
          BY <3>2, <3>5 DEF Submit
        <5> QED BY <5>1 DEF Held
      <4>2. MessagesOf(FirstLine, HasLine) = <<x>>
        BY <3>1 DEF m
      <4> QED BY <4>1, <4>2
    <3> QED BY <3>4, <3>5
  <2> QED BY <2>2, <2>3
<1> QED BY <1>1, <1>3, <1>4, <1>6, <1>7

LEMMA TakeLineKeepsLines ==
  ASSUME ClientTypeOK, LinesInv, TakeLine
  PROVE  LinesInv'
<1>1. UNCHANGED <<lang, typed, last, eof>>
  BY DEF TakeLine, client
<1>2. SUFFICES ASSUME Accounted'
               PROVE  (\E c, d \in Seq(Line) : Split(c, d)') \/ RestTaken'
  BY <1>1 DEF LinesInv
<1>3. /\ Accounted /\ console = "reading" /\ Held = <<>> /\ (HasLine \/ HasRest)
      /\ UNCHANGED stdin
      /\ Pending' = After(LineEnd) \o stdin
      /\ sent' \o Held' = sent \o MessagesOf(FirstLine, HasLine)
  BY <1>2, LineTaken
<1>4. /\ buffer \in Seq(STRING) /\ stdin \in Seq(STRING) /\ last \in Seq(STRING)
      /\ typed \in Seq(Line) /\ sent \in Seq(Seq(STRING)) /\ sent \o Held = sent
  <2>1. sent \in Seq(Seq(STRING))
    BY LinesTypes
  <2>2. sent \o <<>> = sent
    BY <2>1, ConcatEmptySeq
  <2> QED BY <1>3, <2>1, <2>2, LinesTypes
<1>5. /\ \A l, whole : MessagesOf(l, whole)' = MessagesOf(l, whole)
      /\ \A ls : Messages(ls)' = Messages(ls)
  BY <1>1, MessagesStable
<1>6. CASE RestTaken
  <2>1. buffer = <<>>
    <3>1. buffer \o stdin = <<>>
      BY <1>6 DEF RestTaken, Pending
    <3> QED BY <1>4, <3>1
  <2> QED BY <1>3, <2>1 DEF HasLine, HasRest
<1>7. ASSUME NEW a \in Seq(Line), NEW b \in Seq(Line), Split(a, b)
      PROVE  (\E c, d \in Seq(Line) : Split(c, d)') \/ RestTaken'
  <2>1. /\ typed = a \o b /\ sent = Messages(a) /\ Pending = Text(b) \o last
        /\ a \in Seq(Seq(STRING)) /\ b \in Seq(Seq(STRING))
    <3>1. ~GaveUp(Append(b, last)[1])
      BY <1>3 DEF GaveUp
    <3>2. typed = a \o b /\ sent \o Held = Messages(a) /\ Pending = Text(b) \o last
      BY <1>7, <3>1, Zenon DEF Split
    <3>3. a \in Seq(Seq(STRING)) /\ b \in Seq(Seq(STRING))
      BY LineTypes
    <3> QED BY <1>4, <3>2, <3>3
  <2>2. CASE HasLine
    <3> DEFINE h == Head(b)  c == Append(a, h)  d == Tail(b)
    <3>1. b # <<>> /\ FirstLine = h /\ After(LineEnd) \o stdin = Text(d) \o last
      BY <2>1, <2>2, FirstPending
    <3>2. h \in Line /\ d \in Seq(Line) /\ c \in Seq(Line) /\ h \in Seq(STRING)
      <4>1. h \in Line /\ d \in Seq(Line)
        BY <3>1
      <4> QED BY <4>1, LineTypes, AppendProperties
    <3>3. Messages(c) = Messages(a) \o MessagesOf(h, TRUE)
      BY <2>1, <3>2, MessagesAppend
    <3>4. sent' \o Held' = Messages(c)
      BY <1>3, <2>1, <2>2, <3>1, <3>3
    <3>5. typed = c \o d
      <4>1. b = <<h>> \o d /\ c = a \o <<h>> /\ <<h>> \in Seq(Line)
        <5>1. b = <<h>> \o d
          BY <3>1
        <5>2. <<h>> \in Seq(Line)
          BY <3>2
        <5> HIDE DEF h
        <5>3. c = a \o <<h>>
          BY <3>2
        <5> QED BY <5>1, <5>2, <5>3
      <4> DEFINE s == <<h>>
      <4>2. s \in Seq(Line)
        BY <4>1
      <4> HIDE DEF s, d
      <4>3. (a \o s) \o d = a \o (s \o d)
        BY <3>2, <4>2, LinesAssociate, SMTT(30)
      <4> QED BY <2>1, <4>1, <4>3 DEF s, d
    <3> HIDE DEF c, d
    <3>6. Split(c, d)'
      BY <1>1, <1>3, <1>5, <3>1, <3>4, <3>5 DEF Split
    <3> QED BY <3>2, <3>6
  <2>3. CASE ~HasLine
    <3>1. stdin = <<>> /\ buffer # <<>>
      BY <1>3, <2>3 DEF HasRest
    <3>2. FirstLine = buffer /\ After(LineEnd) = <<>> /\ Len(buffer) \in Nat
      BY <1>4, <2>3, CutLine
    <3>3. Pending = buffer /\ Pending' = <<>>
      BY <1>3, <1>4, <3>1, <3>2, ConcatEmptySeq, EmptySeq DEF Pending
    <3>4. b = <<>>
      <4> SUFFICES ASSUME b # <<>> PROVE FALSE
        OBVIOUS
      <4> DEFINE e == Append(Head(b), Newline)  r == Text(Tail(b))  t == r \o last
      <4>1. Head(b) \in Seq(STRING) /\ Tail(b) \in Seq(Seq(STRING))
            /\ Text(b) = e \o r
        BY <2>1, TextFirst
      <4>2. r \in Seq(STRING) /\ e \in Seq(STRING) /\ Len(e) = Len(Head(b)) + 1
        <5>1. r \in Seq(STRING)
          BY <4>1, TextType
        <5>2. Newline \in STRING
          BY LineTypes
        <5>3. e \in Seq(STRING) /\ Len(e) = Len(Head(b)) + 1
          BY <4>1, <5>2, AppendProperties
        <5> QED BY <5>1, <5>3
      <4> HIDE DEF e, r
      <4>3. Pending = e \o t /\ t \in Seq(STRING)
        <5>1. Pending = (e \o r) \o last
          BY <2>1, <4>1
        <5> QED BY <1>4, <4>2, <5>1, CharactersAssociate
      <4>4. Len(Head(b)) \in Nat /\ Len(Head(b)) >= Len(buffer)
        <5>1. Len(Head(b)) \in Nat
          BY <4>1
        <5>2. Len(Head(b)) >= Len(buffer)
          BY <2>1, <2>3, FirstPending
        <5> QED BY <5>1, <5>2
      <4> HIDE DEF t
      <4>5. Len(e \o t) = Len(e) + Len(t) /\ Len(t) \in Nat
        BY <4>2, <4>3, CharactersConcat
      <4>6. Len(buffer) = Len(e) + Len(t)
        BY <3>3, <4>3, <4>5
      <4> QED BY <3>2, <4>2, <4>4, <4>5, <4>6
    <3>5. last = buffer
      BY <1>4, <2>1, <2>3, <3>1, <3>4, FirstPending, ConcatEmptySeq
    <3>6. typed = a
      <4>1. typed = a \o <<>>
        BY <2>1, <3>4
      <4>2. a \o <<>> = a
        BY <2>1, ConcatEmptySeq
      <4> QED BY <4>1, <4>2
    <3>7. sent' \o Held' = Messages(typed) \o MessagesOf(last, FALSE)
      <4>1. HasLine = FALSE
        BY <2>3 DEF HasLine
      <4>2. MessagesOf(FirstLine, HasLine) = MessagesOf(last, FALSE)
        BY <3>2, <3>5, <4>1
      <4> QED BY <1>3, <2>1, <3>6, <4>2
    <3>8. /\ Messages(typed)' = Messages(typed)
          /\ MessagesOf(last, FALSE)' = MessagesOf(last, FALSE)
      <4>1. Messages(typed)' = Messages(typed)
        BY <1>1, <1>5
      <4>2. MessagesOf(last, FALSE)' = MessagesOf(last, FALSE)
        BY <1>1, <1>5
      <4> QED BY <4>1, <4>2
    <3>9. (last # <<>>)' /\ Pending' = <<>>
      BY <1>1, <3>1, <3>3, <3>5
    <3>10. (sent \o Held)' = Messages(typed)' \o MessagesOf(last, FALSE)'
      BY <3>7, <3>8
    <3> QED BY <3>9, <3>10 DEF RestTaken
  <2> QED BY <2>2, <2>3
<1> QED BY <1>3, <1>6, <1>7 DEF LinesInv

(* A line that is too long is given up, and it is the next one. *)
LEMMA LineTooLongKeepsLines ==
  ASSUME ClientTypeOK, LinesInv, LineTooLong
  PROVE  LinesInv'
<1>1. /\ UNCHANGED <<lang, typed, last, eof, sent, stdin>> /\ (Accounted' => Accounted)
      /\ console = "reading" /\ console' = "ended" /\ Held = <<>> /\ Held' = <<>>
      /\ lang \in {"zig", "python"} /\ Len(FirstLine) > MaxLine
  BY DEF LineTooLong, client, Accounted, Held, TooLong
<1>2. SUFFICES ASSUME Accounted PROVE (\E c, d \in Seq(Line) : Split(c, d)') \/ RestTaken'
  BY <1>1 DEF LinesInv
<1>3. /\ buffer \in Seq(STRING) /\ stdin \in Seq(STRING) /\ last \in Seq(STRING)
      /\ MaxLine \in Nat /\ Len(buffer) \in Nat /\ Len(stdin) \in Nat
  <2>1. buffer \in Seq(STRING) /\ stdin \in Seq(STRING) /\ last \in Seq(STRING)
    BY LinesTypes
  <2>2. MaxLine \in Nat
    BY LineTypes
  <2> QED BY <2>1, <2>2
<1>4. ~HasLine => FirstLine = buffer
  BY <1>3, CutLine
<1>5. \A ls : Messages(ls)' = Messages(ls)
  BY <1>1, MessagesStable
<1>6. CASE RestTaken
  <2>1. buffer = <<>>
    <3>1. buffer \o stdin = <<>>
      BY <1>6 DEF RestTaken, Pending
    <3> QED BY <1>3, <3>1
  <2>2. ~HasLine
    BY <2>1 DEF HasLine
  <2> QED BY <1>1, <1>3, <1>4, <2>1, <2>2
<1>7. ASSUME NEW a \in Seq(Line), NEW b \in Seq(Line), Split(a, b) PROVE Split(a, b)'
  <2>1. Pending = Text(b) \o last /\ typed = a \o b /\ sent \o Held = Messages(a)
    BY <1>1, <1>7 DEF Split, GaveUp
  <2>2. Len(Append(b, last)[1]) > MaxLine
    <3>1. CASE b = <<>>
      <4>1. ~HasLine /\ last = buffer \o stdin
        BY <2>1, <3>1, FirstPending
      <4>2. Len(last) = Len(buffer) + Len(stdin)
        BY <1>3, <4>1, CharactersConcat
      <4>3. Append(b, last)[1] = last
        BY <3>1
      <4> QED BY <1>1, <1>3, <1>4, <4>1, <4>2, <4>3
    <3>2. CASE b # <<>>
      <4>1. Append(b, last)[1] = Head(b) /\ Head(b) \in Line
        BY <3>2
      <4>2. Len(Head(b)) \in Nat
        BY <4>1, LineTypes
      <4>3. FirstLine = Head(b) \/ (FirstLine = buffer /\ Len(Head(b)) >= Len(buffer))
        BY <1>4, <2>1, <3>2, FirstPending
      <4> QED BY <1>1, <1>3, <4>1, <4>2, <4>3
    <3> QED BY <3>1, <3>2
  <2>3. GaveUp(Append(b, last)[1])'
    BY <1>1, <2>2 DEF GaveUp
  <2>4. (sent \o Held = Messages(a))'
    BY <1>1, <1>5, <2>1
  <2> QED BY <1>1, <2>1, <2>3, <2>4 DEF Split
<1> QED BY <1>2, <1>6, <1>7 DEF LinesInv

(* A message that was on its way is written. *)
LEMMA WrittenKeepsLines ==
  ASSUME ClientTypeOK, LinesInv, Written
  PROVE  LinesInv'
<1>1. /\ UNCHANGED <<lang, typed, last, eof, stdin, buffer>> /\ (Accounted' => Accounted)
      /\ console = "writing" /\ sent' = Append(sent, outgoing)
      /\ Held = <<outgoing>> /\ Held' = <<>>
  BY DEF Written, client, Accounted, Held
<1>2. sent \in Seq(Seq(STRING)) /\ outgoing \in Seq(STRING)
  BY LinesTypes
<1>3. sent' \o Held' = sent \o Held
  <2>1. Append(sent, outgoing) \in Seq(Seq(STRING)) /\ Append(sent, outgoing) = sent \o <<outgoing>>
    BY <1>2, AppendProperties
  <2> DEFINE y == Append(sent, outgoing)
  <2>2. y \in Seq(Seq(STRING))
    BY <2>1
  <2> HIDE DEF y
  <2>3. y \o <<>> = y
    BY <2>2, ConcatEmptySeq
  <2> QED BY <1>1, <2>1, <2>3 DEF y
<1>4. /\ \A l, whole : MessagesOf(l, whole)' = MessagesOf(l, whole)
      /\ \A ls : Messages(ls)' = Messages(ls)
  BY <1>1, MessagesStable
<1>5. Pending' = Pending
  BY <1>1 DEF Pending
<1>6. ASSUME NEW a \in Seq(Line), NEW b \in Seq(Line), Split(a, b) PROVE Split(a, b)'
  BY <1>1, <1>3, <1>4, <1>5, <1>6 DEF Split, GaveUp
<1>7. RestTaken => RestTaken'
  BY <1>1, <1>3, <1>4, <1>5 DEF RestTaken
<1> QED BY <1>1, <1>6, <1>7 DEF LinesInv

LEMMA InitLinesInv == Init => LinesInv
<1> SUFFICES ASSUME Init PROVE LinesInv
  OBVIOUS
<1>1. typed = <<>> /\ last = <<>> /\ sent = <<>> /\ Pending = <<>> /\ Held = <<>>
  BY DEF Init, InitEcho, InitNotification, InitChat, Pending, Held
<1>2. Text(<<>>) = <<>> /\ Messages(<<>>) = <<>> /\ <<>> \in Seq(Line)
  BY TextEmpty, MessagesEmpty, LineTypes
<1>3. Split(<<>>, <<>>)
  BY <1>1, <1>2 DEF Split
<1> QED BY <1>1, <1>2, <1>3 DEF LinesInv

LEMMA StepLinesInv == ClientTypeOK /\ LinesInv /\ [Next]_vars => LinesInv'
<1> SUFFICES ASSUME ClientTypeOK, LinesInv, [Next]_vars PROVE LinesInv'
  OBVIOUS
<1> USE DEF Held, Pending, Accounted, client, lines, stream
<1>1. CASE UNCHANGED vars
  BY <1>1, OthersKeepLines DEF vars
<1>2. CASE ServerSends \/ ServerCloses \/ ServerStalls
  BY <1>2, OthersKeepLines DEF ServerSends, ServerCloses, ServerStalls
<1>3. CASE (Interrupt \/ Join) /\ status = "running"
  BY <1>3, OthersKeepLines DEF Interrupt, Join
<1>4. CASE (ReadStream \/ ReceiveMessage) /\ status = "running"
  BY <1>4, OthersKeepLines
  DEF ReadStream, ReadByte, ReadHeader, ReadPayload, ReadFails, ReadsShort, ReceiveMessage
<1>5. ASSUME NEW line \in Line, Request(line) PROVE LinesInv'
  BY <1>5 DEF Request, LinesInv
<1>6. CASE ConsoleFails
  BY <1>6, OthersKeepLines DEF ConsoleFails
<1>7. CASE ReceiveLine \/ FloodStalls
  BY <1>7, OthersKeepLines DEF ReceiveLine, FloodStalls
<1>8. CASE SendFails
  BY <1>8 DEF SendFails, WriteFails, FloodFails, LinesInv
<1>9. CASE Next
  BY <1>2, <1>3, <1>4, <1>5, <1>6, <1>7, <1>8, <1>9, TypeKeepsLines, EndKeepsLines,
     ReadConsoleKeepsLines, TakeLineKeepsLines, LineTooLongKeepsLines, WrittenKeepsLines
  DEF Next, ReadLines
<1> QED BY <1>1, <1>9

LEMMA SplitIsTheProperty ==
  ASSUME ClientTypeOK, LinesInv
  PROVE  LinesSentAsTyped
<1> SUFFICES ASSUME Accounted
    PROVE \/ \E n \in 0 .. Len(typed) :
               LET others == SubSeq(typed, n + 1, Len(typed))
               IN  /\ sent \o Held = Messages(SubSeq(typed, 1, n))
                   /\ \/ buffer \o stdin = Text(others) \o last
                      \/ GaveUp(Append(others, last)[1])
          \/ /\ last # <<>> /\ buffer \o stdin = <<>>
             /\ sent \o Held = Messages(typed) \o MessagesOf(last, FALSE)
  BY DEF LinesSentAsTyped, Accounted
<1>1. CASE RestTaken
  BY <1>1 DEF RestTaken, Pending
<1>2. ASSUME NEW a \in Seq(Line), NEW b \in Seq(Line), Split(a, b)
      PROVE  \E n \in 0 .. Len(typed) :
               LET others == SubSeq(typed, n + 1, Len(typed))
               IN  /\ sent \o Held = Messages(SubSeq(typed, 1, n))
                   /\ \/ buffer \o stdin = Text(others) \o last
                      \/ GaveUp(Append(others, last)[1])
  <2> DEFINE n == Len(a)
  <2>1. typed = a \o b /\ Len(typed) = Len(a) + Len(b) /\ n \in 0 .. Len(typed)
    BY <1>2, ConcatProperties DEF Split
  <2>2. SubSeq(typed, 1, n) = a /\ SubSeq(typed, n + 1, Len(typed)) = b
    BY <2>1
  <2>3. /\ sent \o Held = Messages(a)
        /\ buffer \o stdin = Text(b) \o last \/ GaveUp(Append(b, last)[1])
    BY <1>2 DEF Split, Pending
  <2>4. /\ sent \o Held = Messages(SubSeq(typed, 1, n))
        /\ \/ buffer \o stdin = Text(SubSeq(typed, n + 1, Len(typed))) \o last
           \/ GaveUp(Append(SubSeq(typed, n + 1, Len(typed)), last)[1])
    BY <2>2, <2>3
  <2> HIDE DEF n
  <2> QED BY <2>1, <2>4
<1> QED BY <1>1, <1>2 DEF LinesInv

(* Each line typed into a chat client is sent, once, in its order and as   *)
(* its language converts it, or is still whole on its way, for any lines,  *)
(* as long as the client runs and is connected.  Excepted are lines typed  *)
(* ahead in C++ and Go, and what follows a line too long for Zig or Python. *)
THEOREM LinesSent == Spec => []LinesSentAsTyped
<1>1. ClientTypeOK /\ LinesInv => LinesSentAsTyped
  BY SplitIsTheProperty
<1> QED BY <1>1, InitLinesInv, StepLinesInv, TypeCorrect, PTL DEF Spec
=============================================================================
