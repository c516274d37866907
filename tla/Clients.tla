------------------------------ MODULE Clients ------------------------------
(***************************************************************************)
(* The example clients: three programs, each in five languages, over one   *)
(* connection to their server.                                             *)
(*                                                                         *)
(*   echo          sends one message, shows the answer and ends            *)
(*   notification  shows what the server sends                             *)
(*   chat          the same, and sends the lines of the console meanwhile  *)
(*                                                                         *)
(* What differs between the languages is how they wait for both, and what  *)
(* they do about a loss:                                                   *)
(*                                                                         *)
(*   cpp     handlers of one io_context                                    *)
(*   go      goroutines that offer what they read to a select              *)
(*   rust    select! over two futures, the loser of which is dropped       *)
(*   python  tasks of one event loop                                       *)
(*   zig     threads                                                       *)
(*                                                                         *)
(* The echo clients other than that of C++, and the notification clients   *)
(* of Rust and Zig, wait in main for their read and for nothing else.      *)
(*                                                                         *)
(* The bytes of the server are numbered.  A frame has four: two of header  *)
(* and two of payload.  A client has read the first "read" of them, and    *)
(* holds the last "got" of these for the read that is under way.  What is  *)
(* typed is characters; each line ends with Newline, but for one that the  *)
(* end of the input cuts off.  A message is the text of one line.          *)
(*                                                                         *)
(* The server sends nothing that its clients cannot parse: a frame is      *)
(* shown if it is read as it was sent, and lengths are those all clients   *)
(* agree on (Framing).  What is typed is valid UTF-8 and fits in a frame,  *)
(* and the user has a name, so that no message of chat is empty.           *)
(* The client is connected and in its loop; "exited" is out of that loop.  *)
(***************************************************************************)
EXTENDS Naturals, SequencesExt

CONSTANTS
  Program,     (* the programs, of the three above                          *)
  Lang,        (* the languages, of the five above                          *)
  Line,        (* lines that the user may type, or echo's message           *)
  Newline,
  Return,      (* the character that Rust takes off before Newline          *)
  Blank,       (* the characters that Go and Python take off at both ends   *)
  MaxLine,     (* the longest line of Zig (1023), and maybe Python (65536)  *)
  FrameBound,  (* bound: frames that the server sends                       *)
  LineBound,   (* bound: lines that the user types                          *)
  WorkBound    (* bound: frames and lines together                          *)

ASSUME ClientAssumption ==
  /\ Program \subseteq {"echo", "notification", "chat"}
  /\ Lang \subseteq {"cpp", "go", "rust", "python", "zig"}
  /\ Newline \in STRING /\ Return \in Blank /\ Blank \subseteq STRING
  /\ \A l \in Line : l \in Seq(STRING) /\ \A i \in DOMAIN l : l[i] # Newline
  /\ MaxLine \in Nat
  /\ FrameBound \in Nat \ {0} /\ LineBound \in Nat /\ WorkBound \in Nat

VARIABLES
  program,    (* which client this is                                       *)
  lang,
  status,     (* of the process                                             *)
  open,       (* the server has the connection open                         *)
  serverReads, (* it has not stopped reading: a write may have to wait      *)
  emitted,    (* how many bytes the server has sent                         *)
  read,       (* how many of them the client has taken from the socket      *)
  got,        (* how many of those belong to the read under way             *)
  part,       (* what that read is for: "header" or "payload"               *)
  want,       (* the size of that read                                      *)
  reader,     (* who reads frames: "reading", "offering" (go), "ended", or  *)
              (* "waiting" for the request to be sent (echo)                *)
  console,    (* who sends: the same, "writing" a message, "flooding" the   *)
              (* server, "stuck" in doing so (chat), "none", or "sending"   *)
              (* the request (echo)                                         *)
  stdin,      (* characters typed that the client has not read              *)
  eof,        (* the end of the console's input                             *)
  buffer,     (* characters that the client has read                        *)
  outgoing,   (* the message that is offered (go) or being written          *)
  done,       (* zig: the signal has come                                   *)
  shown,      (* history: the frames shown; 0 is one that was never sent    *)
  typed,      (* history: the lines typed                                   *)
  last,       (* history: what was typed behind them, before the end        *)
  sent,       (* history: the messages written                              *)
  cancelled,  (* history: a read under way has been dropped                 *)
  cut,        (* history: the end of the stream has been taken for bytes    *)
  ahead       (* history: there was more than one line in the buffer        *)

stream == <<emitted, read, got, part, want, reader, shown, cancelled, cut>>
lines  == <<console, stdin, eof, buffer, outgoing, typed, last, sent, ahead>>
client == <<program, lang>>
vars   == <<client, status, open, serverReads, done, stream, lines>>

ClientTypeOK ==
  /\ program \in Program /\ lang \in Lang
  /\ status \in {"running", "exited"}
  /\ open \in BOOLEAN /\ serverReads \in BOOLEAN /\ eof \in BOOLEAN /\ done \in BOOLEAN
  /\ cancelled \in BOOLEAN /\ cut \in BOOLEAN /\ ahead \in BOOLEAN
  /\ emitted \in 0 .. 4 * FrameBound /\ read \in 0 .. emitted
  /\ want \in 0 .. 2 /\ got \in 0 .. want
  /\ part \in {"header", "payload"}
  /\ reader \in {"waiting", "reading", "offering", "ended"}
  /\ console \in {"none", "sending", "reading", "offering", "writing", "flooding",
                  "stuck", "ended"}
  /\ stdin \in Seq(STRING) /\ buffer \in Seq(STRING) /\ outgoing \in Seq(STRING)
  /\ last \in Line \cup {<<>>}
  /\ shown \in Seq(0 .. FrameBound)
  /\ typed \in Seq(Line) /\ sent \in Seq(Seq(STRING))

InitEcho == program = "echo" /\ reader = "waiting" /\ console = "sending"

InitNotification == program = "notification" /\ reader = "reading" /\ console = "none"

InitChat == program = "chat" /\ reader = "reading" /\ console = "reading"

Init ==
  /\ program \in Program /\ lang \in Lang
  /\ InitEcho \/ InitNotification \/ InitChat
  /\ status = "running"
  /\ open = TRUE /\ serverReads = TRUE
  /\ emitted = 0 /\ read = 0 /\ got = 0 /\ part = "header" /\ want = 2
  /\ stdin = <<>> /\ eof = FALSE /\ buffer = <<>> /\ outgoing = <<>>
  /\ done = FALSE
  /\ shown = <<>> /\ typed = <<>> /\ last = <<>> /\ sent = <<>>
  /\ cancelled = FALSE /\ cut = FALSE /\ ahead = FALSE
-----------------------------------------------------------------------------
(* The server and the user. *)

(* Frames begun and lines typed, one that the end cuts off included. *)
Work == (emitted + 3) \div 4 + Len(typed) + (IF last = <<>> THEN 0 ELSE 1)

(* The echo server answers requests, the others send what they want. *)
FramesToSend == IF program = "echo" THEN Len(sent) ELSE FrameBound

ServerSends ==
  /\ open /\ emitted < 4 * FramesToSend
  /\ emitted % 4 = 0 => Work < WorkBound
  /\ emitted' = emitted + 1
  /\ UNCHANGED <<client, status, open, serverReads, done, read, got, part, want, reader, shown,
                 cancelled, cut, lines>>

ServerCloses ==
  /\ open /\ open' = FALSE
  /\ UNCHANGED <<client, status, serverReads, done, stream, lines>>

(* The server reads no more, for good: the kernel's buffer is full.  That  *)
(* matters, and is a step here, once somebody writes.                      *)
ServerStalls ==
  /\ open /\ console \in {"sending", "writing", "flooding"}
  /\ serverReads /\ serverReads' = FALSE
  /\ UNCHANGED <<client, status, open, done, stream, lines>>

Type(line) ==
  /\ program = "chat" /\ ~eof
  /\ Len(typed) < LineBound /\ Work < WorkBound
  /\ stdin' = stdin \o Append(line, Newline)
  /\ typed' = Append(typed, line)
  /\ UNCHANGED <<client, status, open, serverReads, done, stream, console, eof, buffer,
                 outgoing, last, sent, ahead>>

(* The end may cut off a line. *)
ConsoleEnds(line) ==
  /\ program = "chat" /\ ~eof /\ eof' = TRUE
  /\ line # <<>> => Len(typed) < LineBound /\ Work < WorkBound
  /\ stdin' = stdin \o line /\ last' = line
  /\ UNCHANGED <<client, status, open, serverReads, done, stream, console, buffer, outgoing,
                 typed, sent, ahead>>

(* Go writes in a case of its select, and Rust in a branch: the loop waits *)
(* for the write, and for nothing else.                                    *)
Busy == lang \in {"go", "rust"} /\ console \in {"writing", "stuck"}

(* Zig's handler sets a flag that its loops test between two messages, and *)
(* a second signal (RESETHAND) kills the process; so does the first one of *)
(* the clients without a handler.  The others leave their loop, as soon as *)
(* it comes to the signal.                                                 *)
Interrupt ==
  /\ ~Busy
  /\ IF lang = "zig" /\ program # "echo" /\ ~done THEN done' = TRUE /\ UNCHANGED status
                              ELSE status' = "exited" /\ UNCHANGED done
  /\ UNCHANGED <<client, open, serverReads, stream, lines>>
-----------------------------------------------------------------------------
(* Reading frames. *)

(* Mutant: a read takes what is there, be it more than it wants. *)
WantsMoreAlways == TRUE

WantsMore == got < want

ReadByte ==
  /\ reader = "reading" /\ WantsMore
  /\ read < emitted
  /\ read' = read + 1 /\ got' = got + 1
  /\ UNCHANGED <<client, status, open, serverReads, done, emitted, part, want, reader, shown,
                 cancelled, cut, lines>>

(* The bytes of the read under way begin at this place of a frame. *)
Place == (read - got) % 4

(* Four bytes that are no header announce any length. *)
ReadHeader ==
  /\ reader = "reading" /\ part = "header" /\ ~WantsMore
  /\ part' = "payload" /\ got' = 0
  /\ want' \in IF Place = 0 THEN {2} ELSE 0 .. 2
  /\ UNCHANGED <<client, status, open, serverReads, done, emitted, read, reader, shown, cancelled,
                 cut, lines>>

(* The frame that has been read, or 0 for bytes that are none. *)
Arrived == IF Place = 2 /\ want = 2 THEN read \div 4 ELSE 0

NextFrame == part' = "header" /\ want' = 2 /\ got' = 0

(* Mutant: the loop of Zig does not test its flag. *)
GoOnRegardless ==
  /\ reader' = "reading"
  /\ status' = IF program = "echo" THEN "exited" ELSE status

(* After a message echo is done; a loop of Zig tests its flag, in the      *)
(* notification client that of main, in the chat client that of a thread.  *)
GoOn ==
  /\ reader' = IF done THEN "ended" ELSE "reading"
  /\ status' = IF program = "echo" \/ (program = "notification" /\ done)
                 THEN "exited" ELSE status

(* Go reads in a goroutine of its own, but for echo. *)
Offers == lang = "go" /\ program # "echo"

(* The payload is complete.  Bytes that are none may also fail to parse.   *)
ReadPayload ==
  /\ reader = "reading" /\ part = "payload" /\ ~WantsMore
  /\ \/ /\ Offers
        /\ reader' = "offering"
        /\ UNCHANGED <<status, part, want, got, shown>>
     \/ /\ ~Offers
        /\ NextFrame
        /\ \/ shown' = Append(shown, Arrived)
           \/ Arrived = 0 /\ UNCHANGED shown
        /\ GoOn
  /\ UNCHANGED <<client, open, serverReads, done, emitted, read, cancelled, cut, lines>>

(* Mutant: the goroutine returns after its first message. *)
ReceiveMessageOnce ==
  /\ lang = "go" /\ reader = "offering" /\ ~Busy
  /\ shown' = Append(shown, Arrived)
  /\ NextFrame
  /\ reader' = "ended"
  /\ UNCHANGED <<client, status, open, serverReads, done, emitted, read, cancelled, cut, lines>>

(* Go's select receives the message. *)
ReceiveMessage ==
  /\ lang = "go" /\ reader = "offering" /\ ~Busy
  /\ shown' = Append(shown, Arrived)
  /\ NextFrame
  /\ reader' = "reading"
  /\ UNCHANGED <<client, status, open, serverReads, done, emitted, read, cancelled, cut, lines>>

(* Mutant: the chat client sets no close handler either. *)
EndsAtLossNoHandler ==
  CASE program = "echo" -> lang # "cpp"
    [] program = "notification" -> lang # "go"
    [] program = "chat" -> lang = "python"

(* A failed read ends main, by an exception, an error, a panic or the      *)
(* close handler of C++, unless it happens in a goroutine (Go), a thread   *)
(* (Zig) or a branch of select! (Rust), or no close handler is set (echo). *)
EndsAtLoss ==
  CASE program = "echo" -> lang # "cpp"
    [] program = "notification" -> lang # "go"
    [] program = "chat" -> lang \in {"cpp", "python"}

StreamEnd == reader = "reading" /\ WantsMore /\ ~open /\ read = emitted

(* Go's goroutine returns.  In Rust the branch is disabled for as long as  *)
(* read_exact fails, which is for ever.  The echo client of C++ has done   *)
(* nothing to wait for, and its loop turns for ever.                       *)
ReadFails ==
  /\ StreamEnd /\ lang # "zig"
  /\ IF EndsAtLoss THEN status' = "exited" /\ UNCHANGED reader
                   ELSE reader' = "ended" /\ UNCHANGED status
  /\ UNCHANGED <<client, open, serverReads, done, emitted, read, got, part, want, shown, cancelled,
                 cut, lines>>

(* readAll of Zig returns what there is.  Without any byte the header says *)
(* "empty", an error; a part of a header or of a payload is taken for all  *)
(* of it, and may pass for a message.                                      *)
ReadsShort ==
  /\ StreamEnd /\ lang = "zig"
  /\ \/ /\ reader' = "ended"
        /\ status' = IF EndsAtLoss THEN "exited" ELSE status
        /\ UNCHANGED <<shown, cut, part, want, got>>
     \/ /\ part = "payload" \/ got > 0
        /\ NextFrame
        /\ shown' = Append(shown, 0) /\ cut' = TRUE
        /\ GoOn
  /\ UNCHANGED <<client, open, serverReads, done, emitted, read, cancelled, lines>>
-----------------------------------------------------------------------------
(* Sending. *)

(* Echo sends its message, which is not empty, and goes on to read.  A     *)
(* write that fails ends the client; in C++ it closes the session, which a *)
(* read finds out.                                                         *)
Request(line) ==
  /\ program = "echo" /\ console = "sending" /\ line # <<>>
  /\ \/ /\ sent' = <<line>>
        /\ console' = "none" /\ reader' = "reading"
        /\ UNCHANGED status
     \/ /\ ~open /\ lang # "cpp"
        /\ status' = "exited"
        /\ UNCHANGED <<sent, console, reader>>
  /\ UNCHANGED <<client, open, serverReads, done, emitted, read, got, part, want, shown,
                 cancelled, cut, stdin, eof, buffer, outgoing, typed, last, ahead>>

HasLine == \E i \in DOMAIN buffer : buffer[i] = Newline

(* Where the first line in the buffer has its end, or will have it.        *)
LineEnd ==
  IF HasLine
    THEN CHOOSE i \in DOMAIN buffer :
           buffer[i] = Newline /\ \A j \in 1 .. i - 1 : buffer[j] # Newline
    ELSE Len(buffer) + 1

FirstLine == SubSeq(buffer, 1, LineEnd - 1)

After(n) == SubSeq(buffer, n + 1, Len(buffer))

(* At the end of the input what is left is a line in Go, Rust and Python.  *)
HasRest ==
  /\ lang \in {"go", "rust", "python"}
  /\ eof /\ stdin = <<>> /\ ~HasLine /\ buffer # <<>>

(* More than Zig takes, or Python if its console is a stream of asyncio;   *)
(* for other files aioconsole has readers of its own.                      *)
TooLong == Len(FirstLine) > MaxLine

(* A read returns any part of what has been typed. *)
ReadConsole ==
  /\ console = "reading" /\ ~HasLine /\ (lang = "zig" => ~TooLong)
  /\ \E n \in 1 .. Len(stdin) :
       /\ buffer' = buffer \o SubSeq(stdin, 1, n)
       /\ stdin' = SubSeq(stdin, n + 1, Len(stdin))
  /\ UNCHANGED <<client, status, open, serverReads, done, stream, console, eof, outgoing,
                 typed, last, sent, ahead>>

(* Mutant: every line gets a reader, and a buffer, of its own. *)
RemainderDropped == <<>>

(* In C++ getline has taken the line when consume(length) takes as many    *)
(* bytes again; Go makes a new bufio.Reader for each line.                 *)
Remainder ==
  CASE lang = "cpp" -> After(2 * LineEnd)
    [] lang = "go" -> <<>>
    [] OTHER -> After(LineEnd)

(* strings.TrimSpace and strip. *)
Trim(l) ==
  LET ink == {i \in DOMAIN l : l[i] \notin Blank}
  IN  IF ink = {} THEN <<>> ELSE SubSeq(l, Min(ink), Max(ink))

(* The message that is made of a line; whole is FALSE of a rest.           *)
Message(l, whole) ==
  CASE lang \in {"go", "python"} -> Trim(l)
    [] lang = "rust" /\ whole /\ l # <<>> /\ Last(l) = Return -> Front(l)
    [] OTHER -> l

(* C++ makes none of an empty line. *)
MessagesOf(l, whole) == IF lang = "cpp" /\ l = <<>> THEN <<>> ELSE <<Message(l, whole)>>

(* Mutant: every client waits like Rust's. *)
DropsReadAlways == TRUE

(* The branch of select! that has not won is dropped, with its bytes. *)
DropsRead == lang = "rust"

Abandon ==
  IF DropsRead
    THEN /\ NextFrame
         /\ cancelled' = (cancelled \/ got > 0 \/ part = "payload")
    ELSE UNCHANGED <<part, want, got, cancelled>>

(* The session of C++ takes the message, or finds the connection lost and  *)
(* calls the close handler.  Go offers it to select, the others write it.  *)
Submit(message) ==
  \/ /\ lang = "cpp"
     /\ \/ sent' = Append(sent, message) /\ UNCHANGED status
        \/ ~open /\ status' = "exited" /\ UNCHANGED sent
     /\ UNCHANGED <<outgoing, console>>
  \/ /\ lang # "cpp"
     /\ outgoing' = message
     /\ console' = IF lang = "go" THEN "offering" ELSE "writing"
     /\ UNCHANGED <<status, sent>>

(* A line is complete, or the rest is one. *)
TakeLine ==
  /\ console = "reading"
  /\ HasLine \/ HasRest
  /\ lang = "zig" => ~TooLong
  /\ buffer' = Remainder
  /\ ahead' = (ahead \/ After(LineEnd) # <<>>)
  /\ Abandon
  /\ \/ /\ MessagesOf(FirstLine, HasLine) = <<>>
        /\ UNCHANGED <<outgoing, console, status, sent>>
     \/ /\ MessagesOf(FirstLine, HasLine) # <<>>
        /\ Submit(Message(FirstLine, HasLine))
  /\ UNCHANGED <<client, open, serverReads, done, emitted, read, reader, shown, cut, stdin,
                 eof, typed, last>>

(* Zig leaves its loop, having consumed the characters up to the limit; in *)
(* Python the task ends, and its reader drops the line, or what it has.    *)
LineTooLong ==
  /\ console = "reading" /\ lang \in {"zig", "python"} /\ TooLong
  /\ console' = "ended"
  /\ buffer' = After(IF lang = "zig" THEN MaxLine + 1 ELSE LineEnd)
  /\ UNCHANGED <<client, status, open, serverReads, done, stream, stdin, eof, outgoing,
                 typed, last, sent, ahead>>

(* Go's select receives the line, and writes it.  What its other goroutine *)
(* reads of the console meanwhile, it reads here after the write, which     *)
(* cannot tell.                                                            *)
ReceiveLine ==
  /\ lang = "go" /\ console = "offering"
  /\ console' = "writing"
  /\ UNCHANGED <<client, status, open, serverReads, done, stream, stdin, eof, buffer,
                 outgoing, typed, last, sent, ahead>>

(* Header and data are written.  Zig then tests its flag. *)
Written ==
  /\ console = "writing"
  /\ sent' = Append(sent, outgoing) /\ outgoing' = <<>>
  /\ console' = IF done THEN "ended" ELSE "reading"
  /\ UNCHANGED <<client, status, open, serverReads, done, stream, stdin, eof, buffer, typed,
                 last, ahead>>

(* The connection is found to be lost: Go panics, Rust and Zig leave main  *)
(* with the error, and in Python only the task ends.                       *)
WriteFails ==
  /\ console = "writing" /\ ~open
  /\ IF lang = "python" THEN console' = "ended" /\ UNCHANGED status
                        ELSE status' = "exited" /\ UNCHANGED console
  /\ UNCHANGED <<client, open, serverReads, done, stream, stdin, eof, buffer, outgoing,
                 typed, last, sent, ahead>>

(* Nothing more is typed.  Go and Python ignore it and read empty lines,   *)
(* which they send for ever, and which "sent" leaves out.  The others stop *)
(* reading the console, C++ and Zig with a rest that is never sent.        *)
ConsoleFails ==
  /\ console = "reading"
  /\ eof /\ stdin = <<>> /\ ~HasLine /\ ~HasRest
  /\ lang = "zig" => ~TooLong
  /\ console' = IF lang \in {"go", "python"} THEN "flooding" ELSE "ended"
  /\ UNCHANGED <<client, status, open, serverReads, done, stream, stdin, eof, buffer,
                 outgoing, typed, last, sent, ahead>>

(* One of the endless empty messages has to wait, for good ... *)
FloodStalls ==
  /\ console = "flooding" /\ ~serverReads
  /\ console' = "stuck"
  /\ UNCHANGED <<client, status, open, serverReads, done, stream, stdin, eof, buffer,
                 outgoing, typed, last, sent, ahead>>

(* ... or cannot be written. *)
FloodFails ==
  /\ console \in {"flooding", "stuck"} /\ ~open
  /\ IF lang = "go" THEN status' = "exited" /\ UNCHANGED console
                    ELSE console' = "ended" /\ UNCHANGED status
  /\ UNCHANGED <<client, open, serverReads, done, stream, stdin, eof, buffer, outgoing,
                 typed, last, sent, ahead>>

(* Zig joins the thread that reads. *)
Join ==
  /\ lang = "zig" /\ program = "chat" /\ console = "ended" /\ reader = "ended"
  /\ status' = "exited"
  /\ UNCHANGED <<client, open, serverReads, done, stream, lines>>
-----------------------------------------------------------------------------
ReadStream ==
  /\ lang = "rust" => ~Busy
  /\ ReadByte \/ ReadHeader \/ ReadPayload \/ ReadFails \/ ReadsShort

ReadLines == ReadConsole \/ TakeLine \/ LineTooLong \/ ConsoleFails

SendFails == WriteFails \/ FloodFails

Next ==
  /\ status = "running"
  /\ \/ ServerSends \/ ServerCloses \/ ServerStalls
     \/ (\E line \in Line : Type(line) \/ Request(line))
     \/ (\E line \in Line \cup {<<>>} : ConsoleEnds(line))
     \/ Interrupt
     \/ ReadStream \/ ReceiveMessage
     \/ ReadLines \/ ReceiveLine
     \/ Written \/ FloodStalls \/ SendFails
     \/ Join

(* readline at the end of the input and drain below the limit of the write *)
(* buffer return without suspending the task, so that the other task of    *)
(* the event loop need not run.                                            *)
Starved == lang = "python" /\ console = "flooding"

(* A write does not wait for ever if the server reads, or is gone; C++ has *)
(* a queue for what it writes.                                             *)
WriteEnds == serverReads \/ ~open \/ lang = "cpp"

(* The client's loops, tasks and threads all get their turn, but for the   *)
(* starved task, and a select does not pass over a branch for ever.        *)
(* Server and user owe nothing, the server not even to read.               *)
Fairness ==
  /\ WF_vars(status = "running" /\ ~Starved /\ ReadStream)
  /\ WF_vars(status = "running" /\ ReceiveMessage)
  /\ WF_vars(status = "running" /\ ReadLines)
  /\ WF_vars(status = "running" /\ ReceiveLine)
  /\ WF_vars(status = "running" /\ serverReads /\ Written)
  /\ WF_vars(status = "running" /\ SendFails)
  /\ WF_vars(status = "running" /\ WriteEnds /\ \E line \in Line : Request(line))
  /\ WF_vars(status = "running" /\ Join)

Spec == Init /\ [][Next]_vars /\ Fairness
-----------------------------------------------------------------------------
(* The user sees the messages of the server in their order, none missing,  *)
(* none twice and none made up, however the bytes come in and whatever is  *)
(* typed meanwhile.  Excepted are a Rust client once it has dropped a read *)
(* under way, and a Zig client at the end of a stream that ends in a frame. *)
ShownAsSent ==
  (lang = "rust" => ~cancelled) /\ (lang = "zig" => ~cut)
    => \A i \in DOMAIN shown : shown[i] = i

(* The characters of these lines, as they are typed, and their messages.   *)
Text(ls) == FlattenSeq([i \in DOMAIN ls |-> Append(ls[i], Newline)])

Messages(ls) == FlattenSeq([i \in DOMAIN ls |-> MessagesOf(ls[i], TRUE)])

(* The message that has left the buffer and is not written yet. *)
Held == IF console \in {"offering", "writing"} THEN <<outgoing>> ELSE <<>>

(* The console has ended at a line that is too long, with what follows it. *)
GaveUp(line) == console = "ended" /\ lang \in {"zig", "python"} /\ Len(line) > MaxLine

(* The messages of some of the lines, the first ones typed, are written or *)
(* on their way, once each and in their order; all other lines are whole   *)
(* in the buffers, or given up for the first of them, as are those behind. *)
(* Or there are none, and what the end of the input cut off is taken too.  *)
(* Excepted are C++ and Go clients once they have had more than a line in  *)
(* their buffer; a terminal gives them one at a time.                      *)
LinesSentAsTyped ==
  program = "chat" /\ (lang \in {"cpp", "go"} => ~ahead) /\ status = "running" /\ open
    => \/ \E n \in 0 .. Len(typed) :
            LET others == SubSeq(typed, n + 1, Len(typed))
            IN  /\ sent \o Held = Messages(SubSeq(typed, 1, n))
                /\ \/ buffer \o stdin = Text(others) \o last
                   \/ GaveUp(Append(others, last)[1])
       \/ /\ last # <<>> /\ buffer \o stdin = <<>>
          /\ sent \o Held = Messages(typed) \o MessagesOf(last, FALSE)

(* A write under way that nobody takes, and the loop that waits for it. *)
HeldByWrite == Busy /\ ~serverReads

(* A frame that has been sent completely is shown, while the client runs:  *)
(* neither typing nor the other channel of the select keeps it back, nor a *)
(* server that does not read, but for Go and Rust while they write to it.  *)
(* Excepted are also a Rust client that has dropped a read, and a Python   *)
(* client whose console is at its end, unless it waits for the server.     *)
FramesShown ==
  \A n \in 1 .. FrameBound :
    emitted >= 4 * n
      ~> \/ Len(shown) >= n \/ status # "running" \/ done
         \/ cancelled \/ Starved \/ HeldByWrite

(* Who reads in the main loop, or has set a close handler, ends when the   *)
(* server is gone, also while the console is silent or at its end; and the *)
(* chat client of Zig does when its other thread has ended.                *)
LossEndsClient ==
  /\ ~open
  /\ CASE program = "echo" -> lang # "cpp"
       [] program = "notification" -> lang # "go"
       [] program = "chat" -> \/ lang \in {"cpp", "python"}
                              \/ lang = "zig" /\ console = "ended"
  ~> status = "exited"

(* A client of Zig that has the signal shows one more message and stops    *)
(* reading: a read that the signal interrupts is taken up again, so that   *)
(* the flag is only seen with the next message.                            *)
SignalStopsReader ==
  \A n \in 1 .. FrameBound :
    done /\ Len(shown) < n /\ emitted >= 4 * n ~> reader = "ended" \/ status = "exited"
-----------------------------------------------------------------------------
(* README.md: the protocol transfers "a series of messages between the     *)
(* connected peers".  This is ShownAsSent without its exceptions.          *)
SeriesOfMessages == \A i \in DOMAIN shown : shown[i] = i
=============================================================================
