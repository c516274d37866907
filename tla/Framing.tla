------------------------------ MODULE Framing ------------------------------
(***************************************************************************)
(* One header on its way from a writer to a reader.  The writer and the    *)
(* reader are any of the implementations in the repository: the library    *)
(* (C++) and the example clients in Go, Python, Rust and Zig, which build  *)
(* and parse the four bytes themselves.                                    *)
(*                                                                         *)
(* A content has a number of characters and a number of bytes: they differ *)
(* for text outside ASCII, and only one of them belongs in the header.     *)
(***************************************************************************)
EXTENDS ComMessage

CONSTANTS
  Content,      (* [chars, bytes] of the contents a user may hand over      *)
  StrayHeader   (* headers written by a peer that follows no rule at all    *)

ASSUME ContentAssumption ==
  Content \subseteq [chars : Nat, bytes : Nat]

ASSUME StrayHeaderAssumption == StrayHeader \subseteq Header

Writer == {"cpp", "python_chat", "python_echo", "go", "rust", "zig"}
Reader == {"cpp", "python", "go", "rust", "zig"}

VARIABLES
  writer,    (* who builds the header                                      *)
  reader,    (* who parses it                                              *)
  content,   (* what the user handed to the writer                         *)
  header,    (* the four bytes on the wire                                 *)
  wire,      (* "empty", "refused", "framed" by the writer, or "stray"      *)
  verdict,   (* of the reader: "none", "accepted" or "rejected"             *)
  length     (* the payload length that an accepting reader reads next     *)

vars == <<writer, reader, content, header, wire, verdict, length>>

TypeOK ==
  /\ writer \in Writer
  /\ reader \in Reader
  /\ content \in Content
  /\ header \in Header
  /\ wire \in {"empty", "refused", "framed", "stray"}
  /\ verdict \in {"none", "accepted", "rejected"}
  /\ length \in Nat

(* A client talks to a server, and every server uses the library. *)
Init ==
  /\ writer \in Writer
  /\ reader \in Reader
  /\ writer = "cpp" \/ reader = "cpp"
  /\ content \in Content
  /\ header = DefaultHeader
  /\ wire = "empty"
  /\ verdict = "none"
  /\ length = 0
-----------------------------------------------------------------------------
(* The number a writer puts into the header.  echo_client.py takes the     *)
(* length of the string before it is encoded.                              *)
CountedLength(w, c) == IF w = "python_echo" THEN c.chars ELSE c.bytes

(* create_header of the Python clients, like the constructor of            *)
(* com_message, refuses what the header cannot hold or is prohibited.  The *)
(* other writers write any length, cut to three bytes.                     *)
RefusesPython(n) == ~ValidSize(n)

Refuses(w, c) ==
  \/ w = "cpp" /\ ~ValidSize(CountedLength(w, c))
  \/ w \in {"python_chat", "python_echo"} /\ RefusesPython(CountedLength(w, c))

(* In Go the header bytes are of type byte, and so is every shift of them: *)
(* eight bits are left of the sum.                                         *)
GoLength(h) == ParsedLength(h) % 256

(* Go looks at the reserved byte and refuses an empty message. *)
AcceptsGo(h) == h[1] = 0 /\ GoLength(h) # 0

(* So does Zig, with a length that is wide enough. *)
AcceptsZig(h) == h[1] = 0 /\ ParsedLength(h) # 0

(* parse_header of the Python clients. *)
AcceptsPython(h) == h[1] = 0 /\ ValidSize(ParsedLength(h))

(* Rust reads on whatever the header says, an empty payload included. *)
AcceptsRust(h) == TRUE

(* The length a reader computes. *)
ReadLength(r, h) == IF r = "go" THEN GoLength(h) ELSE ParsedLength(h)

(* Mutant: no reader looks at the reserved byte. *)
AcceptsAnyReserved(r, h) == r = "rust" \/ ValidSize(ReadLength(r, h))

Accepts(r, h) ==
  \/ r = "cpp" /\ AcceptsHeader(h)
  \/ r = "python" /\ AcceptsPython(h)
  \/ r = "go" /\ AcceptsGo(h)
  \/ r = "zig" /\ AcceptsZig(h)
  \/ r = "rust" /\ AcceptsRust(h)
-----------------------------------------------------------------------------
(* A writer frames its content, or refuses to. *)
Frame ==
  /\ wire = "empty"
  /\ IF Refuses(writer, content)
       THEN wire' = "refused" /\ UNCHANGED header
       ELSE /\ wire' = "framed"
            /\ header' = HeaderOf(CountedLength(writer, content))
  /\ UNCHANGED <<writer, reader, content, verdict, length>>

(* Bytes that no writer of this repository framed. *)
Stray ==
  /\ wire = "empty"
  /\ \E h \in StrayHeader : header' = h
  /\ wire' = "stray"
  /\ UNCHANGED <<writer, reader, content, verdict, length>>

(* The reader has four bytes and decides what to do. *)
Parse ==
  /\ wire \in {"framed", "stray"}
  /\ verdict = "none"
  /\ IF Accepts(reader, header)
       THEN verdict' = "accepted" /\ length' = ReadLength(reader, header)
       ELSE verdict' = "rejected" /\ UNCHANGED length
  /\ UNCHANGED <<writer, reader, content, header, wire>>

Next == Frame \/ Stray \/ Parse

Spec == Init /\ [][Next]_vars
-----------------------------------------------------------------------------
(* README.md: no empty messages, "The max. message size is 16MByte - 1     *)
(* byte (16777215 bytes)".                                                 *)
LegalSize(n) == n > 0 /\ n <= 16777215

(* The writer counted bytes: all do, except for the characters of          *)
(* echo_client.py.                                                         *)
CountsBytes == writer = "python_echo" => content.chars = content.bytes

(* The length fits the arithmetic of the reader. *)
FitsReader == reader = "go" => content.bytes < 256

(* Frames of legal contents are understood across languages: a reader      *)
(* accepts the header and goes on to read exactly the bytes that the       *)
(* writer goes on to write.  Excluded are the two pairings that break the  *)
(* protocol, a count of characters and eight bit arithmetic.               *)
FramesAgree ==
  /\ wire = "framed" /\ verdict # "none"
  /\ LegalSize(content.bytes) /\ CountsBytes /\ FitsReader
  => verdict = "accepted" /\ length = content.bytes

(* parse_header admits nothing but what com_message would have written: a  *)
(* header that the C++, Python or Zig reader accepts is the header of a    *)
(* message with the length it computed, whoever sent the bytes.            *)
AcceptedIsCanonical ==
  verdict = "accepted" /\ reader \in {"cpp", "python", "zig"}
  => LegalSize(length) /\ header = HeaderOf(length)

(* README.md: "three bytes that encode the length of the message in        *)
(* network byte order".  This is FramesAgree without its exceptions.       *)
FramesUnderstood ==
  wire = "framed" /\ verdict # "none" /\ LegalSize(content.bytes)
    => verdict = "accepted" /\ length = content.bytes
=============================================================================
