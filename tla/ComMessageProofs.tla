-------------------------- MODULE ComMessageProofs --------------------------
(***************************************************************************)
(* The frame codec for every content size and every header.                *)
(***************************************************************************)
EXTENDS ComMessage, TLAPS

(* The constructor fills the header with bytes, for every legal size. *)
LEMMA HeaderOfIsHeader ==
  ASSUME NEW n \in Nat
  PROVE  HeaderOf(n) \in Header
<1>1. \A w \in {1, 256, 65536} : ByteOf(n, w) \in Byte
  BY DEF ByteOf, Byte
<1>2. QED
  BY <1>1 DEF HeaderOf, Header, Byte

(* Three bytes cannot spell a length above the maximum. *)
LEMMA ParsedLengthRange ==
  ASSUME NEW h \in Header
  PROVE  /\ ParsedLength(h) \in Nat
         /\ ParsedLength(h) <= com_max_message_size
<1>1. PICK a \in Byte, b \in Byte, c \in Byte, d \in Byte : h = <<a, b, c, d>>
  BY DEF Header
<1>2. ParsedLength(h) = b * 65536 + c * 256 + d
  BY <1>1 DEF ParsedLength, ShiftIn, Byte
<1>3. QED
  BY <1>2, SMT DEF Byte, com_max_message_size

(* parse_header inverts the constructor: what was framed with a legal size *)
(* is accepted, and the length read back is that size.                     *)
THEOREM HeaderRoundTrip ==
  ASSUME NEW n \in Nat, ValidSize(n)
  PROVE  /\ AcceptsHeader(HeaderOf(n))
         /\ ParsedLength(HeaderOf(n)) = n
<1>1. ParsedLength(HeaderOf(n)) = n
  BY SMT DEF HeaderOf, ParsedLength, ShiftIn, ByteOf, ValidSize, com_max_message_size
<1>2. QED
  BY <1>1 DEF AcceptsHeader, HeaderOf

(* Three bytes are recovered from the number they spell. *)
LEMMA BytesOfLength ==
  ASSUME NEW b \in Byte, NEW c \in Byte, NEW d \in Byte
  PROVE  LET n == b * 65536 + c * 256 + d
         IN  /\ ByteOf(n, 65536) = b
             /\ ByteOf(n, 256) = c
             /\ ByteOf(n, 1) = d
<1> DEFINE n == b * 65536 + c * 256 + d
<1>1. /\ b \in 0 .. 255 /\ c \in 0 .. 255 /\ d \in 0 .. 255
      /\ n \in Nat
  BY DEF Byte
<1>2. n \div 65536 = b
  BY <1>1
<1>3. n \div 256 = b * 256 + c
  BY <1>1
<1>4. n \div 1 = n
  BY <1>1
<1>5. b % 256 = b /\ (b * 256 + c) % 256 = c /\ n % 256 = d
  BY <1>1
<1>6. QED
  BY <1>2, <1>3, <1>4, <1>5 DEF ByteOf

(* The converse: an accepted header is the one that the constructor stores *)
(* for the parsed length, so no two headers announce the same payload.     *)
THEOREM AcceptedHeaderIsCanonical ==
  ASSUME NEW h \in Header, AcceptsHeader(h)
  PROVE  /\ ParsedLength(h) \in Nat
         /\ HeaderOf(ParsedLength(h)) = h
<1>1. PICK a \in Byte, b \in Byte, c \in Byte, d \in Byte : h = <<a, b, c, d>>
  BY DEF Header
<1>2. ParsedLength(h) = b * 65536 + c * 256 + d
  BY <1>1 DEF ParsedLength, ShiftIn, Byte
<1>3. /\ ByteOf(ParsedLength(h), 65536) = b
      /\ ByteOf(ParsedLength(h), 256) = c
      /\ ByteOf(ParsedLength(h), 1) = d
  BY <1>2, BytesOfLength
<1>4. a = 0
  BY <1>1 DEF AcceptsHeader
<1>5. QED
  BY <1>1, <1>2, <1>3, <1>4 DEF HeaderOf, Byte
=============================================================================
