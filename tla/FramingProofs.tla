---------------------------- MODULE FramingProofs ----------------------------
(***************************************************************************)
(* What the codec gives the frames that cross language borders.            *)
(***************************************************************************)
EXTENDS Framing, ComMessageProofs

(* What the verdict of a reader rests on: the framed header is the one the *)
(* constructor stores for the counted length, and the verdict is that of   *)
(* the reader's own rules on the header that is still there.               *)
FramingInv ==
  /\ TypeOK
  /\ wire = "framed" =>
       header = HeaderOf(CountedLength(writer, content)) /\ ~Refuses(writer, content)
  /\ verdict # "none" => wire \in {"framed", "stray"}
  /\ verdict = "accepted" => Accepts(reader, header) /\ length = ReadLength(reader, header)
  /\ verdict = "rejected" => ~Accepts(reader, header)

(* The code and README.md draw the same line. *)
LEMMA SizesAgree ==
  ASSUME NEW n \in Nat
  PROVE  ValidSize(n) <=> LegalSize(n)
BY SMT DEF ValidSize, LegalSize, com_max_message_size

(* Characters and bytes are counted with natural numbers.                  *)
LEMMA CountedIsNat ==
  ASSUME TypeOK
  PROVE  CountedLength(writer, content) \in Nat
BY ContentAssumption DEF TypeOK, CountedLength

(* Every reader computes a natural number.                                 *)
LEMMA ReadLengthIsNat ==
  ASSUME NEW r \in Reader, NEW h \in Header
  PROVE  ReadLength(r, h) \in Nat
<1>1. ParsedLength(h) \in Nat
  BY ParsedLengthRange
<1>2. QED
  BY <1>1 DEF ReadLength, GoLength

(* FramingInv is inductive. *)
THEOREM FramingInvariant == Spec => []FramingInv
<1>1. Init => FramingInv
  BY DEF Init, FramingInv, TypeOK, DefaultHeader, Header, Byte
<1>2. FramingInv /\ [Next]_vars => FramingInv'
  <2> SUFFICES ASSUME FramingInv, [Next]_vars PROVE FramingInv'
    OBVIOUS
  <2>1. CASE Frame
    BY <2>1, CountedIsNat, HeaderOfIsHeader DEF Frame, FramingInv, TypeOK
  <2>2. CASE Stray
    BY <2>2, StrayHeaderAssumption DEF Stray, FramingInv, TypeOK
  <2>3. CASE Parse
    BY <2>3, ReadLengthIsNat DEF Parse, FramingInv, TypeOK
  <2>4. CASE UNCHANGED vars
    BY <2>4 DEF vars, FramingInv, TypeOK
  <2>5. QED
    BY <2>1, <2>2, <2>3, <2>4 DEF Next
<1>3. QED
  BY <1>1, <1>2, PTL DEF Spec

(* The state of one framed message stays within its types. *)
THEOREM FramingTypeOK == Spec => []TypeOK
<1>1. FramingInv => TypeOK
  BY DEF FramingInv
<1>2. QED
  BY <1>1, FramingInvariant, PTL

(* Across all languages, contents and stray bytes: a frame of a legal      *)
(* content is read with its own length, outside the two named exceptions.  *)
THEOREM FramesAgreeAlways == Spec => []FramesAgree
<1>1. FramingInv => FramesAgree
  <2> SUFFICES ASSUME FramingInv,
                      wire = "framed", verdict # "none",
                      LegalSize(content.bytes), CountsBytes, FitsReader
               PROVE  verdict = "accepted" /\ length = content.bytes
    BY DEF FramesAgree
  <2> DEFINE n == content.bytes
  <2>1. n \in Nat /\ CountedLength(writer, content) = n
    BY ContentAssumption DEF FramingInv, TypeOK, CountedLength, CountsBytes
  <2>2. /\ header = HeaderOf(n)
        /\ AcceptsHeader(header)
        /\ ParsedLength(header) = n
    BY <2>1, SizesAgree, HeaderRoundTrip DEF FramingInv
  <2>3. ReadLength(reader, header) = n
    BY <2>1, <2>2 DEF ReadLength, GoLength, FitsReader
  <2>4. Accepts(reader, header)
    BY <2>1, <2>2, <2>3, SizesAgree DEF Accepts, AcceptsPython, AcceptsGo, AcceptsZig, AcceptsRust,
       ReadLength, AcceptsHeader, ValidSize, FramingInv, TypeOK, Reader
  <2>5. QED
    BY <2>3, <2>4 DEF FramingInv, TypeOK
<1>2. QED
  BY <1>1, FramingInvariant, PTL

(* Every accepting reader except the Rust and Go clients has seen the      *)
(* header of a real message, for any bytes a peer may send.                *)
THEOREM AcceptedIsCanonicalAlways == Spec => []AcceptedIsCanonical
<1>1. FramingInv => AcceptedIsCanonical
  <2> SUFFICES ASSUME FramingInv,
                      verdict = "accepted", reader \in {"cpp", "python", "zig"}
               PROVE  LegalSize(length) /\ header = HeaderOf(length)
    BY DEF AcceptedIsCanonical
  <2>1. header \in Header /\ length = ParsedLength(header)
    BY DEF FramingInv, TypeOK, ReadLength
  <2>2. ParsedLength(header) \in Nat /\ ParsedLength(header) <= com_max_message_size
    BY <2>1, ParsedLengthRange
  <2>3. AcceptsHeader(header)
    BY <2>1, <2>2 DEF FramingInv, Accepts, AcceptsPython, AcceptsZig, AcceptsHeader, ValidSize
  <2>4. QED
    BY <2>1, <2>2, <2>3, SizesAgree, AcceptedHeaderIsCanonical DEF AcceptsHeader
<1>2. QED
  BY <1>1, FramingInvariant, PTL
=============================================================================
