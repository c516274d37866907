----------------------------- MODULE ComMessage -----------------------------
(***************************************************************************)
(* The message frame of liboizys: struct com_message, and the frame codecs *)
(* that the clients in other languages write out by hand.                  *)
(*                                                                         *)
(* A frame is a four byte header - a reserved zero and the payload length, *)
(* big endian in three bytes - followed by the payload.  A header is a     *)
(* tuple of four bytes.  Payloads do not appear here, only their lengths.  *)
(***************************************************************************)
EXTENDS Integers

(* 0x00ffffff *)
com_max_message_size == 16777215

Byte == 0 .. 255

(* The unsigned char header[4] of com_message.  header[i] in C++ is h[i+1]. *)
Header == Byte \X Byte \X Byte \X Byte

(* com_message::com_message(): the message_to_read of a fresh session. *)
DefaultHeader == <<0, 0, 0, 0>>

(* Mutant: the largest legal size is treated as too large. *)
ValidSizeExclusive(n) == n > 0 /\ n < com_max_message_size

(* The constructor throws for every other content size. *)
ValidSize(n) == n > 0 /\ n <= com_max_message_size

(* (n >> 16) & 0xff is ByteOf(n, 65536), and so on. *)
ByteOf(n, weight) == (n \div weight) % 256

(* Mutant: the masks are forgotten. *)
HeaderOfUnmasked(n) == <<0, n \div 65536, n \div 256, n>>

(* The header bytes that the constructor stores for a content of n bytes. *)
HeaderOf(n) == <<0, ByteOf(n, 65536), ByteOf(n, 256), ByteOf(n, 1)>>

(* length <<= 8; length |= b *)
ShiftIn(length, b) == length * 256 + b

(* The loop of com_message::parse_header; size_t is wider than 24 bits. *)
ParsedLength(h) == ShiftIn(ShiftIn(ShiftIn(0, h[2]), h[3]), h[4])

(* The boolean that com_message::parse_header returns. *)
AcceptsHeader(h) == h[1] = 0 /\ ValidSize(ParsedLength(h))
=============================================================================
