----------------------------- MODULE MCFraming -----------------------------
EXTENDS Framing

(* The lengths where a byte of the header changes, on both sides of them,  *)
(* with the illegal ones; ASCII contents, and two that are not.            *)
MCLengths == {0, 1, 2, 127, 128, 255, 256, 257, 511, 512, 65535, 65536, 65537,
              1193046, 16777215, 16777216, 16777217}

MCContent ==
  {[chars |-> n, bytes |-> n] : n \in MCLengths}
    \cup {[chars |-> 1, bytes |-> 2], [chars |-> 128, bytes |-> 256]}

MCStrayHeader ==
  {<<a, b, c, d>> : a \in {0, 1}, b \in {0, 255}, c \in {0, 1}, d \in {0, 1, 255}}
=============================================================================
