--------------------------- MODULE MCAsioSession ---------------------------
(* AsioSession for TLC. *)
EXTENDS AsioSession

CONSTANTS s1, m1, m2

OneSession == {s1}

TwoMessages == {m1, m2}
OneMessage == {m1}

(* A payload of one byte, and the prohibited empty one. *)
PeerHeaders == {<<0, 0, 0, 1>>, <<0, 0, 0, 0>>}
=============================================================================
