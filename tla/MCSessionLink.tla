--------------------------- MODULE MCSessionLink ---------------------------
(* SessionLink for TLC. *)
EXTENDS SessionLink

CONSTANTS a, b

Ends == {a, b}

(* Messages of one and of two bytes. *)
Messages == {<<7>>, <<8, 9>>}

NoHeader == {}
=============================================================================
