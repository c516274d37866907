------------------------------ MODULE MCClients -----------------------------
(* Clients for TLC. *)
EXTENDS Clients

AllPrograms == {"echo", "notification", "chat"}
OnlyChat == {"chat"}

AllLanguages == {"cpp", "go", "rust", "python", "zig"}
OnlyRust == {"rust"}

(* An empty line, a short one, and one that is too long for Zig and Python *)
(* and that Go, Rust and Python shorten.                                   *)
Lines == {<<>>, <<"a">>, <<"a", "cr">>}

Blanks == {"cr"}
=============================================================================
