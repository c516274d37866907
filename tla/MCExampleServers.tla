-------------------------- MODULE MCExampleServers --------------------------
(* ExampleServers for TLC. *)
EXTENDS ExampleServers

CONSTANTS s1, s2

TwoSessions == {s1, s2}
Messages == {s1, s2, Timer}
OneStalled == {s2}

AllKinds == {"chat", "notification", "echo"}
ChatAndEcho == {"chat", "echo"}

(* Headers are AsioSession's business: here all are good. *)
GoodHeader == {<<0, 0, 0, 1>>}
=============================================================================
