----------------------------- MODULE MCEndpoint -----------------------------
(* Endpoint for TLC: an old server, a new one, and one that comes between. *)
EXTENDS Endpoint

Servers == {"old", "new", "third"}
=============================================================================
