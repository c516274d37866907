------------------------------ MODULE Endpoint ------------------------------
(***************************************************************************)
(* The file that makes a server reachable.  The main functions of the      *)
(* three servers do the same with it: they unlink whatever is at their     *)
(* endpoint, bind and listen there, and unlink it again when they end, be  *)
(* it after a signal or because the acceptor could not be constructed.     *)
(*                                                                         *)
(* Any number of processes run main on the same endpoint, as when a server *)
(* is started twice or restarted before the old one has ended, and each    *)
(* can be started again.  A process that crashes or is killed by a signal  *)
(* ("crashed") unlinks nothing.                                            *)
(*                                                                         *)
(* A socket keeps working for those who are connected when its file is     *)
(* gone, but nobody else finds it; bind fails where a file is.             *)
(***************************************************************************)
CONSTANT Server     (* the processes *)

ASSUME ServerAssumption == "none" \notin Server

VARIABLES
  pc,         (* how far main is                                            *)
  path,       (* whose socket the file at the endpoint is, or "none"        *)
  signalled,  (* SIGINT or SIGTERM has come                                 *)
  overlapped  (* history: another process has run main since this one began *)

vars == <<pc, path, signalled, overlapped>>

Running(p) == pc[p] \notin {"ended", "crashed"}

EndpointTypeOK ==
  /\ pc \in [Server -> {"ended", "crashed", "started", "unlinked", "bound",
                        "listening", "leaving", "failed"}]
  /\ path \in Server \cup {"none"}
  /\ signalled \in [Server -> BOOLEAN]
  /\ \A p \in Server : signalled[p] => Running(p)
  /\ overlapped \in [Server -> BOOLEAN]

Init ==
  /\ pc = [p \in Server |-> "ended"]
  /\ path = "none"
  /\ signalled = [p \in Server |-> FALSE]
  /\ overlapped = [p \in Server |-> FALSE]

Goto(p, step) == pc' = [pc EXCEPT ![p] = step]

Gone(p, step) ==
  /\ Goto(p, step)
  /\ signalled' = [signalled EXCEPT ![p] = FALSE]
-----------------------------------------------------------------------------
(* main has registered its signals. *)
Start(p) ==
  /\ ~Running(p)
  /\ Goto(p, "started")
  /\ overlapped' = [q \in Server |->
                      IF q = p THEN \E r \in Server \ {p} : Running(r)
                               ELSE overlapped[q] \/ Running(q)]
  /\ UNCHANGED <<path, signalled>>

(* Mutant: the endpoint is expected to be free. *)
UnlinkNothing(p) ==
  /\ pc[p] = "started"
  /\ Goto(p, "unlinked")
  /\ UNCHANGED <<path, signalled, overlapped>>

Unlink(p) ==
  /\ pc[p] = "started"
  /\ Goto(p, "unlinked")
  /\ path' = "none"
  /\ UNCHANGED <<signalled, overlapped>>

(* Mutant: bind is tried again until the endpoint is free. *)
BindAgain(p) ==
  /\ pc[p] = "unlinked" /\ path = "none"
  /\ path' = p /\ Goto(p, "bound")
  /\ UNCHANGED <<signalled, overlapped>>

(* The constructor of the acceptor binds, or throws: address in use. *)
Bind(p) ==
  /\ pc[p] = "unlinked"
  /\ \/ path = "none" /\ path' = p /\ Goto(p, "bound")
     \/ path # "none" /\ UNCHANGED path /\ Goto(p, "failed")
  /\ UNCHANGED <<signalled, overlapped>>

(* Mutant: main unlinks after the acceptor has been constructed. *)
ListenThenUnlink(p) ==
  /\ pc[p] = "bound"
  /\ Goto(p, "listening") /\ path' = "none"
  /\ UNCHANGED <<signalled, overlapped>>

Listen(p) ==
  /\ pc[p] = "bound"
  /\ Goto(p, "listening")
  /\ UNCHANGED <<path, signalled, overlapped>>

(* Mutant: a signal comes to a process that is gone. *)
SignalAnyone(p) ==
  /\ signalled' = [signalled EXCEPT ![p] = TRUE]
  /\ UNCHANGED <<pc, path, overlapped>>

(* The signal is kept until the loop runs, and a second one is ignored.    *)
(* Once signals is destroyed, on the way to the last unlink, any signal    *)
(* has its default action.                                                 *)
Signal(p) ==
  /\ Running(p)
  /\ \/ /\ ~signalled[p]
        /\ signalled' = [signalled EXCEPT ![p] = TRUE]
        /\ UNCHANGED pc
     \/ /\ pc[p] \in {"leaving", "failed"}
        /\ Gone(p, "crashed")
  /\ UNCHANGED <<path, overlapped>>

(* The loop ends, and the server and its acceptor are destroyed. *)
Leave(p) ==
  /\ pc[p] = "listening" /\ signalled[p]
  /\ Goto(p, "leaving")
  /\ UNCHANGED <<path, signalled, overlapped>>

(* Mutant: main leaves the file to the next start. *)
EndOnly(p) ==
  /\ pc[p] \in {"leaving", "failed"}
  /\ Gone(p, "ended")
  /\ UNCHANGED <<path, overlapped>>

(* The last unlink, of whatever file is there now. *)
End(p) ==
  /\ pc[p] \in {"leaving", "failed"}
  /\ Gone(p, "ended")
  /\ path' = "none"
  /\ UNCHANGED overlapped

Crash(p) ==
  /\ Running(p)
  /\ Gone(p, "crashed")
  /\ UNCHANGED <<path, overlapped>>
-----------------------------------------------------------------------------
Main(p) == Unlink(p) \/ Bind(p) \/ Listen(p) \/ Leave(p) \/ End(p)

Next == \E p \in Server : Start(p) \/ Main(p) \/ Signal(p) \/ Crash(p)

(* A process that runs goes on.  Nobody has to start, stop or crash one.   *)
Fairness == \A p \in Server : WF_vars(Main(p))

Spec == Init /\ [][Next]_vars /\ Fairness
-----------------------------------------------------------------------------
(* connect finds the server. *)
Reachable(p) == pc[p] = "listening" /\ path = p

(* A server that has the endpoint to itself is found there for as long as  *)
(* it listens, whatever was left behind and however the others ended.  Two *)
(* that overlap may not be: the second start, a start that fails and the   *)
(* last unlink of the old server all remove the file of the other one.     *)
ReachableAlone ==
  \A p \in Server : pc[p] = "listening" /\ ~overlapped[p] => Reachable(p)

(* Only another process can make a start fail, between the unlink and the  *)
(* bind.  The file of a server that has crashed cannot.                    *)
FailsOnlyByRace == \A p \in Server : pc[p] = "failed" => overlapped[p]

(* The file at the endpoint belongs to a process that is about to remove   *)
(* it or has crashed: nothing is left by those that came to the end of     *)
(* main, in whatever order several of them started and ended.              *)
NoFileLeft ==
  path # "none" => pc[path] \in {"bound", "listening", "leaving", "crashed", "started"}

(* A server that is started, and restarted after a crash at any point, is  *)
(* reachable in the end, unless another one is in its way.                 *)
StartServes ==
  \A p \in Server :
    pc[p] = "started" ~> Reachable(p) \/ overlapped[p] \/ pc[p] = "crashed"

(* A signal ends the process, wherever it comes: the start is not          *)
(* interrupted, but the loop is then left at once.                         *)
SignalEnds == \A p \in Server : signalled[p] ~> ~Running(p)
=============================================================================
