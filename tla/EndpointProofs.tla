--------------------------- MODULE EndpointProofs ---------------------------
(* The safety of Endpoint, for any set of processes. *)
EXTENDS Endpoint, TLAPS

(* Two processes that run have seen each other. *)
OverlapSeen ==
  \A p, q \in Server : p # q /\ Running(p) /\ Running(q) => overlapped[p]

(* What a process alone knows of the file from its unlink on. *)
FileAlone ==
  \A p \in Server : ~overlapped[p] =>
    /\ pc[p] = "unlinked" => path = "none"
    /\ pc[p] \in {"bound", "listening"} => path = p

(* The inductive invariant: ReachableAlone speaks of servers that listen,  *)
(* and needs to know what they have found on the way there.                *)
EndpointInv ==
  EndpointTypeOK /\ OverlapSeen /\ FileAlone /\ FailsOnlyByRace /\ NoFileLeft

LEMMA InitEndpointInv == Init => EndpointInv
  BY ServerAssumption
  DEF Init, EndpointInv, EndpointTypeOK, OverlapSeen, FileAlone, FailsOnlyByRace, NoFileLeft,
      Running

(* A process that begins has seen all that run, and they it. *)
LEMMA StartPreserves ==
  ASSUME EndpointInv, NEW p \in Server, Start(p)
  PROVE  EndpointInv'
<1> USE ServerAssumption DEF EndpointInv, EndpointTypeOK, Start, Goto, Running
<1>1. EndpointTypeOK'
  OBVIOUS
<1>2. OverlapSeen'
  BY DEF OverlapSeen
<1>3. FileAlone'
  BY DEF FileAlone
<1>4. FailsOnlyByRace'
  BY DEF FailsOnlyByRace
<1>5. NoFileLeft'
  BY DEF NoFileLeft
<1>6. QED
  BY <1>1, <1>2, <1>3, <1>4, <1>5

(* The steps of main.  Another process whose file this one removes, or     *)
(* that it keeps from binding, runs as well and has seen it.               *)
LEMMA MainPreserves ==
  ASSUME EndpointInv, NEW p \in Server, Main(p)
  PROVE  EndpointInv'
<1> USE ServerAssumption DEF EndpointInv, EndpointTypeOK, Goto, Gone, Running
<1>1. CASE Unlink(p)
  BY <1>1 DEF Unlink, OverlapSeen, FileAlone, FailsOnlyByRace, NoFileLeft
<1>2. CASE Bind(p)
  <2>1. EndpointTypeOK' /\ OverlapSeen'
    BY <1>2 DEF Bind, OverlapSeen
  <2>2. FileAlone'
    BY <1>2 DEF Bind, OverlapSeen, FileAlone
  <2>3. FailsOnlyByRace'
    BY <1>2 DEF Bind, FileAlone, FailsOnlyByRace
  <2>4. NoFileLeft'
    BY <1>2 DEF Bind, NoFileLeft
  <2>5. QED
    BY <2>1, <2>2, <2>3, <2>4
<1>3. CASE Listen(p)
  BY <1>3 DEF Listen, OverlapSeen, FileAlone, FailsOnlyByRace, NoFileLeft
<1>4. CASE Leave(p)
  BY <1>4 DEF Leave, OverlapSeen, FileAlone, FailsOnlyByRace, NoFileLeft
<1>5. CASE End(p)
  BY <1>5 DEF End, OverlapSeen, FileAlone, FailsOnlyByRace, NoFileLeft
<1>6. QED
  BY <1>1, <1>2, <1>3, <1>4, <1>5 DEF Main

(* A signal is remembered, or has the effect of a crash. *)
LEMMA CrashPreserves ==
  ASSUME EndpointInv, NEW p \in Server, Gone(p, "crashed"), UNCHANGED <<path, overlapped>>
  PROVE  EndpointInv'
<1> USE ServerAssumption DEF EndpointInv, EndpointTypeOK, Goto, Gone, Running
<1>1. EndpointTypeOK' /\ OverlapSeen'
  BY DEF OverlapSeen
<1>2. FileAlone' /\ FailsOnlyByRace'
  BY DEF FileAlone, FailsOnlyByRace
<1>3. NoFileLeft'
  BY DEF NoFileLeft
<1>4. QED
  BY <1>1, <1>2, <1>3

LEMMA SignalPreserves ==
  ASSUME EndpointInv, NEW p \in Server, Signal(p)
  PROVE  EndpointInv'
<1>1. CASE signalled' = [signalled EXCEPT ![p] = TRUE] /\ UNCHANGED pc
  BY <1>1 DEF Signal, EndpointInv, EndpointTypeOK, OverlapSeen, FileAlone, FailsOnlyByRace,
              NoFileLeft, Running
<1>2. CASE Gone(p, "crashed")
  BY <1>2, CrashPreserves DEF Signal
<1>3. QED
  BY <1>1, <1>2 DEF Signal

LEMMA StepEndpointInv == EndpointInv /\ [Next]_vars => EndpointInv'
<1> SUFFICES ASSUME EndpointInv, [Next]_vars PROVE EndpointInv'
  OBVIOUS
<1>1. ASSUME NEW p \in Server, Start(p) PROVE EndpointInv'
  BY <1>1, StartPreserves
<1>2. ASSUME NEW p \in Server, Main(p) PROVE EndpointInv'
  BY <1>2, MainPreserves
<1>3. ASSUME NEW p \in Server, Signal(p) PROVE EndpointInv'
  BY <1>3, SignalPreserves
<1>4. ASSUME NEW p \in Server, Crash(p) PROVE EndpointInv'
  BY <1>4, CrashPreserves DEF Crash
<1>5. CASE UNCHANGED vars
  BY <1>5 DEF vars, EndpointInv, EndpointTypeOK, OverlapSeen, FileAlone, FailsOnlyByRace,
              NoFileLeft, Running
<1>6. QED
  BY <1>1, <1>2, <1>3, <1>4, <1>5 DEF Next

(* The file of any number of processes, through all of their starts, ends  *)
(* and crashes.                                                            *)
THEOREM EndpointInvariant == Spec => []EndpointInv
  BY InitEndpointInv, StepEndpointInv, PTL DEF Spec

(* Type correctness: the signal is one of a process that runs. *)
THEOREM EndpointTypeCorrect == Spec => []EndpointTypeOK
<1>1. EndpointInv => EndpointTypeOK
  BY DEF EndpointInv
<1>2. QED
  BY <1>1, EndpointInvariant, PTL

(* A server that overlaps with no other is found while it listens. *)
THEOREM ReachableAloneAlways == Spec => []ReachableAlone
<1>1. EndpointInv => ReachableAlone
  BY DEF EndpointInv, FileAlone, ReachableAlone, Reachable
<1>2. QED
  BY <1>1, EndpointInvariant, PTL

(* bind fails only where another process runs or has run meanwhile. *)
THEOREM FailsOnlyByRaceAlways == Spec => []FailsOnlyByRace
<1>1. EndpointInv => FailsOnlyByRace
  BY DEF EndpointInv
<1>2. QED
  BY <1>1, EndpointInvariant, PTL

(* No process that came to the end of main has left its file. *)
THEOREM NoFileLeftAlways == Spec => []NoFileLeft
<1>1. EndpointInv => NoFileLeft
  BY DEF EndpointInv
<1>2. QED
  BY <1>1, EndpointInvariant, PTL
=============================================================================
