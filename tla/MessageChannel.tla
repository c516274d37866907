--------------------------- MODULE MessageChannel ---------------------------
(***************************************************************************)
(* What two connected sessions promise their users: each direction is a    *)
(* FIFO of whole messages.  A message is delivered once, after all earlier *)
(* ones, unchanged, and never to a closed session.  What is under way when *)
(* a session closes may be lost, but only from the end.                    *)
(***************************************************************************)
EXTENDS Naturals, Sequences

CONSTANTS
  End,      (* the two ends of the connection                               *)
  Message

VARIABLES
  sent,       (* the messages passed to send, per sender                    *)
  delivered,  (* the messages passed to onmessage, per receiver             *)
  open

vars == <<sent, delivered, open>>

Peer(e) == CHOOSE p \in End : p # e

Init ==
  /\ sent = [e \in End |-> <<>>]
  /\ delivered = [e \in End |-> <<>>]
  /\ open = [e \in End |-> TRUE]

(* The queue of a closed session still takes messages: they are lost. *)
Send(e, m) ==
  /\ sent' = [sent EXCEPT ![e] = Append(@, m)]
  /\ UNCHANGED <<delivered, open>>

Deliver(e) ==
  /\ open[e]
  /\ Len(delivered[e]) < Len(sent[Peer(e)])
  /\ delivered' = [delivered EXCEPT ![e] = Append(@, sent[Peer(e)][Len(@) + 1])]
  /\ UNCHANGED <<sent, open>>

Close(e) ==
  /\ open[e]
  /\ open' = [open EXCEPT ![e] = FALSE]
  /\ UNCHANGED <<sent, delivered>>

Next == \E e \in End : (\E m \in Message : Send(e, m)) \/ Deliver(e) \/ Close(e)

(* As long as both sessions are open messages arrive, and the loss of one  *)
(* session closes the other one.                                           *)
Fairness ==
  \A e \in End :
    /\ WF_vars(open[Peer(e)] /\ Deliver(e))
    /\ WF_vars(~open[Peer(e)] /\ Close(e))

Spec == Init /\ [][Next]_vars /\ Fairness
=============================================================================
