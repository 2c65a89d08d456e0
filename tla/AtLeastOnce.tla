----------------------------- MODULE AtLeastOnce -----------------------------
(***************************************************************************)
(* What the outbox promises to the topic's consumers: an accepted event is *)
(* delivered before it is acknowledged, and an acknowledgement, a delivery *)
(* and an acceptance are never taken back.  Nothing is said of order or of *)
(* how many times an event is delivered before its acknowledgement.        *)
(***************************************************************************)
CONSTANT Events

VARIABLES accepted, delivered, acked

avars == <<accepted, delivered, acked>>

Init == accepted = {} /\ delivered = {} /\ acked = {}

Accept(e) ==
  /\ e \notin accepted
  /\ accepted' = accepted \union {e}
  /\ UNCHANGED <<delivered, acked>>

(* Delivering is repeatable, but never follows the acknowledgement.        *)
Deliver(e) ==
  /\ e \in accepted \ acked
  /\ delivered' = delivered \union {e}
  /\ UNCHANGED <<accepted, acked>>

Acknowledge(E) ==
  /\ E \subseteq delivered \ acked
  /\ acked' = acked \union E
  /\ UNCHANGED <<accepted, delivered>>

Next ==
  \/ \E e \in Events : Accept(e)
  \/ \E e \in accepted : Deliver(e)
  \/ \E E \in SUBSET delivered : Acknowledge(E)

Spec == Init /\ [][Next]_avars

=============================================================================
