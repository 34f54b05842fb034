--------------------------- MODULE OrderedDelivery ---------------------------
(***************************************************************************)
(* What the delivery of notifications promises to the channels, without    *)
(* threads, locks, flags or restarts: what was accepted is delivered once  *)
(* and in the order in which it was accepted.                              *)
(***************************************************************************)
EXTENDS Naturals, Sequences

CONSTANT Notifications

VARIABLES accepted, delivered

vars == <<accepted, delivered>>

Init == accepted = <<>> /\ delivered = <<>>

Accept(m) == accepted' = Append(accepted, m) /\ UNCHANGED delivered

(* The next one in order.                                                  *)
Deliver ==
  /\ Len(delivered) < Len(accepted)
  /\ delivered' = Append(delivered, accepted[Len(delivered) + 1])
  /\ UNCHANGED accepted

Next == (\E m \in Notifications : Accept(m)) \/ Deliver

Spec == Init /\ [][Next]_vars
=============================================================================
