-------------------------- MODULE MCSessionTickets --------------------------
(* Callers that never destroy the connection are interchangeable.          *)
EXTENDS SessionTickets, TLC

(* The instance is one of those that the theorems are about.               *)
ASSUME MarginsAssumption == Fits /\ InTime

CallerSymmetry == Permutations(Callers)
=============================================================================
