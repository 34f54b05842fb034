-------------------------- MODULE MCInboxContainers --------------------------
(* Clients and users are interchangeable.                                   *)
EXTENDS InboxContainers, TLC

Symmetry == Permutations(Clients) \cup Permutations(Users)
=============================================================================
