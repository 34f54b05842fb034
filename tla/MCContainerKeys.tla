-------------------------- MODULE MCContainerKeys --------------------------
(***************************************************************************)
(* ContainerKeys for TLC.  Users and calls are interchangeable.            *)
(***************************************************************************)
EXTENDS ContainerKeys, TLC

Symmetry == Permutations(Users) \cup Permutations(Updates)
=============================================================================
