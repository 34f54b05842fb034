-------------------------- MODULE MCThreadKeyCache --------------------------
(***************************************************************************)
(* ThreadKeyCache for TLC.  Calls are interchangeable.                     *)
(***************************************************************************)
EXTENDS ThreadKeyCache, TLC

CallSymmetry == Permutations(Calls)
=============================================================================
