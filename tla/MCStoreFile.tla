---------------------------- MODULE MCStoreFile ----------------------------
(* Instances of StoreFile for TLC.                                            *)
EXTENDS StoreFile

(* No guard reads out: states that differ only in it are the same state.   *)
View == <<server, handle, metaCall, broken, hist>>
=============================================================================
