--------------------------- MODULE MCApiLifecycle ---------------------------
(* Two API objects, the second of which holds a handle of the first.       *)
EXTENDS ApiLifecycle, TLC

CONSTANTS thread, inbox

MCApis == {thread, inbox}
InboxOnThread == thread :> None @@ inbox :> thread
WorkerSymmetry == Permutations(Workers)
=============================================================================
