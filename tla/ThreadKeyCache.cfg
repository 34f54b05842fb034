\* Two calls at a time, up to three versions of the thread.
SPECIFICATION Spec
CONSTANTS
  None = None
  Calls = {c1, c2}
  Subscribed = TRUE
  MaxVersion = 3
INVARIANTS
  MembersCanReadInv
  RefusedOnlyByRotation
  OutdatedIsCaughtUp
SYMMETRY CallSymmetry
CHECK_DEADLOCK FALSE
