\* An inbox on a thread, a notification and two disconnections.
SPECIFICATION Spec
CONSTANTS
  thread = thread
  inbox = inbox
  None = None
  Apis <- MCApis
  Parent <- InboxOnThread
  Workers = {w1, w2}
  MaxHandles = 2
  MaxCalls = 1
  MaxNotifications = 1
  MaxDisconnects = 2
  MaxAssigned = 1
INVARIANTS
  NotifiedAlive
  LastCleanupInv
  HeldIsAlive
  Released
  DestructorWoken
SYMMETRY WorkerSymmetry
CHECK_DEADLOCK FALSE
