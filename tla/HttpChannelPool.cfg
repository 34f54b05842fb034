\* Four requests for two channels.
SPECIFICATION FairPoolSpec
CONSTANTS
  Requests = {r1, r2, r3, r4}
  MAX_HTTP_CLIENTS = 2
INVARIANTS
  ExclusiveUse
  CountInv
  NeverRefused
  NoLostWakeup
PROPERTIES
  EveryWaiterLeaves
