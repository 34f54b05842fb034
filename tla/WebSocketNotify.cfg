\* Two channels, both removed, and a socket that closes twice.
SPECIFICATION FairSpec
CONSTANTS
  Channels = {c1, c2}
  Removable = {c1, c2}
  MaxMessages = 3
  MaxCloses = 2
  Net = Net
  Consumer = Consumer
  None = None
INVARIANTS
  DeliveredInOrder
  OneConsumerInv
PROPERTIES
  EveryNotificationDelivered
CHECK_DEADLOCK FALSE
