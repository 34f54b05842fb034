\* A caller that ends with destroy(), with failures.
SPECIFICATION FairSpec
CONSTANTS
  Callers = {a}
  Destroyers = {a}
  Loop = Loop
  None = None
  Faults = TRUE
  TICKETS_MAX_COUNT = 3
  TICKETS_MIN_COUNT = 2
  MAX_ATTEMPTS = 1
  Ttl = 5
  MinTicketTtl = 1
  TtlThreshold = 3
  PollTime = 2
  RetryTime = 1
  MaxLatency = 1
PROPERTIES
  CancelStopsLoop
CHECK_DEADLOCK FALSE
