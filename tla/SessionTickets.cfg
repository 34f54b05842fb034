\* A server that answers in time, two callers and the ticket loop.
\* One unit of time is a third of 5 seconds.
SPECIFICATION Spec
CONSTANTS
  Callers = {a, b}
  Destroyers = {}
  Loop = Loop
  None = None
  Faults = FALSE
  TICKETS_MAX_COUNT = 4
  TICKETS_MIN_COUNT = 3
  MAX_ATTEMPTS = 1
  Ttl = 18
  MinTicketTtl = 3
  TtlThreshold = 9
  PollTime = 6
  RetryTime = 1
  MaxLatency = 1
INVARIANTS
  SessionKept
  LoopKeptInv
  NoTicketRejected
SYMMETRY CallerSymmetry
