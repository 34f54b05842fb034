SPECIFICATION Spec
CONSTANTS
  Clients = {c1, c2}
  Users = {u, w}
  Entries = {e}
  FileCount = 2
  MaxVersion = 3
  MaxFaults = 1
INVARIANTS
  InboxInv
  NoOrphans
  MembersAgree
  EntriesReadable
  EntriesWhole
SYMMETRY Symmetry
CHECK_DEADLOCK FALSE
