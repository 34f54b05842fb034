SPECIFICATION Spec
CONSTANTS
  doc = doc
  file1 = file1
  file2 = file2
  None = None
  Files = {doc, file1, file2}
  StoreFiles = {doc}
  Entries = {e1, e2}
  EntryFiles <- MCEntryFiles
  FileSize <- MCFileSize
  ChunkSize = 2
  PartSize = 3
  Padding = 2
  Header = 0
  Lengths = {1, 3}
  MaxRequests = 2
  MaxFaults = 1
  MaxSends = 2
  MaxKey = 1
INVARIANTS
  CreatedInv
  AcceptedUnlessLost
  RefusedOnlyByRotation
  IncompleteCommitsNothing
CONSTRAINT Apart
CHECK_DEADLOCK FALSE
