SPECIFICATION Spec
CONSTANTS
  Handles = {h1}
  PlainChunk = 1
  Padding = 1
  Header = 1
  ServerSlots = 2
  OperationLimit = 12
  OperationsLimit = 2
  Sizes = {5}
  Positions = {0}
  Lengths = {4}
  MaxSize = 5
  MaxVersion = 2
  SplitWrites = TRUE
PROPERTY WritesKeepTheRest
VIEW View
CHECK_DEADLOCK FALSE
