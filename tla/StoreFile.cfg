SPECIFICATION Spec
CONSTANTS
  Handles = {h1}
  PlainChunk = 2
  Padding = 2
  Header = 1
  ServerSlots = 2
  OperationLimit = 9
  OperationsLimit = 2
  Sizes = {0, 3}
  Positions = {0, 3}
  Lengths = {0, 3}
  MaxSize = 6
  MaxVersion = 3
  SplitWrites = FALSE
INVARIANTS ReadableUnlessBroken CurrentHandleInv
PROPERTIES IsVersionedFile NoFalseAlarm
CHECK_DEADLOCK FALSE
VIEW View
