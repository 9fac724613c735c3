SPECIFICATION MshcSpec
CONSTANTS
  Last = 3
  MaxLength = 3
  FifoDepth = 2
INVARIANTS
  TransfersRight
  StateIsAnswered
PROPERTY
  CallsReturn
