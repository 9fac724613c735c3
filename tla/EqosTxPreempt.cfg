SPECIFICATION Spec
CONSTANTS
  NoBuffer = NoBuffer
  TX_DESC_COUNT = 3
  RX_DESC_COUNT = 1
  Buffers = {b1}
  U32Max = 7
  MaxFrames = 0
  Preempt = TRUE
  Restarts = FALSE
INVARIANTS RecycleFindsMapping
CHECK_DEADLOCK FALSE
