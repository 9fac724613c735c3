SPECIFICATION MCSpec
CONSTANTS
  b1 = b1
  b2 = b2
  NoBuffer = NoBuffer
  TX_DESC_COUNT = 4
  RX_DESC_COUNT = 2
  Buffers <- TwoBuffers
  U32Max = 7
  MaxFrames = 4
  Preempt = FALSE
  Restarts = TRUE
INVARIANTS RingAccount OutstandingMapped RxInStep
PROPERTIES RingIsQueue TxComesBack RxInOrder
CHECK_DEADLOCK FALSE
