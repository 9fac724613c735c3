SPECIFICATION Spec
CONSTANTS
  NumBlocks = 3
  BlockLen = 2
  U32Max = 15
  Modulus = 16
  Data = {d1}
  FF = FF
  HDR = HDR
  BadHdr = BadHdr
  AttrRequests <- MCAttrRequests
  WriteOffsets <- MCWriteOffsets
  WriteLengths <- MCWriteLengths
  EraseLists <- MCEraseLists
INVARIANTS StaysWritable HeaderStaysValid EraseAllOrNothing
PROPERTIES EraseExact WriteStopsAtBlock
CHECK_DEADLOCK FALSE
