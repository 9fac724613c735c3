SPECIFICATION FairSpec
CONSTANTS
  PortCount = 1
  MaxPolls = 2
  MaxPlugs = 2
INVARIANTS WorksPrepared ResetReportedOnce QuietAfterExit
PROPERTIES CallsReturn
CHECK_DEADLOCK FALSE
