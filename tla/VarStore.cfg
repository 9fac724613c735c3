SPECIFICATION FairSpec
CONSTANTS
  v1 = v1
  hdr = hdr
  delay = delay
  Vars <- MCVars
  Hdr <- hdr
  Delay <- delay
  Settable <- MCSettable
  PLATFORM_RESET_DELAY = 1
  MaxValue = 1
  MediaIds <- MCMediaIds
  Handles <- MCHandles
  BootCard = "boot"
  MaxSets = 1
  MaxPending = 2
INVARIANTS CleanIsStored OtherCardUntouched
PROPERTIES ResetKeepsVariables ResetCompletes
CHECK_DEADLOCK FALSE
