CONSTANTS
  MaxData = 2
SPECIFICATION Spec
INVARIANTS
  InFlightSafe
  HeadIsReady
  NothingLeft
  ToggleInStep
