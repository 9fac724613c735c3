CONSTANTS
  kbd = kbd
  mouse = mouse
  Endpoints <- MCEndpoints
  PollingInterval <- MCPollingInterval
  Tds <- MCTds
SPECIFICATION PeriodicSpec
INVARIANTS
  ContextHasEd
  PolledInTime
  PacketsInStep
PROPERTIES
  EventuallyReported
