SPECIFICATION Spec
CONSTANTS
  MaxPolls = 2
  MaxFaults = 1
  MaxSize = 9
  Bytes <- MCBytes
  Rates <- MCRates
  Customs <- MCCustoms
  Regulators <- MCRegulators
INVARIANTS
  ReferenceMatches
  DevicesReady
  AccessExact
  VoltageSuffices
  LossIsDetected
  CardClockWithin
CHECK_DEADLOCK FALSE
