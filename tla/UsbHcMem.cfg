CONSTANTS
  NoPlace = NoPlace
  Blocks = {b1, b2, b3}
  Requests = {1, 2, 4}
  UnitsPerPage = 1
  USBHC_MEM_DEFAULT_PAGES = 3
  Preempt = FALSE
SYMMETRY Symmetry
SPECIFICATION Spec
INVARIANTS
  PoolAccount
