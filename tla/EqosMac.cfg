SPECIFICATION Spec
CONSTANTS
  g1 = g1
  g2 = g2
  Groups <- TwoGroups
  Hash <- TwoHashes
  Addresses = {"a1", "a2"}
  PermanentAddress = "a1"
  FilterChoices <- OneFilter
  MAX_MCAST_FILTER_CNT = 1
  Speeds = {100}
INVARIANTS AnswersToAddress WantedIsLetIn ReportedOnce
CHECK_DEADLOCK FALSE
