SPECIFICATION FairSpec
CONSTANTS
  MaxSeq = 2
  MaxLive = 0
  MaxFaults = 0
  ScrollsEarly = TRUE
PROPERTIES
  EverythingArrives
CHECK_DEADLOCK FALSE
