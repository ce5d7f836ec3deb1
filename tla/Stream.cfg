SPECIFICATION FairSpec
CONSTANTS
  MaxSeq = 3
  MaxLive = 1
  MaxFaults = 1
  ScrollsEarly = FALSE
INVARIANTS
  TypeOK
  LiveOnItsState
  ResumesAfterWhatItHas
PROPERTIES
  ReadsTheLog
  EverythingArrives
CHECK_DEADLOCK FALSE
