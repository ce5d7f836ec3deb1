SPECIFICATION FairSpec
CONSTANTS
  Calls = {c1, c2}
  c1 = c1
  c2 = c2
  NoCall = NoCall
  MaxCrashes = 2
INVARIANTS
  TypeOK
  AtMostOnce
  OnlyIfAllowed
  RowsTellTheTruth
  WaitsForAnAnswer
PROPERTIES
  CancelledIsStill
  AnswerIsTakenUp
  RunsComeToAnEnd
CHECK_DEADLOCK FALSE
