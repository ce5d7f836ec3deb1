SPECIFICATION FairSpec
CONSTANTS
  MaxTries = 2
  MaxTroubles = 2
  MaxOthers = 1
  SlowAdmission = FALSE
  Races = FALSE
  Meddles = FALSE
INVARIANTS
  TypeOK
  NothingLost
  StillWhileMoved
PROPERTIES
  AllOrNothing
  OperationEnds
CHECK_DEADLOCK FALSE
