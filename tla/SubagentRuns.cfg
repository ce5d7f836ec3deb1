CONSTANTS
  Tasks = {t1, t2}
  GlobalLimit = 1
  ParentLimit = 2
  Hasty = FALSE
  MaxRuns = 2
  MaxSends = 1
  MaxWakes = 1
  MaxCrashes = 1
SPECIFICATION FairSpec
INVARIANTS
  TypeOK
  WithinLimits
  OneAtATime
  TaskTellsItsRun
  MessageHasAReader
PROPERTIES
  EndedStaysEnded
  ParentWakes
  QueueMoves
CHECK_DEADLOCK FALSE
