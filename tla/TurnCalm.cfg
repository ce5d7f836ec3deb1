SPECIFICATION FairSpec
CONSTANTS
  N = 3
  Runs = {r1, r2}
  Stops = {s1}
  r1 = r1
  r2 = r2
  s1 = s1
  MaxAsks = 1
  MaxCrashes = 1
  EarlyAnswer = FALSE
  EagerClient = FALSE
  UntrustedHooks = FALSE
  SlowRelease = FALSE
INVARIANTS
  TypeOK
  OneActive
  Serial
  StopTellsTheTruth
  StoppedIsStill
  WaitingIsAnswerable
PROPERTIES
  StopIsAnsweredOrLost
  QueueMoves
  TerminalFinal
  FailurePausesQueue
  PausedQueueHolds
  LostOnlyToSteers
  SteersAreKept
CHECK_DEADLOCK FALSE
