SPECIFICATION Spec
CONSTANTS
  agia = agia
  Objectives = {agia}
  West = West
  East = East
  Neutral = Neutral
  Contested = Contested
  None = None
  Commanded = {East}
  CaptureSeconds = 2
  DominationSeconds = 1
  TickSeconds = 2
  Stipend = 1
  Income = 1
  StartingFunds = 1
  Price = 2
  MaxStep = 2
  MaxLived = 3
  MaxRestarts = 1
  MaxSpent = 1
  MaxLoads = 1
\* The world stops at MaxLived.
CHECK_DEADLOCK FALSE
INVARIANTS WonIsToldOnce FundsFollowTheClock
PROPERTIES CaptureIsEarned DominationIsSustained FrozenOnceWon
