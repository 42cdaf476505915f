\* The process ends when the worker has exited, so the system really stops.
SPECIFICATION FairSpec
CONSTANTS
  hand = hand
  timer = timer
  Callers = {hand, timer}
  Interval = 2
  WriteTime = 1
  MaxMade = 2
  MaxFailures = 1
INVARIANTS CleanMeansDurable ForcedIsDurable LossIsBounded
PROPERTY EveryForceReturns
CHECK_DEADLOCK FALSE
