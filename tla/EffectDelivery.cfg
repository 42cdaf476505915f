SPECIFICATION FairSpec
CONSTANTS
  player = player
  slow = slow
  huge = huge
  None = None
  Effects = {player, slow, huge}
  Verdicts <- MCVerdicts
  Size <- MCSize
  Guard = 3
  MaxIssued = 2
  MaxEpoch = 2
INVARIANTS NoEffectLost NeverAppliedIsOnRecord OneCampaign
PROPERTIES StreamSpec OutboxDrains
\* A lost Campaign is where the world stops, by design.
CHECK_DEADLOCK FALSE
