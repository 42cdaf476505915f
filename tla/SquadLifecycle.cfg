SPECIFICATION Spec
CONSTANTS
  ann = ann
  bob = bob
  slot = slot
  other = other
  None = None
  Players = {ann, bob}
  Seats = {slot, other}
  Full = 2
  MaxSquads = 3
  MaxQueued = 1
  MaxDeaths = 1
  MaxReturns = 2
  MaxLost = 0
  QuickReturns = TRUE
INVARIANTS TypeOK OneSquadPerPlayer OneIdPerGroup
PROPERTY OnItsWayIsKept
