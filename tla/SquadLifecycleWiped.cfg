SPECIFICATION Spec
CONSTANTS
  ann = ann
  bob = bob
  slot = slot
  other = other
  None = None
  Players = {ann}
  Seats = {slot, other}
  Full = 2
  MaxSquads = 2
  MaxQueued = 2
  MaxDeaths = 0
  MaxReturns = 1
  MaxLost = 0
  QuickReturns = TRUE
PROPERTY OnlyTheWipedAreDropped
