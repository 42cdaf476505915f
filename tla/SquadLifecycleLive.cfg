SPECIFICATION FairSpec
CONSTANTS
  ann = ann
  bob = bob
  slot = slot
  other = other
  None = None
  Players = {ann}
  Seats = {slot, other}
  Full = 2
  MaxSquads = 2
  MaxQueued = 1
  MaxDeaths = 0
  MaxReturns = 2
  MaxLost = 1
  QuickReturns = FALSE
PROPERTY PairedInTheEnd
