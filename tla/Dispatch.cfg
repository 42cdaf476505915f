SPECIFICATION Spec
CONSTANTS
    d1 = d1  d2 = d2  d3 = d3  tree = tree  None = None  Hand = hand
    Dispatches = {d1, d2}
    TreeOf <- OneTree
    ConsecutiveN = 2
    Taps = {"none", "exhausted"}
    Resets = {1}
    MaxClock = 1
    MaxCommands = 1
    MaxKills = 1
SYMMETRY Symmetry
CHECK_DEADLOCK FALSE
INVARIANTS FreeTreeHidesNoChild NotLaunchedNeverRan StoppedIsOver TripNeedsEvidence
PROPERTIES EscalationStands
