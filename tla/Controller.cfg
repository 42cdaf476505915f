SPECIFICATION Spec
CONSTANTS
    i1 = i1  i2 = i2  p1 = p1  p2 = p2  a1 = a1  s = s  t = t  other = other
    None = None
    WorkItems = {i1, i2}
    BlockedBy <- NoBlocks
    Resources <- NoResource
    Priority <- Order
    WipLimit = 1
    Procs = {p1, p2}
    Artifacts <- Published
    Deliveries <- DeliveryDocs
    Results <- ResultDocs
    Verdicts = {"still_live", "lost_work"}
    MaxCycles = 3
    MaxCrashes = 1
    MaxEvents = 2
SYMMETRY Symmetry
CHECK_DEADLOCK FALSE
INVARIANTS OneAgentPerItem AgentsWithinLimit AppliedOnce UnreadableHasACause
PROPERTIES CompletionOnOneCandidate NoRelaunchOfCompleted
