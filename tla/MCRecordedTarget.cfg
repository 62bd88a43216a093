SPECIFICATION Spec
CONSTANTS
    None = None
    Refused = Refused
    Executors = {e1, e2}
    Lineages <- MCLineages
    MaxCalls = 5
    MaxFaults = 2
INVARIANTS EvidenceIsTrue AppliedIsDurable
PROPERTIES LockIsFreed
CHECK_DEADLOCK FALSE
