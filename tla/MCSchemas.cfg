SPECIFICATION Spec
CONSTANTS
    None = None
    Cases <- MCCases
    Parent <- MCParent
    Drifts <- MCDrifts
    Races <- MCRaces
    Rows <- MCRows
INVARIANTS SilenceIsEarned ScaffoldVerifies
CHECK_DEADLOCK FALSE
