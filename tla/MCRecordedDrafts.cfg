SPECIFICATION Spec
CONSTANTS
    None = None
    Refused = Refused
    ModelSets <- MCModelSets
    Points = {"p"}
    MaxRevisions = 2
    MaxEdits = 3
INVARIANTS GeneratedCompiles ReachesTarget ChangeMeetsContract
CHECK_DEADLOCK FALSE
