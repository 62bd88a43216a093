\* Two tasks share one object; no step depends on a second write.
SPECIFICATION FairSpec
CONSTANTS
    NoTask = NoTask  Closer = Closer
    Tasks = {t1, t2}
    Entrants = {t1}
    Strays = {t2}
    Nesters = {t1, t2}
    Contexts = {c1, c2}
    Writes = {w1}
INVARIANTS CommitIsExact OutcomeIsEvidence ReleasedIsClean NestedIsExclusive
PROPERTIES ExitEnds
CHECK_DEADLOCK FALSE
