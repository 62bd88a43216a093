\* Another task than the one that entered may nest.
SPECIFICATION Spec
CONSTANTS
    NoTask = NoTask  Closer = Closer
    Tasks = {t1, t2}
    Entrants = {t1}
    Strays = {}
    Nesters = {t1, t2}
    Contexts = {c1, c2}
    Writes = {w1}
INVARIANTS LeaseReturned
CHECK_DEADLOCK FALSE
