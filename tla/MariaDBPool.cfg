\* More acquisitions than slots, and one physical connection more than the
\* pool may ever have.
SPECIFICATION FairSpec
CONSTANTS
    Acquirers = {a1, a2, a3}
    Capacity = 2
    Conns = {c1, c2, c3}
    NoConn = NoConn
INVARIANTS OneOwner DriverNeverBlocks LeasedIsSettled
PROPERTIES CloseEnds
