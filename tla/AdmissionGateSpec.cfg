\* Twice as many acquisitions as slots.
SPECIFICATION SystemFairSpec
CONSTANTS
    Acquirers = {a1, a2, a3, a4}
    Capacity = 2
INVARIANTS SlotsOwned NoLostWakeup
PROPERTIES ImplementsFifo NobodyStarves
