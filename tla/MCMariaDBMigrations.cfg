SPECIFICATION FairSpec
CONSTANTS
    r1 = r1
    r2 = r2
    r3 = r3
    Runners = {r1, r2, r3}
    NoRunner = NoRunner
    Plan <- Declared
    Consent = {r1}
    Legacies <- LegacyNames
    Ddl <- CommitsImplicitly
INVARIANTS TransactionalOnce ResultIsTruthful
PROPERTIES KeepsLedger OnlyHolderWrites LockIsFreed
CHECK_DEADLOCK FALSE
