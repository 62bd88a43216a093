SPECIFICATION FairSpec
CONSTANTS
    r1 = r1
    r2 = r2
    r3 = r3
    Runners = {r1, r2, r3}
    NoRunner = NoRunner
    Plan <- Declared
    Consent = {r1}
    Legacies <- LegacyNames
    MaxRetries = 1
INVARIANTS ExactlyOnce ResultIsTruthful
PROPERTIES KeepsLedger WriterLockIsFreed
CHECK_DEADLOCK FALSE
