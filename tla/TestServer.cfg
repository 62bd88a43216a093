\* Two starts in a row over one data directory, each cancelled up to twice.
CONSTANTS
    Passwords = {p1, p2}
    None = None
    MaxStarts = 2
    MaxCancels = 2
SPECIFICATION Spec
INVARIANTS OrphansAreReported
PROPERTIES PublishIsEarned LeavingEnds
CHECK_DEADLOCK FALSE
