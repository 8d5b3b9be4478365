SPECIFICATION Spec
CONSTANTS
    None = None
    m1 = m1
    m2 = m2
    Mints <- MCMints
    Plans <- MCPlans
    DayMs = 10
    Parts = 2
    MaxRuns = 3
    MaxCrashes = 2
INVARIANT
    EveryRecordReconstructible
CHECK_DEADLOCK FALSE
