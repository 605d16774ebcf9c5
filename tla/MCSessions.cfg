SPECIFICATION Spec
CONSTANTS
    A = A
    FinalizeJobs = {f1}
    ComparisonJobs = {}
    PlanRequests = {}
    SegmentJobs = {s1}
    Watchers = {}
    Fingerprints = {A}
    None = None
    InitialRounds = 1
    MaxRounds = 2
    RoundFingerprint <- MCRoundFingerprint
    LegacyReads = 0
    MaxCrashes = 0
    SpawnFailures = 0
    RequestsOverlap = FALSE
INVARIANT ReadsStayCounted
CHECK_DEADLOCK FALSE
