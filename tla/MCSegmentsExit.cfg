SPECIFICATION SegmentsSpec
CONSTANTS
    FinalizeJobs = {}
    ComparisonJobs = {}
    PlanRequests = {}
    SegmentJobs = {s1, s2}
    Watchers = {w1}
    Fingerprints = {A}
    None = None
    InitialRounds = 0
    MaxRounds = 2
    RoundFingerprint <- MCRoundFingerprint
    LegacyReads = 0
    MaxCrashes = 2
    SpawnFailures = 1
    RequestsOverlap = FALSE
INVARIANT CheckpointSurvivesExit
CHECK_DEADLOCK FALSE
