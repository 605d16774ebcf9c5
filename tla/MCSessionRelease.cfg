SPECIFICATION EvidenceSpec
CONSTANTS
    A = A
    FinalizeJobs = {f1}
    ComparisonJobs = {c1}
    PlanRequests = {p1}
    SegmentJobs = {}
    Watchers = {w1}
    Fingerprints = {A}
    None = None
    InitialRounds = 1
    MaxRounds = 1
    RoundFingerprint <- MCRoundFingerprint
    LegacyReads = 1
    MaxCrashes = 2
    SpawnFailures = 1
PROPERTIES
    ReservationsReleased
CHECK_DEADLOCK FALSE
