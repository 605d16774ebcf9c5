SPECIFICATION EvidenceSpec
CONSTANTS
    A = A
    FinalizeJobs = {f1, f2}
    ComparisonJobs = {c1}
    PlanRequests = {p1}
    SegmentJobs = {}
    Watchers = {w1}
    Fingerprints = {A, B}
    None = None
    InitialRounds = 1
    MaxRounds = 1
    RoundFingerprint <- MCRoundFingerprint
    LegacyReads = 0
    MaxCrashes = 1
    SpawnFailures = 0
INVARIANTS
    EvidenceTypeOK
    ReadsAccounted
    PlanBehindArtifact
PROPERTIES
    ImplementsLedger
    EvidenceImmutable
SYMMETRY Symmetry
CHECK_DEADLOCK FALSE
