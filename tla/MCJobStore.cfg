SPECIFICATION Spec
CONSTANTS
    final = final
    run = run
    segment = segment
    None = None
    Jobs = {final, run, segment}
    Cancellers = {c1, c2}
    Kind <- MCKind
    SpawnFailures = 1
INVARIANTS
    TypeOK
    ClientsHearTheOutcome
PROPERTIES
    ImplementsLifecycle
    AcceptedCancelEnds
CHECK_DEADLOCK FALSE
