SPECIFICATION Spec
CONSTANTS
    Families = {"base", "user", "ta"}
    Managed = {"ta"}
    MaxRevision = 2
    Calcs <- Calculations
    UserBodies <- Contents
    Operators <- Brought
    Editors = {e1}
    Deleters = {d1}
    Readers = {l1}
    Runs = {j1}
    Sessions = {s1}
    Results = {k1}
    None = None
    MaxRestarts = 1
    Stores <- Documents
    MaxRequests = 3
INVARIANTS
    TypeOK
    TestRanItsRevisions
PROPERTIES
    RunKeepsItsFormulas
    RevisionFixed
CHECK_DEADLOCK FALSE
