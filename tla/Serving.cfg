SPECIFICATION FairSpec
CONSTANTS
    Calls = {c1, c2}
    Http = c1
    Callers <- MCCallers
    MaxDeploys = 2
    Concurrency = 1
    MaxEdits = 2
    MaxFaults = 1
INVARIANTS
    PermitsConserved
PROPERTIES
    CallsEnd
    ImplementsService
CHECK_DEADLOCK FALSE
