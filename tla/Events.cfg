SPECIFICATION FairSpec
CONSTANTS
    Projects = {p1}
    Home = p1
    NRules = 1
    Kinds = {k1}
    Invoked = k1
    Bodies <- HookCallBodies
    None = none
    QueueCap = 1
    ChanCap = 1
    Keep = 1
    Backlog = 1
    Attempts = 2
    MaxEmits = 2
    MaxOps = 4
    MaxFaults = 1
INVARIANTS
    PersistFirst
    FireCountSound
    EndedIsSettled
PROPERTIES
    DoneIsFinal
    WorkedOff
CHECK_DEADLOCK FALSE
