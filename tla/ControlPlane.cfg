SPECIFICATION FairSpec
CONSTANTS
    Nodes = {n1, n2}
    First = n1
    Keys = {k1}
    Vals = {v1}
    None = none
    NoKey = nokey
    NoNode = nonode
    InternalKeys = {k1}
    MaxLog = 4
    MaxLocal = 1
    MaxRestarts = 1
    Reqs = {r1, r2}
    Tokens = {t1}
    Nobody = nobody
    MaxReqs = 3
    MaxFaults = 1
    NoFn = nofn
    MaxBuilds = 2
    MaxCommits = 2
    Sent = {3}
    MaxRequests = 2
    MaxErrors = 1
INVARIANTS
    CaughtUpFaithful
    ConfigTypeOK
    SetupComplete
    OneJoinPerToken
    ClientKeyStored
    RefHasBlob
PROPERTIES
    EventuallyConverged
    RequestsEnd
    BuildsFinish
    CodeNeverGoesBack
CHECK_DEADLOCK FALSE
