SPECIFICATION FairSpec
CONSTANTS
    NoFn = nofn
    TriggerLists <- Lists
    Parsed = {"six"}
    CronCap = 2
    MaxWrites = 3
    MaxEntries = 12
    MaxCrashes = 1
    Watchers = {w1, w2}
    BufCap = 1
    ChanCap = 1
    MaxLines = 2
    Ctrs = {a, b}
    NoCtr = noctr
    MaxFollowers = 3
    MaxChanges = 4
    Stoppers = {s1, s2}
    MaxChildren = 2
    Projects = {p, q}
    NoProject = noproject
    Requests = {r1, r2}
    MaxBuckets = 2
    MaxKeys = 1
    MaxObjReqs = 3
    MaxObjFaults = 1
    Secs = {0, 1}
    Digits = {0, 1, 5}
    Places = 2
    KeepLog = 1
    Limit = 2
    MaxLogged = 3
    Logins = {l1, l2}
    TokenNames = {ci, 1}
    TTLs = {0, 1}
    SessionTTL = 1
    MaxNow = 2
    MaxTokens = 2
    MaxPasswords = 2
INVARIANTS
    CronFollows
    StrayEntries
    NoGap
    SubscribeIsSafe
    OneFollower
    NoOrphan
    ProjectsApart
    TokensLast
PROPERTIES
    WatchersEnd
    FollowersFollow
    StopEnds
    OldestFirst
    TrimKeepsLatest
CHECK_DEADLOCK FALSE
