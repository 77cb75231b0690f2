SPECIFICATION ConfigSpec
CONSTANTS
    Reqs = {r1, r2}
    Tokens = {t1}
    Nobody = nobody
    MaxReqs = 4
    MaxFaults = 0
INVARIANTS
    SingleUse
CHECK_DEADLOCK FALSE
