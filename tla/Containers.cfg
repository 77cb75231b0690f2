SPECIFICATION FairSpec
CONSTANTS
    Names = {n1, n2}
    Ids = {n1, n2}
    IdMaps <- OwnOrShared
    i1 = i1
    i2 = i2
    other = other
    Images = {i1, i2}
    Nodes = {self, other}
    Bodies <- AnyBody
    Self = self
    NoNode = nonode
    Handlers = {h1}
    Rec = rec
    Absent = absent
    SubCap = 1
    GenMod = 8
    MaxOps = 2
    MaxFaults = 1
INVARIANTS
    Provenance
    StopHasAReason
PROPERTIES
    EventuallyQuiet
    EventuallySettled
    NeverPolicyHonest
