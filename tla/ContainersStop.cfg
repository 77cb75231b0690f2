SPECIFICATION Spec
CONSTANTS
    Names = {n1}
    Ids = {n1}
    IdMaps <- OwnIDs
    i1 = i1
    i2 = i2
    other = other
    Images = {i1, i2}
    Nodes = {self, other}
    Bodies <- AlwaysBody
    Self = self
    NoNode = nonode
    Handlers = {h1}
    Rec = rec
    Absent = absent
    SubCap = 1
    GenMod = 8
    MaxOps = 3
    MaxFaults = 0
INVARIANTS
    StopIsTerminal
