CONSTANTS
    a = a
    b = b
    c = c
    rs = rs
    other = other
    Address = {a, b, c}
    SetName = {rs, other}
    NoName = NoName
    NoAddress = NoAddress
    SeedCount = 2
    SrvMaxHosts = 2
    Seeds = {a, b}
    Direct = FALSE
    ReplicaSetName = NoName
    Wires = {"yes"}
    Versions = {0, 1, 2}
    Hellos <- MCHellos
    TopologyVersions <- TwoVersions
    ErrorVersions <- TwoVersions
SPECIFICATION Spec
INVARIANTS OnePrimary PrimaryTyped Membership SrvHostsBound
PROPERTIES ElectionsForward TopologyVersionsForward
CHECK_DEADLOCK FALSE
