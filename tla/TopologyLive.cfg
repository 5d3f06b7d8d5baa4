\* A primary h1 whose host list may lack h2; one application thread.
CONSTANTS
    h1 = h1
    h2 = h2
    rs = rs
    Address = {h1, h2}
    SetName = {rs}
    NoName = NoName
    NoAddress = NoAddress
    SeedCount = 1
    SrvMaxHosts = 0
    Seeds = {h1}
    Direct = FALSE
    ReplicaSetName = rs
    Threads = {t1}
    Replies <- MCReplies
    ErrorVersions <- NoVersions
    Seedlists = {}
    PublishTopology = FALSE
    MaxServers = 2
    MaxFailures = 1
    MaxOps = 1
SPECIFICATION FairSpec

PROPERTY Recovers
CHECK_DEADLOCK FALSE
