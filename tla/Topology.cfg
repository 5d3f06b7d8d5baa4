\* A primary h1 whose host list may lack h2; one application thread.
CONSTANTS
    h1 = h1
    h2 = h2
    rs = rs
    Address = {h1, h2}
    SetName = {rs}
    NoName = NoName
    NoAddress = NoAddress
    SeedCount = 1
    SrvMaxHosts = 0
    Seeds = {h1}
    Direct = FALSE
    ReplicaSetName = NoName
    Threads = {t1}
    Replies <- MCReplies
    ErrorVersions <- MCErrorVersions
    Seedlists <- MCSeedlists
    PublishTopology = TRUE
    MaxServers = 2
    MaxFailures = 2
    MaxOps = 2
SPECIFICATION Spec
INVARIANTS Synced NoOrphans FirstPoolReady
PROPERTY RefinesSdam
CHECK_DEADLOCK FALSE
