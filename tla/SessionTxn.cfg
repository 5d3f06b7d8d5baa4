\* Two operations of one session on two mongos: writes, bulk writes and transactions.
SPECIFICATION Spec
CONSTANTS
    Sessions = {s1}
    Mongos = {m1, m2}
    Sharded = TRUE
    NoMongos = NoMongos
    MaxAdaptive = 2
    Kinds = {"write", "many", "txn", "with"}
    Requests <- SomeRequests
    Timeouts = {FALSE}
    MaxItems = 3
    MaxBatch = 1
    MaxRetries = 2
    MaxLsids = 3
    MaxOps = 2
    MaxCommits = 2
    MaxExpired = 0
    MaxForks = 0
INVARIANTS AtMostOnce HonestError BulkExact StartExact CommittedOnce CallCompleted
CHECK_DEADLOCK FALSE
