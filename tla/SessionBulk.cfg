\* A bulk write of an insert and an update.
SPECIFICATION Spec
CONSTANTS
    Sessions = {s1}
    Mongos = {m1, m2}
    Sharded = TRUE
    NoMongos = NoMongos
    MaxAdaptive = 2
    Kinds = {}
    Requests <- TwoRuns
    Timeouts = {FALSE}
    MaxItems = 3
    MaxBatch = 1
    MaxRetries = 2
    MaxLsids = 3
    MaxOps = 1
    MaxCommits = 2
    MaxExpired = 0
    MaxForks = 0
INVARIANTS BulkAttempted
CHECK_DEADLOCK FALSE
