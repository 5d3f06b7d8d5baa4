\* Two sessions share three server sessions; one times out, one fork.
SPECIFICATION Spec
CONSTANTS
    Sessions = {s1, s2}
    Mongos = {m1}
    Sharded = FALSE
    NoMongos = NoMongos
    MaxAdaptive = 2
    Requests <- NoRequests
    Timeouts = {FALSE, TRUE}
    MaxItems = 1
    MaxBatch = 1
    MaxRetries = 2
    Kinds = {"write", "many"}
    MaxLsids = 3
    MaxOps = 2
    MaxCommits = 2
    MaxExpired = 1
    MaxForks = 1
SYMMETRY SessionSymmetry
INVARIANTS Exclusive PoolClean NumberUnique
CHECK_DEADLOCK FALSE
