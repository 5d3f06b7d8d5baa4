\* Behind a load balancer, with pins; one connection created at a time.
SPECIFICATION Spec
CONSTANTS
    t1 = t1 t2 = t2 t3 = t3 s1 = s1 s2 = s2
    Threads = {t1, t2, t3}
    Maint = Maint
    Services = {s1}
    NoService = NoService
    NoConn = NoConn
    MaxPoolSize = 3
    MinPoolSize = 0
    MaxConnecting = 1
    Timeouts = TRUE
    WaitInterrupts = FALSE
    Pins = {"txn", "cursor"}
    MaxGen = 1
    MaxOps = 3
    MaxDeaths = 0
    MaxDrift = 1
SYMMETRY ThreadSymmetry
INVARIANT ConnWakeup
