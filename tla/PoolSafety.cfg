\* Three threads compete for two connections; the background thread keeps one.
SPECIFICATION Spec
CONSTANTS
    t1 = t1 t2 = t2 t3 = t3 s1 = s1 s2 = s2
    Threads = {t1, t2, t3}
    Maint = Maint
    Services = {}
    NoService = NoService
    NoConn = NoConn
    MaxPoolSize = 2
    MinPoolSize = 1
    MaxConnecting = 1
    Timeouts = TRUE
    WaitInterrupts = FALSE
    Pins = {}
    MaxGen = 1
    MaxOps = 4
    MaxDeaths = 1
    MaxDrift = 1
SYMMETRY ThreadSymmetry
INVARIANTS PoolSizeBound ConnectingBound PooledUsable SizeWakeup
