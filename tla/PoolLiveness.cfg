\* Two threads and the background thread share two connections, with a wait
\* queue timeout and waits that may be interrupted.
SPECIFICATION FairSpec
CONSTANTS
    t1 = t1 t2 = t2 t3 = t3 s1 = s1 s2 = s2
    Threads = {t1, t2}
    Maint = Maint
    Services = {}
    NoService = NoService
    NoConn = NoConn
    MaxPoolSize = 2
    MinPoolSize = 1
    MaxConnecting = 1
    Timeouts = TRUE
    WaitInterrupts = TRUE
    Pins = {}
    MaxGen = 1
    MaxOps = 3
    MaxDeaths = 0
    MaxDrift = 1
INVARIANT CountersExact
PROPERTY CheckoutEnds
