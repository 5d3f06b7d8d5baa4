\* One monitor and its _RttMonitor; they end when they are closed.
SPECIFICATION Spec
CONSTANTS
    Stream = TRUE
CHECK_DEADLOCK FALSE
INVARIANTS OneThread RttKnown CancelHeard RttSocketClosed
PROPERTIES ThreadsEnd WakeHeard
