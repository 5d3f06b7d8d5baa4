\* One read at a time in a replica set of up to three members, or on two mongos.
SPECIFICATION Spec
CONSTANTS
    Threads = {t1}
    Descriptions <- AllDescriptions
    Preferences <- AllPreferences
    HeartbeatFrequency = 1
    LocalThreshold = 1
    MaxAdaptive = 2
    Retargeting = TRUE
    MaxChanges = 5
INVARIANT NoMissedServer
PROPERTIES SelectionSound DeprioritizedLast
