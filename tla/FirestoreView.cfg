SPECIFICATION FairSpec
CONSTANTS
    Key = {k1, k2}
    Listener = {l1, l2}
    MaxWrites = 2
    MaxVersion = 3
    MaxEvents = 1
    LeaveDuringReset = FALSE
    DeleteDuringWrite = FALSE
INVARIANTS
    TypeOK
    ListenersSeeStore
    SyncedIsServers
PROPERTIES
    NoFlicker
    ListenersCatchUp
CHECK_DEADLOCK FALSE
