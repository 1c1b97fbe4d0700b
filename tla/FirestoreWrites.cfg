SPECIFICATION FairSpec
CONSTANTS
    Account = {a1}
    SignedOut = SignedOut
    MaxPendingWrites = 2
    MaxWrites = 3
    MaxEvents = 2
INVARIANTS
    TypeOK
    OwnersToken
    AssertionsHold
PROPERTIES
    IsWriteQueue
    WritesDrain
CHECK_DEADLOCK FALSE
