SPECIFICATION FairSpec
CONSTANTS
    Person = {ann, bob}
    Group = {crew}
    MaxNow = 3
    MaxChats = 1
    MaxFaults = 1
INVARIANTS
    TypeOK
    RowsFollowMessages
    LastStampWins
    MemberSeesGroup
    GroupIsDocumented
PROPERTIES
    MessageReachesRecipient
    FanOutArrives
CHECK_DEADLOCK FALSE
