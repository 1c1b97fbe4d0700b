SPECIFICATION FairSpec
CONSTANTS
    MaxMessages = 3
    MaxFailures = 1
INVARIANTS
    TypeOK
    ViewIsPrefix
    RowsHaveMessages
    IdleTableIsCurrent
    QuietChatIsComplete
PROPERTIES
    DeliveredStaysShown
CHECK_DEADLOCK FALSE
