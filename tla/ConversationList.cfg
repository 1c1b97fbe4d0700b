SPECIFICATION FairSpec
CONSTANTS
    Account = {a1, a2}
    NoAccount = NoAccount
    Registering = TRUE
    MaxRows = 2
    MaxRequests = 1
    MaxFetches = 3
    MaxReloads = 2
INVARIANTS
    TypeOK
    ListensWhileShown
    ListensToOwnRows
    QuietListIsCurrent
PROPERTIES
    RowsGetListed
