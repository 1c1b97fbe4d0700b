SPECIFICATION Spec
CONSTANTS
    Account = {a1, a2}
    NoAccount = NoAccount
    Registering = TRUE
    MaxRows = 1
    MaxRequests = 1
    MaxFetches = 2
    MaxReloads = 1

INVARIANTS CollectionViewIsThere
