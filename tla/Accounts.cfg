SPECIFICATION Spec
CONSTANTS
    Device = {d1}
    Email = {e1, e2}
    Weak = weak
    Password = {strong, weak}
    Nobody = Nobody
    IsValidPassword <- IsStrong
    MaxRequests = 2
    MaxFailures = 1
    MaxRestarts = 1
SYMMETRY Alike
INVARIANTS
    TypeOK
    ProfileIsOwn
    NoOrphans
    PasswordsOpenAccounts
CHECK_DEADLOCK FALSE
