SPECIFICATION Spec
CONSTANTS
    Contacts = 3
    Cell = {c1, c2, c3}
    Fits = 2
    MaxForms = 1
    MaxCalls = 2
    MaxFailures = 1
SYMMETRY Cells
INVARIANTS
    CellIsThere
CHECK_DEADLOCK FALSE
