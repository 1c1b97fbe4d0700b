SPECIFICATION Spec
CONSTANTS
    MaxTexts = 3
    MaxPictures = 3
    MaxTaps = 4
    MaxFailures = 1
INVARIANTS TypeOK TextCarriedOnce
PROPERTIES KeepsPromise
CHECK_DEADLOCK FALSE
