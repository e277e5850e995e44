CONSTANTS
    BlocksPerPage = 2
    MaxFreePages = 3
    MaxPages = 2
    MayFail = TRUE
SPECIFICATION Spec
CHECK_DEADLOCK FALSE
INVARIANTS
    BlocksOfPages
