SPECIFICATION Spec
CONSTANTS
    Inds <- MCInds
    J1 <- MCJ1
    J2 <- MCJ2
    J3 <- MCJ3
    HashOf <- MCHashOf
    StepCnt = 18
    MdLen = 6
    DpTableMax = 3
    MaxDp = 3
    MaxCalls = 2
    MaxOthers = 1
    NoDist = NoDist
INVARIANTS
    Consistent
    DeliveredTrue
    LoopsNoticed
CHECK_DEADLOCK FALSE
