SPECIFICATION Spec
CONSTANTS
    KangCnt = 7
    Modes = {"allwild"}
    MinJump = 4
    Hop <- MCHop
    Draw <- MCDraw
    Loops <- MCLoops
    MaxCalls = 3
    MaxDraws = 2
INVARIANTS
    AllWildLabels
CHECK_DEADLOCK FALSE
