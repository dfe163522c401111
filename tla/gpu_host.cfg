SPECIFICATION FairSpec
CONSTANTS
    KangCnt = 7
    Modes = {"trap", "concurrent"}
    MinJump = 4
    Hop <- MCHop
    Draw <- MCDraw
    Loops <- MCLoops
    MaxCalls = 2
    MaxDraws = 3
INVARIANTS
    HostTypeOK
    PointsTrue
    DPsRight
    TrapFilesTames
    NoUseAfterRelease
PROPERTY
    Shutdown
CHECK_DEADLOCK FALSE
