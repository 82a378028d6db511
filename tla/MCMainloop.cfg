SPECIFICATION FairSpec
CONSTANTS
    Loops = {l1, l2}
    Callers = {u1, u2}
    Failures = {"thread"}
    NoLoop = NoLoop
INVARIANT
    TaskOutlived
    LoopNotLeft
PROPERTY
    MainloopReturns
CHECK_DEADLOCK FALSE
