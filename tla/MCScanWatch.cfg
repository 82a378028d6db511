SPECIFICATION Spec
CONSTANTS
    Apps = {u1, u2}
    Loops = {l1, l2, l3}
    MainLoop = MainLoop
    Calls = {"blocking", "non_blocking", "disable", "wait"}
    Timeouts = {TRUE}
    Failures = {"stop"}
    Spurious = TRUE
    Nobody = Nobody
    NoTimer = NoTimer
SYMMETRY Symmetry
CHECK_DEADLOCK FALSE
INVARIANT
    WaitersWillBeWoken
    TimeoutArmed
    ScanIsWatched
