SPECIFICATION Spec
CONSTANTS
    Apps = {u1, u2}
    Loops = {l1, l2}
    MainLoop = MainLoop
    Calls = {"blocking", "non_blocking", "disable", "close"}
    Timeouts = {TRUE, FALSE}
    Failures = {"start", "stop", "thread"}
    Spurious = TRUE
    Nobody = Nobody
    NoTimer = NoTimer
SYMMETRY Symmetry
CHECK_DEADLOCK FALSE
INVARIANT
    TypeOK
    TimeoutIdLive
