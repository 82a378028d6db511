SPECIFICATION FairSpec
CONSTANTS
    Managers = {m1}
    Loops = {l1, l2}
    Glibs = {g1, g2, g3}
    Apps = {u1, u2}
    Failures = {"new", "thread", "start_timeout", "stop_timeout", "join_timeout", "destructor_timeout"}
    NoLoop = NoLoop
    NoThread = NoThread
    Nobody = Nobody
INVARIANT
    TypeOK
    RunningLoopAlive
    NothingLeftBehind
    ThreadSlotFree
PROPERTY
    LoopLifetime
    CallsReturn
CHECK_DEADLOCK FALSE
