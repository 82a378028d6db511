SPECIFICATION FairSpec
CONSTANTS
    Scanners = {u1}
    Aborters = {v1, v2}
    Threads = {t1}
    Contexts = {c1, c2}
    OwnLoop = FALSE
    Failures = {"enable", "start_discovery", "scan_thread"}
    NoContext = NoContext
    Nobody = Nobody
INVARIANTS
    TypeOK
    FlagHasScan
    NoContextLeft
    FoundIfSuccess
PROPERTY
    ScanReturns
CHECK_DEADLOCK FALSE
