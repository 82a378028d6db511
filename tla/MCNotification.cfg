SPECIFICATION NotificationSpec
CONSTANTS
    Adapters = {a1}
    Devices = {d1}
    Paths = {p1}
    Proxies = {x1, x2}
    Threads = {}
    Apps = {u1}
    Failures = {"thread"}
    PairedClose = TRUE
    MaxOpens = 1
    MaxTimers = 1
    NoAdapter = NoAdapter
    NoDevice = NoDevice
    NoPath = NoPath
    NoProxy = NoProxy
    Uuids = {c1}
    Batteries = {c1}
    Signals = {s1, s2}
    Pools = {q1, q2}
    MaxQueue = 1
    NoPool = NoPool
    NoUuid = NoUuid
SYMMETRY Symmetry
CONSTRAINT ScansEndAtOnce
INVARIANT
    NotificationTypeOK
    NotifiedAreAttached
    NotificationsWillEnd
