SPECIFICATION FairSpec
CONSTANTS
    Adapters = {a1}
    Devices = {d1}
    Paths = {p1}
    Proxies = {x1, x2}
    Threads = {t1}
    Apps = {u1}
    Failures = {"connect"}
    PairedClose = TRUE
    MaxOpens = 1
    MaxTimers = 1
    NoAdapter = NoAdapter
    NoDevice = NoDevice
    NoPath = NoPath
    NoProxy = NoProxy
PROPERTY
    DisconnectionCompletes
