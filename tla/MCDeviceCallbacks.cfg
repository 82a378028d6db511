SPECIFICATION Spec
CONSTANTS
    Adapters = {a1}
    Devices = {d1}
    Paths = {p1}
    Proxies = {x1}
    Threads = {t1, t2}
    Apps = {u1, u2}
    Failures = {"adapter", "proxy", "connect", "thread"}
    PairedClose = TRUE
    MaxOpens = 2
    MaxTimers = 1
    NoAdapter = NoAdapter
    NoDevice = NoDevice
    NoPath = NoPath
    NoProxy = NoProxy
SYMMETRY Symmetry
INVARIANT
    TypeOK
    AdapterRefCount
    CallbackAdapterAlive
    DevicesHaveManager

PROPERTY
    AdapterLifetime
