SPECIFICATION Spec
CONSTANTS
    d1 = d1
    d2 = d2
    BluetoothBase = BluetoothBase
    GattlibBase = GattlibBase
    Half <- MCHalf
    GattlibHigh = 61288
    Bases <- MCBases
    Objects <- MCObjects
    Orders <- MCOrders
    Device = d1
    Ranges <- MCRanges
    Wanted <- MCWanted
    Handles = {2}
    BatteryLevel = 10777
    ClientConfiguration = 10498
    MaxMissing = 1
INVARIANTS
    ServiceRanges
    CharacteristicsOnce
    DiscoveredIsFound
    WritesToThisDevice
