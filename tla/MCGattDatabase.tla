--------------------------- MODULE MCGattDatabase ---------------------------
(* Instances of GattDatabase for TLC. *)
EXTENDS GattDatabase, TLC

CONSTANTS d1, d2

\* The halves are 0x2A19, 0x2902, 0xEF68 and another.
MCHalf == {0, 7, 10498, 10777, 61288}
MCBases == {BluetoothBase, GattlibBase}

LongForm(low) == [form |-> "long", value |-> <<0, low, BluetoothBase>>]
Vendor(low) == [form |-> "long", value |-> <<61288, low, GattlibBase>>]

Service(d, h, uuid, primary) ==
    [interface |-> "GattService1", device |-> d, service |-> h, handle |-> h, uuid |-> uuid, primary |-> primary]
Characteristic(d, s, h, uuid) ==
    [interface |-> "GattCharacteristic1", device |-> d, service |-> s, handle |-> h, uuid |-> uuid, primary |-> FALSE]
BatteryOf(d) ==
    [interface |-> "Battery1", device |-> d, service |-> 0, handle |-> 0, uuid |-> LongForm(0), primary |-> FALSE]

\* Two services, a battery, and a device that has the same handles and UUIDs.
MCGatt ==
    << Service(d1, 1, LongForm(7), TRUE), Characteristic(d1, 1, 2, Vendor(7)),
       Characteristic(d1, 1, 3, LongForm(10777)), Service(d1, 4, Vendor(0), TRUE),
       Service(d2, 1, LongForm(7), TRUE), Characteristic(d2, 1, 2, LongForm(10777)) >>
MCObjects == ToSet(MCGatt) \cup {BatteryOf(d1)}

Permuted(seq) == {[i \in DOMAIN seq |-> seq[p[i]]] : p \in Permutations(DOMAIN seq)}

\* Any order of the services and characteristics, after the battery: the search
\* of the level of the battery goes past it.
MCOrders == {<<BatteryOf(d1)>> \o order : order \in Permuted(MCGatt)}

MCWanted == {Short(10777), Short(10498),
             [type |-> "SDP_UUID128", value |-> <<61288, 7, GattlibBase>>]}
MCRanges == {<<0, 255>>, <<3, 4>>}

\* Instances of what the repository says.
MCFarHandle == <<Service(d1, 255, LongForm(7), TRUE), Characteristic(d1, 255, 256, LongForm(10777))>>
MCFarObjects == ToSet(MCFarHandle)
MCFarOrders == Permuted(MCFarHandle)

MCTwoBatteries == <<BatteryOf(d1), BatteryOf(d2)>>
MCBatteries == ToSet(MCTwoBatteries)
MCBatteryOrders == Permuted(MCTwoBatteries)

MCTwins == <<Service(d1, 1, LongForm(7), TRUE), Service(d1, 4, LongForm(7), TRUE)>>
MCTwinServices == ToSet(MCTwins)
MCTwinOrders == Permuted(MCTwins)

\* The vendor UUID is the long form of 7 in the base of gattlib.
MCCollision == <<Service(d1, 1, LongForm(7), TRUE), Characteristic(d1, 1, 2, LongForm(7)), Characteristic(d1, 1, 3, Vendor(7))>>
MCCollisionObjects == ToSet(MCCollision)
MCCollisionOrders == Permuted(MCCollision)

MCLongForms == {[type |-> "SDP_UUID128", value |-> <<0, 10777, BluetoothBase>>]}
=============================================================================
