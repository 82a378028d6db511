---------------------------- MODULE GattDatabase ----------------------------
(***************************************************************************)
(* The GATT database of a connected device, as dbus/gattlib.c and          *)
(* dbus/gattlib_char.c rebuild it from the objects of BlueZ: the discovery *)
(* of services and characteristics, and the search of the characteristic   *)
(* that a read or a write names by its UUID or its handle.                 *)
(*                                                                         *)
(* The connection keeps the list of the objects of all the devices as it   *)
(* was when the services were resolved, in no particular order; an object  *)
(* that BlueZ has removed since is skipped.  A proxy that cannot be opened *)
(* is skipped too: each call is given the objects whose proxies fail.      *)
(***************************************************************************)
EXTENDS Uuid, Sequences, SequencesExt, FiniteSets, FiniteSetsExt

CONSTANTS
    Objects,      \* the objects that BlueZ may export
    Orders,       \* the orders in which it may list them
    Device,       \* the device of the connection
    Ranges,       \* the ranges of handles that the application asks for
    Wanted,       \* the UUIDs it looks for
    Handles,      \* the handles it looks for
    BatteryLevel, ClientConfiguration,  \* 0x2A19 and 0x2902
    MaxMissing    \* bound: the objects removed during a connection and the proxies
                  \* that fail in a call

Interfaces == {"GattService1", "GattCharacteristic1", "Battery1"}

\* BlueZ's object: /.../dev_<device>/service<service>/char<handle>, and in the
\* properties of a service or a characteristic its UUID.  The battery of a
\* device has the path of the device.
IsObject(o) ==
    /\ o.interface \in Interfaces
    /\ o.service \in Nat /\ o.handle \in Nat
    /\ o.uuid \in Text
    /\ o.primary \in BOOLEAN
    /\ o.interface = "GattService1" => o.service = o.handle

\* The handles of a device: each is used once, and the characteristics of a
\* service come after it and before the next service.
Layout ==
    /\ \A o, p \in Objects :
          o.device = p.device /\ "Battery1" \notin {o.interface, p.interface} =>
              /\ o.handle = p.handle => o = p
              /\ o.interface = "GattCharacteristic1" =>
                    o.handle > o.service /\ ~(o.service < p.service /\ p.service <= o.handle)
    /\ \A c \in Objects : c.interface = "GattCharacteristic1" =>
          \E s \in Objects : s.interface = "GattService1" /\ c.device = s.device /\ c.service = s.service

ASSUME DatabaseAssumption ==
    /\ \A o \in Objects : IsObject(o)
    /\ Layout
    /\ Wanted \subseteq Specified
    /\ BatteryLevel \in Half /\ ClientConfiguration \in Half
    /\ Ranges \subseteq Nat \X Nat
    /\ \A order \in Orders : order \in Seq(Objects) /\ ToSet(order) = Objects /\ IsInjective(order)
    /\ MaxMissing \in Nat

VARIABLES
    exported,      \* the objects that BlueZ exports
    connected,
    dbus_objects,  \* connection->backend.dbus_objects
    answer         \* what the last call has returned

vars == <<exported, connected, dbus_objects, answer>>

Short(low) == [type |-> "SDP_UUID16", value |-> <<low>>]

NoAnswer == [call |-> "none"]

NoList == [state |-> "NULL", objects |-> <<>>]

IsService(o) == o.interface = "GattService1"
IsCharacteristic(o) == o.interface = "GattCharacteristic1"
IsBattery(o) == o.interface = "Battery1"

\* strncmp of their paths, and GattCharacteristic1.Service.
BelongsTo(o, s) == o.device = s.device /\ o.service = s.service

ServiceOf(c) == CHOOSE s \in Objects : IsService(s) /\ BelongsTo(c, s)

\* What BlueZ exports: a characteristic with its service.
Exportable(set) == \A c \in set : IsCharacteristic(c) => ServiceOf(c) \in set

Init ==
    /\ exported \in {set \in SUBSET Objects : Exportable(set)}
    /\ connected = FALSE
    /\ dbus_objects = NoList
    /\ answer = NoAnswer

-----------------------------------------------------------------------------
\* The elements of a list that pass the test of a loop over it, in their order.
Filtered(list, set) ==
    LET passed[i \in 0..Len(list)] ==
            IF i = 0 THEN <<>>
            ELSE IF list[i] \in set THEN Append(passed[i - 1], list[i]) ELSE passed[i - 1]
    IN  passed[Len(list)]

\* The objects of the list that BlueZ still exports.
Listed == Filtered(dbus_objects.objects, exported)

\* The characteristics of a service.
CharacteristicsOf(s) == {c \in Objects : IsCharacteristic(c) /\ BelongsTo(c, s)}

\* Faulty range that takes the last characteristic of the list for the end.
RangeEndsAtLast(s) ==
    LET characteristics == Filtered(Listed, CharacteristicsOf(s)) IN
    IF characteristics = <<>> THEN s.handle ELSE Last(characteristics).handle

\* attr_handle_end of a service.
HandleEnd(s) ==
    Max({s.handle} \cup {c.handle : c \in ToSet(Listed) \cap CharacteristicsOf(s)})

discover_primary(failed) ==
    LET services == Filtered(Listed, {s \in Objects : IsService(s) /\ s \notin failed /\ s.device = Device /\ s.primary})
    IN  [i \in DOMAIN services |->
            [attr_handle_start |-> services[i].handle, attr_handle_end |-> HandleEnd(services[i]),
             uuid |-> gattlib_string_to_uuid(services[i].uuid)]]

\* The characteristic made up for the battery of a device.
BatteryCharacteristic ==
    [handle |-> 0, uuid |-> gattlib_string_to_uuid([form |-> "long", value |-> <<0, BatteryLevel, BluetoothBase>>])]

\* A characteristic in the answer of a discovery.
Entry(c) == [handle |-> c.handle, uuid |-> gattlib_string_to_uuid(c.uuid)]

\* Faulty filter that forgets which service a characteristic is of.
AddsOfAnyService(s, start, end, failed) ==
    LET added == Filtered(Listed, {c \in Objects : IsCharacteristic(c) /\ c \notin failed
                                                    /\ start <= c.handle /\ c.handle <= end})
    IN  [i \in DOMAIN added |-> Entry(added[i])]

add_characteristics_from_service(s, start, end, failed) ==
    LET added == Filtered(Listed, {c \in CharacteristicsOf(s) \ failed : start <= c.handle /\ c.handle <= end})
    IN  [i \in DOMAIN added |-> Entry(added[i])]

\* What one object of the list adds to the answer.
EntriesOf(o, start, end, failed) ==
    CASE IsBattery(o) -> <<BatteryCharacteristic>>
      [] IsService(o) /\ o \notin failed /\ o.device = Device ->
            add_characteristics_from_service(o, start, end, failed)
      [] OTHER -> <<>>

discover_char_range(start, end, failed) ==
    FlattenSeq([i \in DOMAIN Listed |-> EntriesOf(Listed[i], start, end, failed)])

gattlib_discover_char(failed) == discover_char_range(0, 255, failed)

-----------------------------------------------------------------------------
\* The search of a characteristic: the object to use and what it is.
None == [type |-> "TYPE_NONE", object |-> {}]

Gatt(o) == [type |-> "TYPE_GATT", object |-> {o}]

Battery(o) == [type |-> "TYPE_BATTERY_LEVEL", object |-> {o}]

\* Faulty test that any device passes.
UsableOnAnyDevice(c, failed) == {c, ServiceOf(c)} \cap failed = {}

\* handle_dbus_gattcharacteristic_from_path, after the comparison of UUIDs.
IsUsable(c, failed) == {c, ServiceOf(c)} \cap failed = {} /\ ServiceOf(c).device = Device

\* A characteristic ends the search, a battery does not.
get_characteristic_from_uuid(uuid, failed) ==
    LET is_battery_level_uuid == gattlib_uuid_cmp(uuid, Short(BatteryLevel)) = 0
        found == Filtered(Listed, {c \in Objects : /\ IsCharacteristic(c)
                                                    /\ gattlib_uuid_cmp(uuid, gattlib_string_to_uuid(c.uuid)) = 0
                                                    /\ IsUsable(c, failed)})
        batteries == Filtered(Listed, {b \in Objects : IsBattery(b) /\ b \notin failed})
    IN  IF ~connected \/ gattlib_uuid_cmp(uuid, Short(ClientConfiguration)) = 0 THEN None
        ELSE IF found # <<>> THEN Gatt(Head(found))
        ELSE IF is_battery_level_uuid /\ batteries # <<>> THEN Battery(Last(batteries))
        ELSE None

\* Faulty search that gives up at the first object with the handle.
StopsAtFirstHandle(handle, failed) ==
    LET first == Filtered(Listed, {c \in Objects : IsCharacteristic(c) /\ c.handle = handle})
    IN  IF connected /\ first # <<>> /\ IsUsable(Head(first), failed) THEN Gatt(Head(first)) ELSE None

get_characteristic_from_handle(handle, failed) ==
    LET found == Filtered(Listed, {c \in Objects : IsCharacteristic(c) /\ c.handle = handle /\ IsUsable(c, failed)})
    IN  IF connected /\ found # <<>> THEN Gatt(Head(found)) ELSE None

-----------------------------------------------------------------------------
(* BlueZ and the connection                                                *)

\* BlueZ removes an object, a service with its characteristics.
BluezRemoves(o) ==
    LET removed == {o} \cup {c \in exported : IsCharacteristic(c) /\ IsService(o) /\ BelongsTo(c, o)} IN
    /\ connected
    /\ o \in exported
    /\ Cardinality(ToSet(dbus_objects.objects) \ (exported \ removed)) <= MaxMissing
    /\ exported' = exported \ removed
    /\ answer = NoAnswer
    /\ UNCHANGED <<connected, dbus_objects, answer>>

\* _on_device_connect, when the services are resolved.
Resolve ==
    /\ ~connected
    /\ connected' = TRUE
    /\ dbus_objects' \in
          {[state |-> "held", objects |-> Filtered(order, exported)] : order \in Orders}
    /\ answer = NoAnswer
    /\ UNCHANGED <<exported, answer>>

\* gattlib_connection_free, which does not forget the list that it frees.
Disconnect ==
    /\ connected
    /\ connected' = FALSE
    /\ dbus_objects' = [state |-> "freed", objects |-> <<>>]
    /\ answer = NoAnswer
    /\ UNCHANGED <<exported, answer>>

-----------------------------------------------------------------------------
(* The calls of the application, each with the proxies that cannot be      *)
(* created in it; one that is created has the properties of its object.    *)

Failed ==
    LET removed == ToSet(dbus_objects.objects) \ exported IN
    {set \in SUBSET exported : Cardinality(set \cup removed) <= MaxMissing}

\* What each call returns.  A device whose connection is over is still valid for
\* the discoveries.
PrimaryAnswer(failed) ==
    [call |-> "primary", failed |-> failed, defined |-> dbus_objects.state # "freed",
     services |-> discover_primary(failed)]

\* The GError of the first characteristic that fails is freed and used again by
\* the second one (gattlib.c:870).
CharRangeAnswer(start, end, failed) ==
    [call |-> "char_range", failed |-> failed,
     defined |-> dbus_objects.state # "freed" /\ Cardinality({c \in failed : IsCharacteristic(c)}) <= 1,
     start |-> start, end |-> end, characteristics |-> discover_char_range(start, end, failed)]

ReadAnswer(uuid, failed) ==
    LET found == get_characteristic_from_uuid(uuid, failed) IN
    [call |-> "read", failed |-> failed, uuid |-> uuid, used |-> found,
     ret |-> IF found = None THEN "NOT_FOUND" ELSE "SUCCESS"]

\* The level of a battery cannot be written.
WriteAnswer(uuid, failed) ==
    LET found == get_characteristic_from_uuid(uuid, failed) IN
    [call |-> "write", failed |-> failed, uuid |-> uuid,
     used |-> IF found.type = "TYPE_GATT" THEN found ELSE None,
     ret |-> CASE found = None -> "NOT_FOUND"
               [] found.type = "TYPE_BATTERY_LEVEL" -> "NOT_SUPPORTED"
               [] found.type = "TYPE_GATT" -> "SUCCESS"]

WriteHandleAnswer(handle, failed) ==
    LET found == get_characteristic_from_handle(handle, failed) IN
    [call |-> "write_handle", failed |-> failed, handle |-> handle, used |-> found,
     ret |-> IF found = None THEN "NOT_FOUND" ELSE "SUCCESS"]

\* A call changes nothing but what the application has.
Call(record) ==
    /\ answer = NoAnswer
    /\ answer' = record
    /\ UNCHANGED <<exported, connected, dbus_objects>>

Return ==
    /\ answer # NoAnswer
    /\ answer' = NoAnswer
    /\ UNCHANGED <<exported, connected, dbus_objects>>

DiscoverPrimary == \E failed \in Failed : Call(PrimaryAnswer(failed))
DiscoverCharRange(start, end) == \E failed \in Failed : Call(CharRangeAnswer(start, end, failed))
ReadByUuid(uuid) == \E failed \in Failed : Call(ReadAnswer(uuid, failed))
WriteByUuid(uuid) == \E failed \in Failed : Call(WriteAnswer(uuid, failed))
WriteByHandle(handle) == \E failed \in Failed : Call(WriteHandleAnswer(handle, failed))

Next ==
    \/ \E o \in Objects : BluezRemoves(o)
    \/ Resolve \/ Disconnect
    \/ DiscoverPrimary \/ Return
    \/ \E range \in Ranges : DiscoverCharRange(range[1], range[2])
    \/ \E uuid \in Wanted : ReadByUuid(uuid) \/ WriteByUuid(uuid)
    \/ \E handle \in Handles : WriteByHandle(handle)

Spec == Init /\ [][Next]_vars

-----------------------------------------------------------------------------
(* Properties.                                                             *)

Snapshot == {o \in exported : \E i \in DOMAIN dbus_objects.objects : dbus_objects.objects[i] = o}

Entries == [handle : Nat, uuid : Specified]

Searched == {None} \cup {Gatt(o) : o \in Objects} \cup {Battery(o) : o \in Objects}

\* Types: the list has each object at most once, and what a call returns is made
\* of handles, of UUIDs that were read, and of objects.
TypeOK ==
    /\ exported \subseteq Objects /\ Exportable(exported)
    /\ connected = (dbus_objects.state = "held")
    /\ dbus_objects.state \in {"NULL", "held", "freed"}
    /\ \A i, j \in DOMAIN dbus_objects.objects : dbus_objects.objects[i] = dbus_objects.objects[j] => i = j
    /\ CASE answer.call = "none" -> TRUE
         [] answer.call = "primary" ->
                \A s \in ToSet(answer.services) : /\ s.attr_handle_start \in Nat /\ s.attr_handle_end \in Nat
                                                 /\ s.uuid \in Specified
         [] answer.call = "char_range" -> \A c \in ToSet(answer.characteristics) : c \in Entries
         [] OTHER -> answer.used \in Searched

\* The ranges of the services: gattlib_discover_primary returns each primary
\* service of this device once, whatever the order of the objects; the ranges do
\* not overlap, and a characteristic lies in the range of its service.
ServiceRanges ==
    answer.call = "primary" /\ answer.defined =>
        LET services == answer.services
            expected == {s \in Snapshot : IsService(s) /\ s.device = Device /\ s.primary /\ s \notin answer.failed}
        IN  /\ {services[i].attr_handle_start : i \in DOMAIN services} = {s.handle : s \in expected}
            /\ \A i, j \in DOMAIN services : i # j =>
                  \/ services[i].attr_handle_end < services[j].attr_handle_start
                  \/ services[j].attr_handle_end < services[i].attr_handle_start
            /\ \A c \in Snapshot : IsCharacteristic(c) /\ ServiceOf(c) \in expected =>
                  \E i \in DOMAIN services : /\ services[i].attr_handle_start = c.service
                                             /\ c.handle <= services[i].attr_handle_end

\* gattlib_discover_char_range returns each characteristic of this device, in
\* the range and with its service opened, once and with its UUID, although the
\* two loops go through the objects of all the devices.
CharacteristicsOnce ==
    answer.call = "char_range" /\ answer.defined =>
        LET entries == answer.characteristics
            expected == {c \in Snapshot : /\ IsCharacteristic(c) /\ c.device = Device
                                          /\ {c, ServiceOf(c)} \cap answer.failed = {}
                                          /\ c.handle \in answer.start .. answer.end}
        IN  /\ \A c \in expected :
                  Cardinality({i \in DOMAIN entries : entries[i].handle = c.handle}) = 1
            /\ \A i \in DOMAIN entries : entries[i] = BatteryCharacteristic
                  \/ \E c \in expected : entries[i] = Entry(c)

\* What is discovered can be used: the handle of a characteristic leads to that
\* characteristic of this device, and its UUID, printed and read again as the
\* applications do, to one that has this UUID, or to the battery.
DiscoveredIsFound ==
    answer.call = "char_range" /\ answer.defined /\ connected =>
        \A i \in DOMAIN answer.characteristics :
            LET c == answer.characteristics[i]
                uuid == gattlib_string_to_uuid(gattlib_uuid_to_string(c.uuid))
                by_handle == get_characteristic_from_handle(c.handle, {})
                by_uuid == get_characteristic_from_uuid(uuid, {})
            IN  /\ c = BatteryCharacteristic \/ \E o \in by_handle.object :
                       o.device = Device /\ gattlib_string_to_uuid(o.uuid) = c.uuid
                /\ \/ uuid = Short(ClientConfiguration)
                   \/ by_uuid.type = "TYPE_BATTERY_LEVEL" /\ uuid = Short(BatteryLevel)
                   \/ \E o \in by_uuid.object : o.device = Device /\ gattlib_string_to_uuid(o.uuid) = c.uuid

\* A write reaches a characteristic of this device that has the UUID, or the
\* handle, of the call, and no other device although their handles are the same;
\* it fails when a proxy does, rather than reach another one.
WritesToThisDevice ==
    answer.call \in {"write", "write_handle"} /\ answer.ret = "SUCCESS" =>
        /\ answer.used.type = "TYPE_GATT"
        /\ \A o \in answer.used.object :
              /\ o.device = Device /\ o \in Snapshot \ answer.failed
              /\ IF answer.call = "write_handle" THEN o.handle = answer.handle
                 ELSE gattlib_uuid_to_uuid128(gattlib_string_to_uuid(o.uuid)) = gattlib_uuid_to_uuid128(answer.uuid)

-----------------------------------------------------------------------------
(* What the repository says of the discoveries, which the code does not do. *)

\* "Function to discover GATT Characteristic" (gattlib.h:455): those of any
\* handle.  The range of gattlib_discover_char ends at 0xFF.
AllDiscovered ==
    connected => \A c \in Snapshot : IsCharacteristic(c) /\ c.device = Device =>
        \E i \in DOMAIN gattlib_discover_char({}) : gattlib_discover_char({})[i].handle = c.handle

\* "we check if it's the right device" (gattlib_char.c:54), of a battery too.
BatteryOfDevice ==
    answer.call = "read" => \A o \in answer.used.object : o.device = Device

\* GATTLIB_DEVICE_DISCONNECTED (gattlib.c:522): a discovery after the end of the
\* connection does not use its list of objects, which is freed.
DiscoveryDefined == answer.call \in {"primary", "char_range"} => answer.defined

\* "Maximum number of primary services" (gattlib.c:554), from the UUIDs of the
\* device, of which there is one for several services of the same kind.
RoomForServices ==
    Len(discover_primary({})) <= Cardinality({s.uuid : s \in {s \in exported : IsService(s) /\ s.device = Device}})

\* "Convert all UUID to UUID128 format to be compared" (gattlib_common.c:202): the
\* long form of a short UUID is found as the short one is.
LongFormFound ==
    answer.call = "read" /\ answer.failed = {} /\ is_base_uuid128([form |-> "long", value |-> answer.uuid.value]) =>
        answer.used = get_characteristic_from_uuid(Short(answer.uuid.value[2]), {})
=============================================================================
