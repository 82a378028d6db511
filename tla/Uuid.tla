-------------------------------- MODULE Uuid --------------------------------
(***************************************************************************)
(* The UUIDs of common/gattlib_common.c, and their texts, which BlueZ      *)
(* gives and dbus/bluez5/lib/uuid.c reads.                                 *)
(*                                                                         *)
(* The 128 bits are <<high, low, base>>: the two halves of the first four  *)
(* bytes, where a short UUID is written, and the twelve bytes that follow. *)
(* A short UUID has only <<low>>, or <<high, low>>.                        *)
(***************************************************************************)
EXTENDS Integers

CONSTANTS
    Half,           \* the values of 16 bits in this instance
    GattlibHigh,    \* 0xEF68, where gattlib_uuid_to_uuid128 puts a short UUID
    Bases,          \* the values of the twelve bytes that follow
    BluetoothBase,  \* 0000-1000-8000-00805f9b34fb
    GattlibBase     \* 9b35-4933-9b10-52ffa9740042

ASSUME UuidAssumption ==
    /\ 0 \in Half /\ GattlibHigh \in Half /\ GattlibHigh # 0
    /\ BluetoothBase \in Bases /\ GattlibBase \in Bases
    /\ BluetoothBase # GattlibBase

Uuid16 == [type : {"SDP_UUID16"}, value : {<<low>> : low \in Half}]

Uuid32 == [type : {"SDP_UUID32"}, value : Half \X Half]

Uuid128 == [type : {"SDP_UUID128"}, value : Half \X Half \X Bases]

Unspecified == [type |-> "SDP_UUID_UNSPEC", value |-> <<>>]

Specified == Uuid16 \cup Uuid32 \cup Uuid128

-----------------------------------------------------------------------------
\* A type that is not given is taken for a short UUID of no digits.
gattlib_uuid_to_uuid128(uuid) ==
    [type  |-> "SDP_UUID128",
     value |-> CASE uuid.type = "SDP_UUID128" -> uuid.value
                 [] uuid.type = "SDP_UUID32"  -> <<uuid.value[1], uuid.value[2], GattlibBase>>
                 [] uuid.type = "SDP_UUID16"  -> <<GattlibHigh, uuid.value[1], GattlibBase>>
                 [] OTHER                     -> <<GattlibHigh, 0, GattlibBase>>]

\* Zero when the UUIDs are the same.
gattlib_uuid_cmp(uuid1, uuid2) ==
    LET compare(a, b) == IF a = b THEN 0 ELSE 2 IN
    CASE uuid1.type # uuid2.type -> compare(gattlib_uuid_to_uuid128(uuid1), gattlib_uuid_to_uuid128(uuid2))
      [] uuid1.type = uuid2.type /\ uuid1.type # "SDP_UUID_UNSPEC" -> compare(uuid1.value, uuid2.value)
      [] OTHER -> 3

-----------------------------------------------------------------------------
\* The texts: "0x" and four or eight digits, or the long form.
Text == [form : {"four"}, value : {<<low>> : low \in Half}]
        \cup [form : {"eight"}, value : Half \X Half]
        \cup [form : {"long"}, value : Half \X Half \X Bases]

gattlib_uuid_to_string(uuid) ==
    [form |-> CASE uuid.type = "SDP_UUID16" -> "four"
                [] uuid.type = "SDP_UUID32" -> "eight"
                [] uuid.type = "SDP_UUID128" -> "long",
     value |-> uuid.value]

\* is_base_uuid128
is_base_uuid128(text) ==
    text.form = "long" /\ text.value[1] = 0 /\ text.value[3] = BluetoothBase

\* bt_string_to_uuid and bt_uuid_to_uuid
gattlib_string_to_uuid(text) ==
    CASE is_base_uuid128(text) -> [type |-> "SDP_UUID16", value |-> <<text.value[2]>>]
      [] text.form = "long" /\ ~is_base_uuid128(text) -> [type |-> "SDP_UUID128", value |-> text.value]
      [] text.form = "eight" -> [type |-> "SDP_UUID32", value |-> text.value]
      [] text.form = "four" -> [type |-> "SDP_UUID16", value |-> text.value]
=============================================================================
