---------------------------- MODULE Notification ----------------------------
(***************************************************************************)
(* GATT notifications and indications, over the connections of             *)
(* GattlibDevice: dbus/gattlib_notification.c and the thread pools of      *)
(* common/gattlib_callback_notification_device.c.                          *)
(*                                                                         *)
(* A connection remembers, for each started characteristic, the id of the  *)
(* signal handler that listens to its values.  The main loop pushes every  *)
(* value to a thread pool of one thread, which calls the application.      *)
(* Handlers and pools outlive the connection they were registered for, and *)
(* a pool outlives the memory of its device.                               *)
(***************************************************************************)
EXTENDS GattlibDevice, Sequences

CONSTANTS
    Uuids,        \* the characteristics
    Batteries,    \* those BlueZ may show as org.bluez.Battery1
    Signals,      \* ids of the signal handlers of characteristics
    Pools,        \* thread pools, which are never freed
    MaxQueue,     \* bound on the values that wait in a pool
    NoPool, NoUuid

ASSUME NotificationAssumption ==
    /\ Batteries \subseteq Uuids
    /\ MaxQueue \in Nat
    /\ NoPool \notin Pools
    /\ NoUuid \notin Uuids

VARIABLES
    notification,  \* connection->notification: whether it is set, and its pool
    indication,    \* connection->indication
    notified,      \* backend.notified_characteristics
    signals,       \* the attached signal handlers of characteristics
    pools          \* the thread pools, with their queues

notificationVars == <<notification, indication, notified, signals, pools>>

-----------------------------------------------------------------------------
Kinds == {"notification", "indication"}

HandlerRecord == [callback : BOOLEAN, pool : Pools \cup {NoPool}]

NoHandler == [callback |-> FALSE, pool |-> NoPool]

\* struct gattlib_notification_handle
Entry == [uuid : Uuids, signal : Signals]

\* 'kind' is the callback of the handler, 'dev' its user data.
SignalRecord ==
    [kind : Kinds \cup {"none", "battery"}, dev : Devices \cup {NoDevice},
     uuid : Uuids \cup {NoUuid}]

Unattached == [kind |-> "none", dev |-> NoDevice, uuid |-> NoUuid]

\* What the pool's thread is given: the connection, and the kind of the value.
Argument == [dev : Devices, kind : Kinds]

\* 'dev' and 'kind' designate the handler that is the pool's user data.
PoolRecord == [dev : Devices \cup {NoDevice}, kind : Kinds, queue : Seq(Argument)]

NotificationInit ==
    /\ Init
    /\ notification = [d \in Devices |-> NoHandler]
    /\ indication = [d \in Devices |-> NoHandler]
    /\ notified = [d \in Devices |-> <<>>]
    /\ signals = [s \in Signals |-> Unattached]
    /\ pools = [p \in Pools |-> [dev |-> NoDevice, kind |-> "notification", queue |-> <<>>]]

\* g_signal_handler_disconnect of the handlers of S.
Detach(S) == [s \in Signals |-> IF s \in S THEN Unattached ELSE signals[s]]

SignalsOf(entries) == {entries[i].signal : i \in DOMAIN entries}

-----------------------------------------------------------------------------
(* The application.                                                        *)

\* Faulty registration that gives every pool the handler of the notifications.
RegisteredAsNotification(d, kind, p) ==
    pools' = [pools EXCEPT ![p] = [dev |-> d, kind |-> "notification", queue |-> <<>>]]

\* gattlib_register_notification and gattlib_register_indication replace the
\* handler and its pool; the pool that was there keeps its values.
Registered(d, kind, p) ==
    pools' = [pools EXCEPT ![p] = [dev |-> d, kind |-> kind, queue |-> <<>>]]

RegisterNotification(d, p) ==
    /\ gattlib_connection_is_valid(d)
    /\ pools[p].dev = NoDevice
    /\ notification' = [notification EXCEPT ![d] = [callback |-> TRUE, pool |-> p]]
    /\ Registered(d, "notification", p)
    /\ UNCHANGED <<vars, indication, notified, signals>>

RegisterIndication(d, p) ==
    /\ gattlib_connection_is_valid(d)
    /\ pools[p].dev = NoDevice
    /\ indication' = [indication EXCEPT ![d] = [callback |-> TRUE, pool |-> p]]
    /\ Registered(d, "indication", p)
    /\ UNCHANGED <<vars, notification, notified, signals>>

\* get_characteristic_from_uuid, for one the device has: the first object that
\* BlueZ shows as a characteristic or, when there is none, as a battery.
get_characteristic_from_uuid(uuid) ==
    {"TYPE_GATT"} \cup (IF uuid \in Batteries THEN {"TYPE_BATTERY_LEVEL"} ELSE {})

\* gattlib_notification_start and gattlib_indication_start: a battery is
\* listened to but not remembered.  A failing StartNotify leaves the same state
\* as a successful one.
connect_signal_to_characteristic_uuid(d, uuid, kind) ==
    /\ gattlib_connection_is_connected(d)
    /\ \E s \in Signals, type \in get_characteristic_from_uuid(uuid) :
        /\ signals[s] = Unattached
        /\ \/ /\ type = "TYPE_GATT"
              /\ signals' = [signals EXCEPT ![s] = [kind |-> kind, dev |-> d, uuid |-> uuid]]
              /\ notified' = [notified EXCEPT ![d] = Append(@, [uuid |-> uuid, signal |-> s])]
           \/ /\ type = "TYPE_BATTERY_LEVEL"
              /\ signals' = [signals EXCEPT ![s] = [kind |-> "battery", dev |-> d, uuid |-> uuid]]
              /\ UNCHANGED notified
    /\ UNCHANGED <<vars, notification, indication, pools>>

\* The first entry of the list with this UUID, whatever its kind.
IsFirst(d, i, uuid) ==
    /\ notified[d][i].uuid = uuid
    /\ \A j \in 1 .. i - 1 : notified[d][j].uuid # uuid

\* Faulty stop that disconnects the handler and leaves its entry in the list.
StopKeepsEntry(d, uuid) ==
    /\ gattlib_connection_is_connected(d)
    /\ \E i \in DOMAIN notified[d] :
          /\ IsFirst(d, i, uuid)
          /\ signals' = Detach({notified[d][i].signal})
    /\ UNCHANGED <<vars, notification, indication, notified, pools>>

\* gattlib_notification_stop and gattlib_indication_stop, which are the same
\* function; a failing StopNotify changes nothing more.
disconnect_signal_to_characteristic_uuid(d, uuid) ==
    /\ gattlib_connection_is_connected(d)
    /\ \E i \in DOMAIN notified[d] :
          /\ IsFirst(d, i, uuid)
          /\ signals' = Detach({notified[d][i].signal})
          /\ notified' = [notified EXCEPT ![d] =
                            SubSeq(@, 1, i - 1) \o SubSeq(@, i + 1, Len(@))]
    /\ UNCHANGED <<vars, notification, indication, pools>>

-----------------------------------------------------------------------------
(* Values.                                                                 *)

\* gattlib_on_gatt_notification: the pool is that of the notifications, also
\* for an indication.
gattlib_on_gatt_notification(d, kind) ==
    LET p == notification[d].pool IN
    /\ p # NoPool
    /\ Len(pools[p].queue) < MaxQueue
    /\ pools' = [pools EXCEPT ![p].queue = Append(@, [dev |-> d, kind |-> kind])]

\* on_handle_characteristic_property_change, and the same for a battery.
OnNotification(s) ==
    LET d == signals[s].dev IN
    /\ signals[s].kind \in {"notification", "battery"}
    /\ gattlib_connection_is_connected(d)
    /\ notification[d].callback
    /\ gattlib_on_gatt_notification(d, "notification")
    /\ UNCHANGED <<vars, notification, indication, notified, signals>>

\* on_handle_characteristic_indication takes no mutex and does not look whether
\* the connection is valid; beyond the end of its memory it is not followed.
OnIndication(s) ==
    LET d == signals[s].dev IN
    /\ signals[s].kind = "indication"
    /\ d \in heap
    /\ indication[d].callback
    /\ gattlib_on_gatt_notification(d, "indication")
    /\ UNCHANGED <<vars, notification, indication, notified, signals>>

\* The handler that is the user data of a pool.
HandlerOf(p) ==
    IF pools[p].kind = "notification" THEN notification[pools[p].dev] ELSE indication[pools[p].dev]

\* gattlib_notification_device_thread, which calls the application with the
\* mutex: the oldest value of a pool is delivered, or dropped when its
\* connection is not connected.  A call of NULL is not followed.
Deliver(p) ==
    /\ pools[p].queue # <<>>
    /\ gattlib_connection_is_connected(Head(pools[p].queue).dev) => HandlerOf(p).callback
    /\ pools' = [pools EXCEPT ![p].queue = Tail(@)]
    /\ UNCHANGED <<vars, notification, indication, notified, signals>>

-----------------------------------------------------------------------------
(* The steps of connections and devices.                                   *)

\* What is left of a device's connection: the contents of a freed place are
\* lost, and a place that is allocated again is all zeros.
Retained(f, empty) == [d \in Devices |-> IF d \in heap' THEN f[d] ELSE empty]

\* Faulty end of a connection that leaves its notifications.
KeepAllNotifications(d) ==
    /\ signals' = signals
    /\ notified' = Retained(notified, <<>>)

disconnect_all_notifications(d) ==
    /\ signals' = Detach(SignalsOf(notified[d]))
    /\ notified' = Retained([notified EXCEPT ![d] = <<>>], <<>>)

\* on_handle_device_property_change with Connected = false.
ConnectionLost(x) ==
    LET d == proxy[x].dev IN
    /\ OnDisconnected(x)
    /\ \/ /\ gattlib_connection_is_valid(d)
          /\ disconnect_all_notifications(d)
       \/ /\ ~gattlib_connection_is_valid(d)
          /\ UNCHANGED <<signals, notified>>
    /\ UNCHANGED <<notification, indication, pools>>

ConnectionStep ==
    \/ \E a \in Adapters, d \in Devices : Connect(a, d) \/ ConnectProxyError(a, d) \/ ConnectError(a, d)
    \/ \E d \in Devices : StopConnect(d)
    \/ \E x \in Proxies : OnServicesResolved(x) \/ OnLinkUp(x)

OtherStep ==
    /\ AppNext \/ ScanNext \/ ThreadNext \/ ConnectionStep
    /\ notification' = Retained(notification, NoHandler)
    /\ indication' = Retained(indication, NoHandler)
    /\ notified' = Retained(notified, <<>>)
    /\ UNCHANGED <<signals, pools>>

NotificationNext ==
    \/ \E d \in Devices, p \in Pools : RegisterNotification(d, p) \/ RegisterIndication(d, p)
    \/ \E d \in Devices, uuid \in Uuids :
          \/ \E kind \in Kinds : connect_signal_to_characteristic_uuid(d, uuid, kind)
          \/ disconnect_signal_to_characteristic_uuid(d, uuid)
    \/ \E s \in Signals : OnNotification(s) \/ OnIndication(s)
    \/ \E p \in Pools : Deliver(p)
    \/ \E x \in Proxies : ConnectionLost(x)
    \/ OtherStep

NotificationSpec ==
    NotificationInit /\ [][NotificationNext]_<<vars, notificationVars>>

-----------------------------------------------------------------------------
(* Properties.                                                             *)

\* Types, and what the assertions of the code ask of handlers: one that is set
\* has a pool, which calls this handler and no other.
NotificationTypeOK ==
    /\ notification \in [Devices -> HandlerRecord]
    /\ indication \in [Devices -> HandlerRecord]
    /\ notified \in [Devices -> Seq(Entry)]
    /\ signals \in [Signals -> SignalRecord]
    /\ pools \in [Pools -> PoolRecord]
    /\ \A d \in heap :
          /\ notification[d].callback =>
                /\ notification[d].pool # NoPool
                /\ pools[notification[d].pool].dev = d
                /\ pools[notification[d].pool].kind = "notification"
          /\ indication[d].callback =>
                /\ indication[d].pool # NoPool
                /\ pools[indication[d].pool].dev = d
                /\ pools[indication[d].pool].kind = "indication"

\* Each entry of a connection's list of notified characteristics remembers the
\* id of a handler that is attached, to that connection and for that UUID, and
\* no other entry remembers it: stopping a notification and losing the
\* connection never disconnect a handler that is gone.
NotifiedAreAttached ==
    \A d \in heap : \A i \in DOMAIN notified[d] :
        LET s == notified[d][i].signal IN
        /\ signals[s].kind \in Kinds
        /\ signals[s].dev = d
        /\ signals[s].uuid = notified[d][i].uuid
        /\ \A j \in DOMAIN notified[d] : notified[d][j].signal = s => j = i

\* A connection that has notifications started also has the handler of a device
\* proxy that will see the loss of the link and stop them, even when BlueZ has
\* added the device again or the application has connected it again since.
NotificationsWillEnd ==
    \A d \in heap : Listed(d) /\ notified[d] # <<>> =>
        \E x \in Proxies : proxy[x] = [dev |-> d, view |-> "resolved"]

-----------------------------------------------------------------------------
(* What the repository says of notifications and the code does not do.     *)

\* common/gattlib_callback_notification_device.c, gattlib_on_gatt_notification:
\* the assertion that the pool exists holds for every value it is given.
PoolExists ==
    \A s \in Signals :
        /\ signals[s].kind = "indication" /\ signals[s].dev \in heap
        /\ indication[signals[s].dev].callback
        => notification[signals[s].dev].pool # NoPool

\* include/gattlib.h, gattlib_register_indication: the handler to call on
\* indications is the one registered for them.
IndicationsReachTheirHandler ==
    \A p \in Pools : \A i \in DOMAIN pools[p].queue : pools[p].queue[i].kind = pools[p].kind

\* common/gattlib_callback_notification_device.c, gattlib_notification_device_thread:
\* a handler that is called is set; the memory of its device may hold another
\* one by then, for which none was registered.
HandlerIsSet ==
    \A p \in Pools :
        pools[p].queue # <<>> /\ gattlib_connection_is_connected(Head(pools[p].queue).dev)
            => HandlerOf(p).callback
=============================================================================
