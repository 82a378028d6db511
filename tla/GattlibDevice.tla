--------------------------- MODULE GattlibDevice ---------------------------
(***************************************************************************)
(* Adapters, devices and connections of gattlib (D-Bus backend).           *)
(*                                                                         *)
(* The state is what the recursive mutex m_gattlib_mutex protects: the     *)
(* list of opened adapters, the devices of each adapter with their state   *)
(* and reference counters, the BlueZ proxies whose signals are attached to *)
(* a connection, and the threads that run the user's callbacks.  A section *)
(* of code executed under m_gattlib_mutex is one action; code that drops   *)
(* the mutex, or reads memory before taking it, is cut at that point.      *)
(*                                                                         *)
(* Objects live in finite pools and the place of a freed object may be     *)
(* allocated again, as malloc does: every validity check of the library    *)
(* compares addresses only.                                                *)
(***************************************************************************)
EXTENDS Integers, FiniteSets

CONSTANTS
    Adapters,     \* memory places for struct _gattlib_adapter
    Devices,      \* memory places for struct _gattlib_device
    Paths,        \* D-Bus object paths of BLE devices (the device_id)
    Proxies,      \* OrgBluezDevice1 proxies with a signal handler attached
    Threads,      \* threads of gattlib_handler_dispatch_to_thread
    Apps,         \* threads of the application
    Failures,     \* library calls that may fail in this instance
    PairedClose,  \* TRUE: the application closes an adapter once per open
    MaxOpens,     \* bound on the opens of an adapter not yet closed
    MaxTimers,    \* bound on the connection timeouts pending on a device
    NoAdapter, NoDevice, NoPath, NoProxy

FailureKinds == {"adapter", "proxy", "connect", "thread"}

ASSUME ConstantAssumption ==
    /\ IsFiniteSet(Threads)
    /\ IsFiniteSet(Apps)
    /\ MaxOpens \in Nat
    /\ MaxTimers \in Nat
    /\ PairedClose \in BOOLEAN
    /\ Failures \subseteq FailureKinds
    /\ NoAdapter \notin Adapters
    /\ NoDevice \notin Devices
    /\ NoPath \notin Paths
    /\ NoProxy \notin Proxies

VARIABLES
    m_adapter_list,  \* the adapters in the global list: exactly the allocated ones
    adapterRef,      \* adapter->reference_counter
    devices,         \* adapter->devices
    discovery,       \* what a scan leaves in the adapter: manager, signals, callback
    known,           \* the device objects the adapter's object manager has announced
    opens,           \* opens of the adapter that its application has not closed yet
    heap,            \* the allocated devices
    dev,             \* the contents of each device
    proxy,           \* the device a proxy's signal handler points to, and its properties
    timers,          \* connection timeouts pending in the main loop for a device
    thread,          \* the callback threads
    app              \* the application's threads inside a call that drops the mutex

adapterVars == <<m_adapter_list, adapterRef, devices, discovery, known, opens>>
deviceVars  == <<heap, dev, proxy, timers>>
vars == <<adapterVars, deviceVars, thread, app>>

-----------------------------------------------------------------------------
(* Types and initial values.                                               *)

\* enum _gattlib_device_state; NOT_FOUND is the absence from adapter->devices.
DeviceState == {"CONNECTING", "CONNECTED", "DISCONNECTING", "DISCONNECTED"}

\* 'timeout' and 'proxy' stand for connection_timeout_id and
\* on_handle_device_property_change_id (non-zero or not), 'objects' for the
\* list backend.dbus_objects and 'handler' for on_connection.
DeviceRecord ==
    [adapter : Adapters \cup {NoAdapter}, path : Paths \cup {NoPath},
     ref : Nat, state : DeviceState, timeout : BOOLEAN,
     proxy : Proxies \cup {NoProxy},
     objects : {"null", "held", "freed", "freedTwice"}, handler : BOOLEAN]

NewDevice(a, p, s) ==
    [adapter |-> a, path |-> p, ref |-> 1, state |-> s, timeout |-> FALSE,
     proxy |-> NoProxy, objects |-> "null", handler |-> FALSE]

FreedDevice == [NewDevice(NoAdapter, NoPath, "DISCONNECTED") EXCEPT !.ref = 0]

DiscoveryRecord == [manager : BOOLEAN, attached : BOOLEAN, handler : BOOLEAN]

NoDiscovery == [manager |-> FALSE, attached |-> FALSE, handler |-> FALSE]

\* The properties Connected and ServicesResolved a proxy has seen last.
View == {"down", "up", "resolved"}

Detached == [dev |-> NoDevice, view |-> "down"]

ThreadPc == {"none", "disc_start", "disc_call", "disc_callback",
             "conn_read", "conn_lock", "conn_callback"}

ThreadRecord == [pc : ThreadPc, dev : Devices \cup {NoDevice},
                 adapter : Adapters \cup {NoAdapter}]

NoThread == [pc |-> "none", dev |-> NoDevice, adapter |-> NoAdapter]

AppPc == {"idle", "opening", "closing", "waiting"}

AppRecord == [pc : AppPc, dev : Devices \cup {NoDevice},
              adapter : Adapters \cup {NoAdapter}]

IdleApp == [pc |-> "idle", dev |-> NoDevice, adapter |-> NoAdapter]

Init ==
    /\ m_adapter_list = {}
    /\ adapterRef = [a \in Adapters |-> 0]
    /\ devices = [a \in Adapters |-> {}]
    /\ discovery = [a \in Adapters |-> NoDiscovery]
    /\ known = [a \in Adapters |-> {}]
    /\ opens = [a \in Adapters |-> 0]
    /\ heap = {}
    /\ dev = [d \in Devices |-> FreedDevice]
    /\ proxy = [x \in Proxies |-> Detached]
    /\ timers = [d \in Devices |-> 0]
    /\ thread = [t \in Threads |-> NoThread]
    /\ app = [u \in Apps |-> IdleApp]

-----------------------------------------------------------------------------
(* Helpers shared by the handlers.                                         *)

\* Faulty lookup that only sees the devices that can be connected.
LookupDisconnectedOnly(a, p) ==
    {d \in devices[a] : dev[d].path = p /\ dev[d].state = "DISCONNECTED"}

\* The devices of the list with this id: at most one (see UniquePaths).
gattlib_device_get_device(a, p) == {d \in devices[a] : dev[d].path = p}

gattlib_connection_is_valid(d) == \E a \in m_adapter_list : d \in devices[a]

gattlib_connection_is_connected(d) ==
    gattlib_connection_is_valid(d) /\ dev[d].state = "CONNECTED"

gattlib_devices_are_disconnected(a) ==
    \A d \in devices[a] : dev[d].state = "DISCONNECTED"

\* gattlib_device_set_state for a device that is in the list, as a function of
\* the contents D of the devices.  Nothing happens on a closed adapter.
OverwriteState(D, a, p, s) ==
    [d \in Devices |->
        IF a \in m_adapter_list /\ d \in devices[a] /\ D[d].path = p
        THEN [D[d] EXCEPT !.state = s] ELSE D[d]]

\* gattlib_device_set_state for a device that is not in the list yet.
AllocateDevice(a, p, s) ==
    \E d \in Devices \ heap :
        /\ heap' = heap \cup {d}
        /\ dev' = [dev EXCEPT ![d] = NewDevice(a, p, s)]
        /\ devices' = [devices EXCEPT ![a] = @ \cup {d}]

\* Faulty unref that tests the counter and does not decrement it.
UnrefWithoutDecrement(S) ==
    /\ heap' = heap \ {d \in S : dev[d].ref <= 1}
    /\ dev' = [d \in Devices |-> IF d \in S /\ dev[d].ref <= 1 THEN FreedDevice ELSE dev[d]]

\* Faulty unref that never gives the memory back.
UnrefKeepsMemory(S) ==
    /\ dev' = [d \in Devices |-> IF d \in S THEN [dev[d] EXCEPT !.ref = @ - 1] ELSE dev[d]]
    /\ UNCHANGED heap

\* gattlib_device_unref of every device of S; the memory of the last reference
\* is freed and its contents are lost.
UnrefDevices(S) ==
    /\ heap' = heap \ {d \in S : dev[d].ref <= 1}
    /\ dev' = [d \in Devices |->
                 IF d \notin S THEN dev[d]
                 ELSE IF dev[d].ref <= 1 THEN FreedDevice
                 ELSE [dev[d] EXCEPT !.ref = @ - 1]]

\* gattlib_handler_dispatch_to_thread: nothing without a handler; otherwise a
\* thread is created, unless g_thread_try_new fails.
gattlib_handler_dispatch_to_thread(hasHandler, record) ==
    \/ /\ ~hasHandler
       /\ UNCHANGED thread
    \/ /\ hasHandler
       /\ \E t \in Threads : /\ thread[t].pc = "none"
                             /\ thread' = [thread EXCEPT ![t] = record]
    \/ /\ hasHandler /\ "thread" \in Failures
       /\ UNCHANGED thread

gattlib_on_discovered_device(a) ==
    gattlib_handler_dispatch_to_thread(discovery[a].handler,
        [pc |-> "disc_start", dev |-> NoDevice, adapter |-> a])

gattlib_on_connected_device(d) ==
    gattlib_handler_dispatch_to_thread(dev[d].handler,
        [pc |-> "conn_read", dev |-> d, adapter |-> NoAdapter])

\* Faulty unref that never gives the memory of the adapter back.
AdapterUnrefKeepsMemory(a) ==
    /\ a \in m_adapter_list
    /\ adapterRef' = [adapterRef EXCEPT ![a] = @ - 1]
    /\ UNCHANGED <<m_adapter_list, devices, discovery, known, heap, dev>>

\* The last unref gives the memory of the adapter back.  A freed adapter has no
\* counter to decrement: the behaviour is undefined and not followed further.  The devices that are
\* not DISCONNECTED are left allocated (gattlib_devices_free warns and goes on).
gattlib_adapter_unref(a) ==
    /\ a \in m_adapter_list
    /\ adapterRef' = [adapterRef EXCEPT ![a] = @ - 1]
    /\ \/ /\ adapterRef[a] > 1
          /\ UNCHANGED <<m_adapter_list, devices, discovery, known, heap, dev>>
       \/ /\ adapterRef[a] <= 1
          /\ UnrefDevices({d \in devices[a] : dev[d].state = "DISCONNECTED"})
          /\ m_adapter_list' = m_adapter_list \ {a}
          /\ devices' = [devices EXCEPT ![a] = {}]
          /\ discovery' = [discovery EXCEPT ![a] = NoDiscovery]
          /\ known' = [known EXCEPT ![a] = {}]

\* The application may use an adapter it opened and has not closed, or the one
\* its discovery callback was called with.
Usable(a) ==
    \/ opens[a] > 0
    \/ \E t \in Threads : thread[t].pc = "disc_callback" /\ thread[t].adapter = a

-----------------------------------------------------------------------------
(* Opening and closing adapters.                                           *)

\* gattlib_adapter_scan_disable inside another critical section: it frees the
\* discovery callback, or returns early when no discovery is in progress.
StopDiscovery(a) == {discovery, [discovery EXCEPT ![a].handler = FALSE]}

\* Faulty open that re-uses an adapter without a reference.
AdapterOpenWithoutRef(u) ==
    /\ app[u].pc = "idle"
    /\ \/ \E a \in m_adapter_list :
             /\ opens[a] < MaxOpens
             /\ opens' = [opens EXCEPT ![a] = @ + 1]
             /\ UNCHANGED app
       \/ /\ m_adapter_list = {}
          /\ app' = [app EXCEPT ![u] = [IdleApp EXCEPT !.pc = "opening"]]
          /\ UNCHANGED opens
    /\ UNCHANGED <<m_adapter_list, adapterRef, devices, discovery, known, deviceVars, thread>>

\* gattlib_adapter_open, first critical section: an adapter that is in the list
\* gets one more reference, otherwise the mutex is dropped to create the proxy.
AdapterOpen(u) ==
    /\ app[u].pc = "idle"
    /\ \/ \E a \in m_adapter_list :
             /\ opens[a] < MaxOpens
             /\ adapterRef' = [adapterRef EXCEPT ![a] = @ + 1]
             /\ opens' = [opens EXCEPT ![a] = @ + 1]
             /\ UNCHANGED app
       \/ /\ m_adapter_list = {}
          /\ app' = [app EXCEPT ![u] = [IdleApp EXCEPT !.pc = "opening"]]
          /\ UNCHANGED <<adapterRef, opens>>
    /\ UNCHANGED <<m_adapter_list, devices, discovery, known, deviceVars, thread>>

\* gattlib_adapter_open, second part: the proxy is created without the mutex;
\* the adapter is appended without looking at the list again.
AdapterOpenCreate(u) ==
    /\ app[u].pc = "opening"
    /\ app' = [app EXCEPT ![u] = IdleApp]
    /\ \/ \E a \in Adapters \ m_adapter_list :
             /\ m_adapter_list' = m_adapter_list \cup {a}
             /\ adapterRef' = [adapterRef EXCEPT ![a] = 1]
             /\ opens' = [opens EXCEPT ![a] = 1]
       \/ /\ "adapter" \in Failures
          /\ UNCHANGED <<m_adapter_list, adapterRef, opens>>
    /\ UNCHANGED <<devices, discovery, known, deviceVars, thread>>

\* gattlib_adapter_close up to the release of the mutex.  When a scan is in
\* progress it is disabled and the mutex is dropped to wait for the scan loop
\* (see ScanLoop for the use of its thread, which is not followed here).
AdapterClose(u, a) ==
    /\ app[u].pc = "idle"
    /\ PairedClose => opens[a] > 0
    /\ a \in m_adapter_list
    /\ gattlib_devices_are_disconnected(a)
    /\ opens' = [opens EXCEPT ![a] = IF @ > 0 THEN @ - 1 ELSE 0]
    /\ \/ /\ gattlib_adapter_unref(a)
          /\ UNCHANGED app
       \/ /\ discovery[a].manager
          /\ discovery' \in StopDiscovery(a)
          /\ app' = [app EXCEPT ![u] = [pc |-> "closing", dev |-> NoDevice, adapter |-> a]]
          /\ UNCHANGED <<m_adapter_list, adapterRef, devices, known, heap, dev>>
    /\ UNCHANGED <<proxy, timers, thread>>

\* gattlib_adapter_close after _wait_scan_loop_stop_scanning: the reference is
\* dropped without a second look at the devices.
AdapterCloseFinish(u) ==
    /\ app[u].pc = "closing"
    /\ gattlib_adapter_unref(app[u].adapter)
    /\ app' = [app EXCEPT ![u] = IdleApp]
    /\ UNCHANGED <<opens, proxy, timers, thread>>

-----------------------------------------------------------------------------
(* Scanning, reduced to what devices and callbacks see of it.  The threads,  *)
(* the timeout and the locks of a scan are not part of this module.          *)

\* _gattlib_adapter_scan_enable_with_filter once the object manager exists; a
\* failing StartDiscovery leaves the same state behind.
ScanEnable(a) ==
    /\ a \in m_adapter_list
    /\ PairedClose => Usable(a)
    /\ discovery' = [discovery EXCEPT ![a] = [manager |-> TRUE, attached |-> TRUE, handler |-> TRUE]]
    /\ UNCHANGED <<m_adapter_list, adapterRef, devices, known, opens, deviceVars, thread, app>>

\* Faulty end of a scan that releases the object manager with the callback.
ScanDisableReleasesManager(a) ==
    /\ a \in m_adapter_list
    /\ discovery[a].handler
    /\ discovery' = [discovery EXCEPT ![a] = NoDiscovery]
    /\ UNCHANGED <<m_adapter_list, adapterRef, devices, known, opens, deviceVars, thread, app>>

\* gattlib_adapter_scan_disable: gattlib_handler_free of the discovery callback.
ScanDisable(a) ==
    /\ a \in m_adapter_list
    /\ discovery[a].handler
    /\ discovery' = [discovery EXCEPT ![a].handler = FALSE]
    /\ UNCHANGED <<m_adapter_list, adapterRef, devices, known, opens, deviceVars, thread, app>>

\* End of _ble_scan_loop_thread: the object manager's signals are disconnected
\* and the scan is disabled.
ScanDetach(a) ==
    /\ a \in m_adapter_list
    /\ discovery[a].attached
    /\ discovery' \in {[x EXCEPT ![a].attached = FALSE] : x \in StopDiscovery(a)}
    /\ UNCHANGED <<m_adapter_list, adapterRef, devices, known, opens, deviceVars, thread, app>>

-----------------------------------------------------------------------------
(* Signals of the object manager, handled in the main loop.                *)

\* device_manager_on_added_device1_signal: set_state(DISCONNECTED) whatever the
\* state of a device that is already in the list, then the discovery callback.
OnDbusObjectAdded(a, p) ==
    /\ a \in m_adapter_list
    /\ discovery[a].attached
    /\ p \notin known[a]
    /\ known' = [known EXCEPT ![a] = @ \cup {p}]
    /\ \/ /\ gattlib_device_get_device(a, p) = {}
          /\ AllocateDevice(a, p, "DISCONNECTED")
       \/ /\ gattlib_device_get_device(a, p) # {}
          /\ dev' = OverwriteState(dev, a, p, "DISCONNECTED")
          /\ UNCHANGED <<heap, devices>>
    /\ gattlib_on_discovered_device(a)
    /\ UNCHANGED <<m_adapter_list, adapterRef, discovery, opens, proxy, timers, app>>

\* Faulty set_state(NOT_FOUND) that forgets a device whatever its state.
RemovedWhateverTheState(a, p) ==
    LET gone == gattlib_device_get_device(a, p)
    IN  /\ a \in m_adapter_list
        /\ discovery[a].attached
        /\ p \in known[a]
        /\ known' = [known EXCEPT ![a] = @ \ {p}]
        /\ devices' = [devices EXCEPT ![a] = @ \ gone]
        /\ UnrefDevices(gone)
        /\ UNCHANGED <<m_adapter_list, adapterRef, discovery, opens, proxy, timers, thread, app>>

\* on_dbus_object_removed: set_state(NOT_FOUND) forgets a DISCONNECTED device
\* and is ignored in the other states.
OnDbusObjectRemoved(a, p) ==
    LET gone == {d \in gattlib_device_get_device(a, p) : dev[d].state = "DISCONNECTED"}
    IN  /\ a \in m_adapter_list
        /\ discovery[a].attached
        /\ p \in known[a]
        /\ known' = [known EXCEPT ![a] = @ \ {p}]
        /\ devices' = [devices EXCEPT ![a] = @ \ gone]
        /\ UnrefDevices(gone)
        /\ UNCHANGED <<m_adapter_list, adapterRef, discovery, opens, proxy, timers, thread, app>>

\* on_interface_proxy_properties_changed with RSSI or ManufacturerData, for an
\* object the manager knows and the adapter does not list.
OnInterfacePropertiesChanged(a, p) ==
    /\ a \in m_adapter_list
    /\ discovery[a].attached
    /\ p \in known[a]
    /\ gattlib_device_get_device(a, p) = {}
    /\ AllocateDevice(a, p, "DISCONNECTED")
    /\ gattlib_on_discovered_device(a)
    /\ UNCHANGED <<m_adapter_list, adapterRef, discovery, known, opens, proxy, timers, app>>

\* BlueZ adds or removes an object while no scan listens to the manager.
BluezObjectChange(a, p) ==
    /\ discovery[a].manager
    /\ ~discovery[a].attached
    /\ known' = [known EXCEPT ![a] = IF p \in @ THEN @ \ {p} ELSE @ \cup {p}]
    /\ UNCHANGED <<m_adapter_list, adapterRef, devices, discovery, opens, deviceVars, thread, app>>

-----------------------------------------------------------------------------
(* Connecting and disconnecting.                                           *)

\* The part of gattlib_connect before its first D-Bus call: the adapter and
\* the device are valid and the device is DISCONNECTED (anything else returns
\* an error through connect_cb and changes nothing).
CanConnect(a, d) ==
    /\ a \in m_adapter_list
    /\ PairedClose => Usable(a)
    /\ d \in devices[a]
    /\ dev[d].state = "DISCONNECTED"

\* gattlib_connect when Connect() succeeds: the device is CONNECTING, a timeout
\* is armed and the answer will come from the proxy's signals.
Connect(a, d) ==
    /\ CanConnect(a, d)
    /\ timers[d] < MaxTimers
    /\ \E x \in Proxies, v \in {"up", "resolved"} :
          /\ proxy[x] = Detached
          /\ proxy' = [proxy EXCEPT ![x] = [dev |-> d, view |-> v]]
          /\ dev' = [OverwriteState(dev, dev[d].adapter, dev[d].path, "CONNECTING")
                        EXCEPT ![d] = [@ EXCEPT !.handler = TRUE, !.proxy = x, !.timeout = TRUE]]
    /\ timers' = [timers EXCEPT ![d] = @ + 1]
    /\ UNCHANGED <<adapterVars, heap, thread, app>>

\* gattlib_connect when the device proxy cannot be created.
ConnectProxyError(a, d) ==
    /\ CanConnect(a, d)
    /\ "proxy" \in Failures
    /\ dev' = [OverwriteState(dev, dev[d].adapter, dev[d].path, "CONNECTING")
                  EXCEPT ![d] = [@ EXCEPT !.handler = TRUE]]
    /\ UNCHANGED <<adapterVars, heap, proxy, timers, thread, app>>

\* gattlib_connect when Connect() fails: DISCONNECTED again, and the signal
\* handler of the new proxy stays attached.
ConnectError(a, d) ==
    /\ CanConnect(a, d)
    /\ "connect" \in Failures
    /\ \E x \in Proxies, v \in View :
          /\ proxy[x] = Detached
          /\ proxy' = [proxy EXCEPT ![x] = [dev |-> d, view |-> v]]
          /\ dev' = [OverwriteState(dev, dev[d].adapter, dev[d].path, "DISCONNECTED")
                        EXCEPT ![d] = [@ EXCEPT !.handler = TRUE, !.proxy = x]]
    /\ UNCHANGED <<adapterVars, heap, timers, thread, app>>

\* Faulty timeout that keeps its id in the connection.
StopConnectKeepsId(d) ==
    /\ timers[d] > 0
    /\ timers' = [timers EXCEPT ![d] = @ - 1]
    /\ UNCHANGED <<adapterVars, heap, dev, proxy, thread, app>>

\* _stop_connect_func: the timeout only forgets its own id.
StopConnect(d) ==
    /\ timers[d] > 0
    /\ timers' = [timers EXCEPT ![d] = @ - 1]
    /\ dev' = IF gattlib_connection_is_valid(d)
              THEN [dev EXCEPT ![d] = [@ EXCEPT !.timeout = FALSE]] ELSE dev
    /\ UNCHANGED <<adapterVars, heap, proxy, thread, app>>

\* Faulty removal of a timeout that does not test whether one is pending.
RemoveTimerAlways(d) == timers' = [timers EXCEPT ![d] = @ - 1]

\* g_source_remove of the connection timeout, when its id is set.
RemoveTimer(d) ==
    timers' = [timers EXCEPT ![d] = IF dev[d].timeout THEN @ - 1 ELSE @]

\* on_handle_device_property_change with ServicesResolved = true, which runs
\* _on_device_connect whatever the state of the device.  The object manager it
\* needs exists (see DevicesHaveManager).
OnServicesResolved(x) ==
    LET d == proxy[x].dev IN
    /\ d # NoDevice
    /\ proxy[x].view = "up"
    /\ proxy' = [proxy EXCEPT ![x].view = "resolved"]
    /\ \/ /\ gattlib_connection_is_valid(d)
          /\ RemoveTimer(d)
          /\ dev' = OverwriteState([dev EXCEPT ![d] = [@ EXCEPT !.timeout = FALSE, !.objects = "held"]],
                                   dev[d].adapter, dev[d].path, "CONNECTED")
          /\ gattlib_on_connected_device(d)
       \/ /\ ~gattlib_connection_is_valid(d)
          /\ UNCHANGED <<timers, dev, thread>>
    /\ UNCHANGED <<adapterVars, heap, app>>

\* g_list_free_full(dbus_objects), which leaves the pointer as it is.
FreeObjects(o) ==
    CASE o = "null" -> "null"
      [] o = "held" -> "freed"
      [] OTHER -> "freedTwice"

\* Faulty gattlib_connection_free that leaves the state of the device alone.
ConnectionFreeKeepsState(d) ==
    /\ RemoveTimer(d)
    /\ dev' = [dev EXCEPT ![d] = [@ EXCEPT !.proxy = NoProxy, !.timeout = FALSE,
                                           !.objects = FreeObjects(dev[d].objects)]]

\* gattlib_connection_free
gattlib_connection_free(d) ==
    /\ RemoveTimer(d)
    /\ dev' = OverwriteState([dev EXCEPT ![d] = [@ EXCEPT !.proxy = NoProxy, !.timeout = FALSE,
                                                          !.objects = FreeObjects(dev[d].objects)]],
                             dev[d].adapter, dev[d].path, "DISCONNECTED")

\* on_handle_device_property_change with Connected = false: the handler whose
\* id the connection holds is disconnected, which may not be the one that runs.
OnDisconnected(x) ==
    LET d == proxy[x].dev IN
    /\ d # NoDevice
    /\ proxy[x].view # "down"
    /\ \/ /\ gattlib_connection_is_valid(d)
          /\ gattlib_connection_free(d)
          /\ proxy' = [y \in Proxies |-> IF y = dev[d].proxy THEN Detached
                                         ELSE IF y = x THEN [proxy[y] EXCEPT !.view = "down"]
                                         ELSE proxy[y]]
       \/ /\ ~gattlib_connection_is_valid(d)
          /\ proxy' = [proxy EXCEPT ![x].view = "down"]
          /\ UNCHANGED <<timers, dev>>
    /\ UNCHANGED <<adapterVars, heap, thread, app>>

\* Connected = true: only logged.  Another client of BlueZ may cause it.
OnLinkUp(x) ==
    /\ proxy[x].dev # NoDevice
    /\ proxy[x].view = "down"
    /\ proxy' = [proxy EXCEPT ![x].view = "up"]
    /\ UNCHANGED <<adapterVars, heap, dev, timers, thread, app>>

\* gattlib_disconnect up to the release of the mutex; an error of Disconnect()
\* is ignored.
Disconnect(u, d, wait) ==
    /\ app[u].pc = "idle"
    /\ gattlib_connection_is_connected(d)
    /\ dev' = OverwriteState(dev, dev[d].adapter, dev[d].path, "DISCONNECTING")
    /\ app' = IF wait THEN [app EXCEPT ![u] = [pc |-> "waiting", dev |-> d, adapter |-> NoAdapter]]
              ELSE app
    /\ UNCHANGED <<adapterVars, heap, proxy, timers, thread>>

\* gattlib_disconnect, the wait for the disconnection: it ends once the device
\* is not CONNECTED or, in a device that is, when the wait times out.
DisconnectReturn(u) ==
    /\ app[u].pc = "waiting"
    /\ app' = [app EXCEPT ![u] = IdleApp]
    /\ UNCHANGED <<adapterVars, deviceVars, thread>>

-----------------------------------------------------------------------------
(* The threads of the user's callbacks.                                    *)

\* Faulty discovery thread that takes no reference to the adapter.
DiscoveredThreadWithoutRef(t) ==
    LET a == thread[t].adapter IN
    /\ thread[t].pc = "disc_start"
    /\ thread' = IF a \in m_adapter_list /\ discovery[a].handler
                 THEN [thread EXCEPT ![t].pc = "disc_call"] ELSE [thread EXCEPT ![t] = NoThread]
    /\ UNCHANGED <<adapterVars, deviceVars, app>>

\* _gattlib_discovered_device_thread, critical section.
DiscoveredThreadLock(t) ==
    LET a == thread[t].adapter IN
    /\ thread[t].pc = "disc_start"
    /\ \/ /\ a \in m_adapter_list /\ discovery[a].handler
          /\ adapterRef' = [adapterRef EXCEPT ![a] = @ + 1]
          /\ thread' = [thread EXCEPT ![t].pc = "disc_call"]
       \/ /\ ~(a \in m_adapter_list /\ discovery[a].handler)
          /\ thread' = [thread EXCEPT ![t] = NoThread]
          /\ UNCHANGED adapterRef
    /\ UNCHANGED <<m_adapter_list, devices, discovery, known, opens, deviceVars, app>>

\* The callback pointer is read again, without the mutex, and called.
DiscoveredThreadCall(t) ==
    /\ thread[t].pc = "disc_call"
    /\ thread' = [thread EXCEPT ![t].pc = "disc_callback"]
    /\ UNCHANGED <<adapterVars, deviceVars, app>>

\* The callback returns and the thread drops its reference.
DiscoveredThreadEnd(t) ==
    /\ thread[t].pc = "disc_callback"
    /\ gattlib_adapter_unref(thread[t].adapter)
    /\ thread' = [thread EXCEPT ![t] = NoThread]
    /\ UNCHANGED <<opens, proxy, timers, app>>

\* _gattlib_connected_device_thread reads connection->backend.device before it
\* takes the mutex.
ConnectedThreadRead(t) ==
    /\ thread[t].pc = "conn_read"
    /\ thread' = [thread EXCEPT ![t].pc = "conn_lock"]
    /\ UNCHANGED <<adapterVars, deviceVars, app>>

\* Faulty connection thread that takes no reference to the device.
ConnectedThreadWithoutRef(t) ==
    LET d == thread[t].dev IN
    /\ thread[t].pc = "conn_lock"
    /\ thread' = IF gattlib_connection_is_connected(d) /\ dev[d].handler
                 THEN [thread EXCEPT ![t].pc = "conn_callback"] ELSE [thread EXCEPT ![t] = NoThread]
    /\ UNCHANGED <<adapterVars, deviceVars, app>>

\* _gattlib_connected_device_thread, critical section.
ConnectedThreadLock(t) ==
    LET d == thread[t].dev IN
    /\ thread[t].pc = "conn_lock"
    /\ \/ /\ gattlib_connection_is_connected(d) /\ dev[d].handler
          /\ dev' = [dev EXCEPT ![d].ref = @ + 1]
          /\ thread' = [thread EXCEPT ![t].pc = "conn_callback"]
       \/ /\ ~(gattlib_connection_is_connected(d) /\ dev[d].handler)
          /\ thread' = [thread EXCEPT ![t] = NoThread]
          /\ UNCHANGED dev
    /\ UNCHANGED <<adapterVars, heap, proxy, timers, app>>

\* The callback returns and the thread drops its reference.
ConnectedThreadEnd(t) ==
    /\ thread[t].pc = "conn_callback"
    /\ UnrefDevices({thread[t].dev})
    /\ thread' = [thread EXCEPT ![t] = NoThread]
    /\ UNCHANGED <<adapterVars, proxy, timers, app>>

-----------------------------------------------------------------------------
AppNext ==
    \E u \in Apps :
        \/ AdapterOpen(u)
        \/ AdapterOpenCreate(u)
        \/ AdapterCloseFinish(u)
        \/ DisconnectReturn(u)
        \/ \E a \in Adapters : AdapterClose(u, a)
        \/ \E d \in Devices, wait \in BOOLEAN : Disconnect(u, d, wait)

ScanNext ==
    \E a \in Adapters :
        \/ ScanEnable(a)
        \/ ScanDisable(a)
        \/ ScanDetach(a)
        \/ \E p \in Paths : \/ OnDbusObjectAdded(a, p)
                            \/ OnDbusObjectRemoved(a, p)
                            \/ OnInterfacePropertiesChanged(a, p)
                            \/ BluezObjectChange(a, p)

ConnectNext ==
    \/ \E a \in Adapters, d \in Devices : \/ Connect(a, d)
                                          \/ ConnectProxyError(a, d)
                                          \/ ConnectError(a, d)
    \/ \E d \in Devices : StopConnect(d)
    \/ \E x \in Proxies : \/ OnServicesResolved(x)
                          \/ OnDisconnected(x)
                          \/ OnLinkUp(x)

ThreadNext ==
    \E t \in Threads :
        \/ DiscoveredThreadLock(t)
        \/ DiscoveredThreadCall(t)
        \/ DiscoveredThreadEnd(t)
        \/ ConnectedThreadRead(t)
        \/ ConnectedThreadLock(t)
        \/ ConnectedThreadEnd(t)

Next == AppNext \/ ScanNext \/ ConnectNext \/ ThreadNext

Spec == Init /\ [][Next]_vars

-----------------------------------------------------------------------------
(* Properties.                                                             *)

Listed(d) == \E a \in Adapters : d \in devices[a]

\* The callbacks that hold a reference to a device or to an adapter, and the
\* calls to gattlib_adapter_close that have not dropped theirs yet.
ConnectedCallbacks(d) ==
    {t \in Threads : thread[t].pc = "conn_callback" /\ thread[t].dev = d}

DiscoveredCallbacks(a) ==
    {t \in Threads : thread[t].pc \in {"disc_call", "disc_callback"} /\ thread[t].adapter = a}

Closers(a) == {u \in Apps : app[u].pc = "closing" /\ app[u].adapter = a}

\* Every variable has its type: states are those of _gattlib_device_state,
\* counters never pass below zero, every pointer designates a memory place.
TypeOK ==
    /\ m_adapter_list \subseteq Adapters
    /\ adapterRef \in [Adapters -> Nat]
    /\ devices \in [Adapters -> SUBSET Devices]
    /\ discovery \in [Adapters -> DiscoveryRecord]
    /\ known \in [Adapters -> SUBSET Paths]
    /\ opens \in [Adapters -> Nat]
    /\ heap \subseteq Devices
    /\ dev \in [Devices -> DeviceRecord]
    /\ proxy \in [Proxies -> [dev : Devices \cup {NoDevice}, view : View]]
    /\ timers \in [Devices -> Nat]
    /\ thread \in [Threads -> ThreadRecord]
    /\ app \in [Apps -> AppRecord]

\* A list of devices never holds two devices with the same id, and a device is
\* in the list of the adapter it points to and in no other, for as long as that
\* adapter is allocated: what every lookup by id or by address relies on.
UniquePaths ==
    \A a \in Adapters : \A d \in devices[a] :
        /\ a \in m_adapter_list
        /\ d \in heap
        /\ dev[d].adapter = a
        /\ \A e \in devices[a] : dev[e].path = dev[d].path => e = d

\* device->reference_counter counts the callbacks that use the device, plus one
\* for the adapter's list; a device the adapter left behind because it was not
\* DISCONNECTED keeps that one for ever.
DeviceRefCount ==
    \A d \in heap :
        dev[d].ref = Cardinality(ConnectedCallbacks(d))
                     + (IF Listed(d) \/ dev[d].state # "DISCONNECTED" THEN 1 ELSE 0)

\* adapter->reference_counter counts the opens that were not closed, the
\* discovery callbacks in progress and the closes that wait for a scan to end.
AdapterRefCount ==
    \A a \in m_adapter_list :
        adapterRef[a] = opens[a] + Cardinality(DiscoveredCallbacks(a)) + Cardinality(Closers(a))

\* A device is never freed while the connection callback runs on it, whatever
\* the disconnections, removals and closes that happen meanwhile.
CallbackDeviceAlive ==
    \A t \in Threads : thread[t].pc = "conn_callback" => thread[t].dev \in heap

\* An adapter is never freed while a discovery callback, or a close that waits
\* for the scan to end, still uses it.
CallbackAdapterAlive ==
    /\ \A t \in Threads :
          thread[t].pc \in {"disc_call", "disc_callback"} => thread[t].adapter \in m_adapter_list
    /\ \A u \in Apps : app[u].pc = "closing" => app[u].adapter \in m_adapter_list

\* A connection's connection_timeout_id is that of a pending timeout, and its
\* on_handle_device_property_change_id that of an attached handler: they are
\* never removed or disconnected twice, however the timeout, the signals and
\* the reuse of a device's memory interleave.
ConnectionIdsLive ==
    \A d \in heap : Listed(d) =>
        /\ dev[d].timeout => timers[d] > 0
        /\ dev[d].proxy # NoProxy => proxy[dev[d].proxy].dev = d

\* A device that is CONNECTED or DISCONNECTING has a signal handler attached to
\* it on a proxy that has not seen the loss of the link yet: the disconnection
\* will be noticed, even after failed connections, removals and reused memory.
LossIsSignalled ==
    \A d \in heap : Listed(d) /\ dev[d].state \in {"CONNECTED", "DISCONNECTING"} =>
        \E x \in Proxies : proxy[x] = [dev |-> d, view |-> "resolved"]

\* An adapter with devices has its object manager, so that _on_device_connect
\* never has to make one (get_device_manager_from_adapter), which may fail and
\* would leave the device CONNECTING: OnServicesResolved has no such branch.
DevicesHaveManager ==
    \A a \in Adapters : devices[a] # {} => discovery[a].manager

\* A device leaves its adapter's list only when it is DISCONNECTED, unless the
\* adapter itself is freed.
OnlyDisconnectedForgotten ==
    [][\A a \in Adapters : \A d \in devices[a] :
          d \notin devices'[a] => dev[d].state = "DISCONNECTED" \/ a \notin m_adapter_list']_vars
-----------------------------------------------------------------------------
(* The abstract specification the two reference counters implement.         *)

AdapterUsers(a) == opens[a] + Cardinality(DiscoveredCallbacks(a)) + Cardinality(Closers(a))

DeviceUsers(d) ==
    Cardinality(ConnectedCallbacks(d))
    + (IF Listed(d) \/ dev[d].state # "DISCONNECTED" THEN 1 ELSE 0)

AdapterLife ==
    INSTANCE Lifetime WITH Objects <- Adapters, alive <- m_adapter_list,
                           users <- [a \in Adapters |-> AdapterUsers(a)]

DeviceLife ==
    INSTANCE Lifetime WITH Objects <- Devices, alive <- heap,
                           users <- [d \in Devices |-> DeviceUsers(d)]

\* The adapters live as Lifetime says, when the application closes an adapter
\* once per open: gattlib_adapter_unref frees one in the step in which its last
\* open, discovery callback or close leaves, and no callback starts on a freed
\* one, whatever the thread that drops the last reference.
AdapterLifetime == AdapterLife!Spec

\* The devices live as Lifetime says: the list of the adapter and the connection
\* callbacks are their users, and gattlib_device_unref frees one in the step in
\* which the last leaves, also when its adapter is freed under it.
DeviceLifetime == DeviceLife!Spec

-----------------------------------------------------------------------------
(* Liveness.  The main loop dispatches its timeouts, the callback threads   *)
(* are scheduled and, once Disconnect() was called, BlueZ reports the loss  *)
(* of the link.  Nothing is assumed of the application or of the devices.   *)

CompleteDisconnection(x) ==
    /\ proxy[x].dev # NoDevice
    /\ dev[proxy[x].dev].state = "DISCONNECTING"
    /\ OnDisconnected(x)

ThreadStep(t) ==
    \/ DiscoveredThreadLock(t) \/ DiscoveredThreadCall(t) \/ DiscoveredThreadEnd(t)
    \/ ConnectedThreadRead(t) \/ ConnectedThreadLock(t) \/ ConnectedThreadEnd(t)

FairSpec ==
    /\ Spec
    /\ \A d \in Devices : WF_vars(StopConnect(d))
    /\ \A t \in Threads : WF_vars(ThreadStep(t))
    /\ \A x \in Proxies : WF_vars(CompleteDisconnection(x))

\* gattlib_disconnect is effective: a DISCONNECTING device does not stay so for
\* as long as its adapter lists it.
DisconnectionCompletes ==
    \A d \in Devices :
        Listed(d) /\ dev[d].state = "DISCONNECTING"
            ~> ~Listed(d) \/ dev[d].state # "DISCONNECTING"

-----------------------------------------------------------------------------
(* What the repository says of the program and the code does not do.  Each  *)
(* of these is checked by a run that is expected to violate it.             *)

\* include/gattlib.h, gatt_connect_cb_t: the handler is called when the
\* connection is ready or on error, so a device does not stay CONNECTING.
ConnectIsAnswered ==
    \A d \in Devices :
        Listed(d) /\ dev[d].state = "CONNECTING"
            ~> ~Listed(d) \/ dev[d].state # "CONNECTING"

\* include/gattlib.h, gattlib_disconnect: with wait_disconnection the call
\* returns once the device has confirmed the disconnection, or GATTLIB_TIMEOUT.
WaitsForDisconnection ==
    [][\A u \in Apps :
          app[u].pc = "waiting" /\ app'[u].pc = "idle" =>
              dev[app[u].dev].state # "DISCONNECTING"]_vars

\* dbus/gattlib_adapter.c, gattlib_adapter_close: an adapter cannot be closed
\* when some of its devices are not disconnected, so it is not freed either.
FreedOnlyWhenDisconnected ==
    [][\A a \in m_adapter_list :
          a \notin m_adapter_list' => gattlib_devices_are_disconnected(a)]_vars

\* common/gattlib_callback_connected_device.c: the device is not freed during
\* the execution of the thread of the connection callback.
ConnectedThreadDeviceAlive ==
    \A t \in Threads :
        thread[t].pc \in {"conn_read", "conn_lock", "conn_callback"} => thread[t].dev \in heap

\* dbus/gattlib.c, gattlib_connection_free cleans the connection on every
\* disconnection, so the list of D-Bus objects is freed once.
ObjectsFreedOnce == \A d \in Devices : dev[d].objects # "freedTwice"

\* common/gattlib_common.c, gattlib_handler_free: the callback is not called
\* after the scan was stopped; the thread would call a NULL pointer.
DiscoveryCallbackSet ==
    \A t \in Threads :
        thread[t].pc = "disc_call" => discovery[thread[t].adapter].handler

\* dbus/gattlib_adapter.c, gattlib_adapter_open: an adapter that has already
\* been opened is re-used, so its name is in the list once.
AdapterOpenedOnce == \A a, b \in m_adapter_list : a = b

\* common/gattlib_internal.h, reference_counter: an adapter used by a callback
\* is not freed; the connection callback is given the device's adapter.
ConnectedCallbackAdapterAlive ==
    \A t \in Threads :
        thread[t].pc = "conn_callback" => dev[thread[t].dev].adapter \in m_adapter_list

\* common/gattlib_internal.h, state: it prevents concurrent operations, so a
\* device is CONNECTED only as the outcome of a connection in progress.
ConnectedOnlyFromConnecting ==
    [][\A d \in heap :
          Listed(d) /\ dev'[d].state = "CONNECTED" =>
              dev[d].state \in {"CONNECTING", "CONNECTED"}]_vars
=============================================================================
