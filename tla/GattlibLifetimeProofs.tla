----------------------- MODULE GattlibLifetimeProofs -----------------------
(***************************************************************************)
(* The adapters of GattlibDevice, and what the two reference counters      *)
(* promise.                                                                *)
(*                                                                         *)
(* First what a step may do to the devices of an adapter, to its object    *)
(* manager and to its reference counter.  Then the counters of adapters    *)
(* and of devices implement Lifetime: initial states map to initial states *)
(* and steps to steps or stutters, for every value of the constants.       *)
(*                                                                         *)
(* The mapping counts users, the code counts references.  The invariants   *)
(* make the two equal (UsersAreRefs), so that it is enough to say what a    *)
(* step does to the counters (RefForms) and to the allocated objects.       *)
(***************************************************************************)
EXTENDS GattlibDeviceProofs

-----------------------------------------------------------------------------
(* What an adapter and its devices keep.                                   *)

\* The part of the state these theorems are about.
ListTypes ==
    /\ devices \in [Adapters -> SUBSET Devices]
    /\ discovery \in [Adapters -> DiscoveryRecord]

\* An adapter with devices, or with signals attached, has its object manager:
\* devices are only added by the signals, which only a manager can send.
ManagerInv ==
    \A a \in Adapters : devices[a] # {} \/ discovery[a].attached => discovery[a].manager

\* The steps that leave the lists of devices and the discovery alone.
LEMMA QuietSteps ==
    ASSUME \/ \E u \in Apps : AdapterOpen(u) \/ AdapterOpenCreate(u) \/ DisconnectReturn(u)
           \/ \E u \in Apps, d \in Devices, wait \in BOOLEAN : Disconnect(u, d, wait)
           \/ \E a \in Adapters, p \in Paths : BluezObjectChange(a, p)
           \/ ConnectNext
           \/ \E t \in Threads : \/ DiscoveredThreadLock(t) \/ DiscoveredThreadCall(t)
                                 \/ ConnectedThreadRead(t) \/ ConnectedThreadLock(t)
                                 \/ ConnectedThreadEnd(t)
           \/ UNCHANGED vars
    PROVE  UNCHANGED <<devices, discovery>>
  BY DEF AdapterOpen, AdapterOpenCreate, DisconnectReturn, Disconnect, BluezObjectChange, ConnectNext,
         Connect, ConnectProxyError, ConnectError, StopConnect, OnServicesResolved, OnDisconnected,
         OnLinkUp, DiscoveredThreadLock, DiscoveredThreadCall, ConnectedThreadRead,
         ConnectedThreadLock, ConnectedThreadEnd, vars, adapterVars, deviceVars

\* How the lists of devices and the discovery may change in one step: a scan
\* starts or ends, a device is announced or forgotten, or an adapter is freed.
ScanChange ==
    /\ devices' = devices
    /\ \A a \in Adapters :
          /\ discovery[a].manager => discovery'[a].manager
          /\ discovery'[a].attached => discovery[a].attached \/ discovery'[a].manager

DeviceAnnounced ==
    /\ discovery' = discovery
    /\ \E a \in Adapters :
          /\ discovery[a].attached
          /\ \E d \in Devices \ heap : devices' = [devices EXCEPT ![a] = @ \cup {d}]

DeviceForgotten ==
    /\ discovery' = discovery
    /\ \E a \in Adapters, gone \in SUBSET Devices :
          /\ \A d \in gone : dev[d].state = "DISCONNECTED"
          /\ devices' = [devices EXCEPT ![a] = @ \ gone]

AdapterFreed ==
    \E a \in Adapters :
        /\ m_adapter_list' = m_adapter_list \ {a}
        /\ devices' = [devices EXCEPT ![a] = {}]
        /\ discovery' = [discovery EXCEPT ![a] = NoDiscovery]

\* Stopping the discovery only touches the callback.
LEMMA StopTypes ==
    ASSUME ListTypes, NEW a \in Adapters, NEW x \in StopDiscovery(a)
    PROVE  x \in [Adapters -> DiscoveryRecord]
  BY DEF StopDiscovery, ListTypes, DiscoveryRecord

\* It keeps the object manager and its signals.
LEMMA StopKeepsManager ==
    ASSUME ListTypes, NEW a \in Adapters, NEW x \in StopDiscovery(a), NEW b \in Adapters
    PROVE  x[b].manager = discovery[b].manager /\ x[b].attached = discovery[b].attached
  BY DEF StopDiscovery, ListTypes, DiscoveryRecord

\* Enabling, disabling and detaching a scan keep the lists and the manager.
LEMMA ScanSteps ==
    ASSUME ListTypes, NEW a \in Adapters, ScanEnable(a) \/ ScanDisable(a) \/ ScanDetach(a)
    PROVE  ScanChange
<1>0. \A b \in Adapters : discovery[b] \in DiscoveryRecord
  BY DEF ListTypes
<1>1. CASE ScanEnable(a)
  BY <1>1, <1>0 DEF ScanEnable, ScanChange, ListTypes, DiscoveryRecord
<1>2. CASE ScanDisable(a)
  <2>1. devices' = devices /\ discovery' \in StopDiscovery(a)
    BY <1>2 DEF ScanDisable, StopDiscovery
  <2> QED BY <2>1, StopKeepsManager DEF ScanChange
<1>3. CASE ScanDetach(a)
  <2>1. PICK x \in StopDiscovery(a) : discovery' = [x EXCEPT ![a].attached = FALSE]
    BY <1>3 DEF ScanDetach
  <2>2. x \in [Adapters -> DiscoveryRecord]
    BY <2>1, StopTypes
  <2>3. \A b \in Adapters : discovery'[b].manager = x[b].manager
                           /\ (discovery'[b].attached => x[b].attached)
    BY <2>1, <2>2 DEF DiscoveryRecord
  <2>4. \A b \in Adapters : x[b].manager = discovery[b].manager /\ x[b].attached = discovery[b].attached
    BY <2>1, StopKeepsManager
  <2>5. devices' = devices
    BY <1>3 DEF ScanDetach
  <2> QED BY <2>3, <2>4, <2>5 DEF ScanChange
<1> QED BY <1>1, <1>2, <1>3

\* Dropping a reference of an adapter frees it or leaves its lists alone.
LEMMA UnrefSteps ==
    ASSUME NEW a \in Adapters, gattlib_adapter_unref(a)
    PROVE  AdapterFreed \/ UNCHANGED <<devices, discovery>>
  BY DEF gattlib_adapter_unref, AdapterFreed

\* Every step is of one of these forms.
LEMMA StepForms ==
    ASSUME DeviceInv, [Next]_vars
    PROVE  \/ UNCHANGED <<devices, discovery>>
           \/ ScanChange \/ DeviceAnnounced \/ DeviceForgotten \/ AdapterFreed
<1>0. /\ ListTypes /\ app \in [Apps -> AppRecord] /\ thread \in [Threads -> ThreadRecord]
      /\ m_adapter_list \subseteq Adapters
  BY DEF DeviceInv, TypeOK, ListTypes
<1> DEFINE Goal == \/ UNCHANGED <<devices, discovery>>
                   \/ ScanChange \/ DeviceAnnounced \/ DeviceForgotten \/ AdapterFreed
<1>1. ASSUME NEW u \in Apps, AdapterCloseFinish(u) PROVE Goal
  <2>1. gattlib_adapter_unref(app[u].adapter) /\ app[u].adapter \in Adapters
    BY <1>0, <1>1 DEF AdapterCloseFinish, gattlib_adapter_unref
  <2> QED BY <2>1, UnrefSteps
<1>2. ASSUME NEW u \in Apps, NEW a \in Adapters, AdapterClose(u, a) PROVE Goal
  <2>1. CASE gattlib_adapter_unref(a)
    BY <2>1, UnrefSteps
  <2>2. CASE discovery' \in StopDiscovery(a) /\ UNCHANGED devices
    BY <1>0, <2>2, StopKeepsManager DEF ScanChange
  <2> QED BY <1>2, <2>1, <2>2 DEF AdapterClose
<1>3. ASSUME NEW a \in Adapters, NEW p \in Paths,
             OnDbusObjectAdded(a, p) \/ OnInterfacePropertiesChanged(a, p)
      PROVE  Goal
  <2>1. discovery[a].attached /\ discovery' = discovery
    BY <1>3 DEF OnDbusObjectAdded, OnInterfacePropertiesChanged
  <2>2. devices' = devices \/ AllocateDevice(a, p, "DISCONNECTED")
    BY <1>3 DEF OnDbusObjectAdded, OnInterfacePropertiesChanged
  <2> QED BY <2>1, <2>2 DEF AllocateDevice, DeviceAnnounced
<1>4. ASSUME NEW a \in Adapters, NEW p \in Paths, OnDbusObjectRemoved(a, p) PROVE Goal
  <2>1. PICK gone \in SUBSET Devices :
          gone = {d \in gattlib_device_get_device(a, p) : dev[d].state = "DISCONNECTED"}
    BY <1>0 DEF gattlib_device_get_device, ListTypes
  <2>2. discovery' = discovery /\ devices' = [devices EXCEPT ![a] = @ \ gone]
    BY <1>4, <2>1 DEF OnDbusObjectRemoved
  <2>3. \A d \in gone : dev[d].state = "DISCONNECTED"
    BY <2>1
  <2> QED BY <2>2, <2>3 DEF DeviceForgotten
<1>5. ASSUME NEW t \in Threads, DiscoveredThreadEnd(t) PROVE Goal
  <2>1. gattlib_adapter_unref(thread[t].adapter) /\ thread[t].adapter \in Adapters
    BY <1>0, <1>5 DEF DiscoveredThreadEnd, gattlib_adapter_unref
  <2> QED BY <2>1, UnrefSteps
<1> QED BY <1>0, <1>1, <1>2, <1>3, <1>4, <1>5, QuietSteps, ScanSteps
        DEF Next, AppNext, ScanNext, ThreadNext

\* A device that was allocated before the step enters no list: only a device of
\* new memory does.
LEMMA ListedBefore ==
    ASSUME DeviceInv, [Next]_vars, NEW d \in heap, Listed(d)'
    PROVE  Listed(d)
<1>1. devices \in [Adapters -> SUBSET Devices]
  BY DEF DeviceInv, TypeOK
<1> QED BY <1>1, StepForms DEF ScanChange, DeviceAnnounced, DeviceForgotten, AdapterFreed, Listed

-----------------------------------------------------------------------------
(* The object manager.                                                     *)

\* The invariant of the object manager is inductive.
LEMMA ManagerStep ==
    ASSUME DeviceInv, ManagerInv, [Next]_vars
    PROVE  ManagerInv'
<1>0. ListTypes
  BY DEF DeviceInv, TypeOK, ListTypes
<1>1. CASE UNCHANGED <<devices, discovery>>
  BY <1>1 DEF ManagerInv
<1>2. CASE ScanChange
  BY <1>0, <1>2 DEF ScanChange, ManagerInv, ListTypes, DiscoveryRecord
<1>3. CASE DeviceAnnounced
  BY <1>0, <1>3 DEF DeviceAnnounced, ManagerInv, ListTypes
<1>4. CASE DeviceForgotten
  BY <1>0, <1>4 DEF DeviceForgotten, ManagerInv, ListTypes
<1>5. CASE AdapterFreed
  BY <1>0, <1>5 DEF AdapterFreed, ManagerInv, ListTypes, NoDiscovery
<1> QED BY <1>1, <1>2, <1>3, <1>4, <1>5, StepForms

\* The invariant of the object manager in every behaviour.
THEOREM ManagerInvariance == Spec => []ManagerInv
<1>1. Init => ManagerInv
  BY DEF Init, ManagerInv, NoDiscovery
<1>2. DeviceInv /\ ManagerInv /\ [Next]_vars => ManagerInv'
  BY ManagerStep
<1> QED BY <1>1, <1>2, DeviceInvariance, PTL DEF Spec

\* _on_device_connect always finds the object manager it needs: an adapter has
\* one for as long as it has a device.
THEOREM DevicesAlwaysHaveManager == Spec => []DevicesHaveManager
<1>1. ManagerInv => DevicesHaveManager
  BY DEF ManagerInv, DevicesHaveManager
<1> QED BY <1>1, ManagerInvariance, PTL

-----------------------------------------------------------------------------
(* Forgetting devices.                                                     *)

\* A step forgets a device that is not DISCONNECTED only by freeing its
\* adapter.
LEMMA ForgetStep ==
    ASSUME DeviceInv, [Next]_vars
    PROVE  \A a \in Adapters : \A d \in devices[a] :
             d \notin devices'[a] => dev[d].state = "DISCONNECTED" \/ a \notin m_adapter_list'
<1>0. ListTypes
  BY DEF DeviceInv, TypeOK, ListTypes
<1> SUFFICES ASSUME NEW a \in Adapters, NEW d \in devices[a], d \notin devices'[a]
             PROVE  dev[d].state = "DISCONNECTED" \/ a \notin m_adapter_list'
  OBVIOUS
<1>1. CASE UNCHANGED <<devices, discovery>> \/ ScanChange
  BY <1>1 DEF ScanChange
<1>2. CASE DeviceAnnounced
  BY <1>0, <1>2 DEF DeviceAnnounced, ListTypes
<1>3. CASE DeviceForgotten
  BY <1>0, <1>3 DEF DeviceForgotten, ListTypes
<1>4. CASE AdapterFreed
  BY <1>0, <1>4 DEF AdapterFreed, ListTypes
<1> QED BY <1>1, <1>2, <1>3, <1>4, StepForms

\* gattlib_device_set_state(NOT_FOUND) forgets DISCONNECTED devices only; the
\* others are in their adapter's list until it is freed.
THEOREM ForgottenWhenDisconnected == Spec => OnlyDisconnectedForgotten
<1>1. DeviceInv /\ [Next]_vars =>
        [\A a \in Adapters : \A d \in devices[a] :
            d \notin devices'[a] => dev[d].state = "DISCONNECTED" \/ a \notin m_adapter_list']_vars
  BY ForgetStep
<1> QED BY <1>1, DeviceInvariance, PTL DEF Spec, OnlyDisconnectedForgotten

-----------------------------------------------------------------------------
(* The reference counter of an adapter.                                    *)

\* A thread that is counted by the adapter, and a close that is.
InDiscovered(t) == thread[t].pc \in {"disc_call", "disc_callback"}

IsClosing(u) == app[u].pc = "closing"

\* The users that the counter of an adapter stands for.
Users(a) == opens[a] + Cardinality(DiscoveredCallbacks(a)) + Cardinality(Closers(a))

\* The counter of an adapter is exact, and whoever is counted keeps the adapter
\* in the list; when it leaves the list, nobody is counted.
AdapterInv ==
    /\ AdapterRefCount
    /\ CallbackAdapterAlive
    /\ \A a \in Adapters : opens[a] > 0 => a \in m_adapter_list

\* The part of the type invariant that the counters need.
AdapterTypes ==
    /\ m_adapter_list \subseteq Adapters
    /\ adapterRef \in [Adapters -> Nat]
    /\ opens \in [Adapters -> Nat]
    /\ thread \in [Threads -> ThreadRecord]
    /\ app \in [Apps -> AppRecord]

\* The sets of users are finite.
LEMMA UserCounts ==
    \A a : /\ IsFiniteSet(DiscoveredCallbacks(a)) /\ Cardinality(DiscoveredCallbacks(a)) \in Nat
          /\ IsFiniteSet(Closers(a)) /\ Cardinality(Closers(a)) \in Nat
<1> TAKE a
<1>1. DiscoveredCallbacks(a) \in SUBSET Threads /\ Closers(a) \in SUBSET Apps
  BY DEF DiscoveredCallbacks, Closers
<1>2. IsFiniteSet(DiscoveredCallbacks(a)) /\ IsFiniteSet(Closers(a))
  BY <1>1, ConstantAssumption, FS_Subset
<1> QED BY <1>2, FS_CardinalityType

\* The callbacks and the closes are those of before.
SameUsers ==
    /\ \A t \in Threads : /\ InDiscovered(t)' <=> InDiscovered(t)
                          /\ InDiscovered(t) => thread'[t].adapter = thread[t].adapter
    /\ \A u \in Apps : /\ IsClosing(u)' <=> IsClosing(u)
                       /\ IsClosing(u) => app'[u].adapter = app[u].adapter

\* The sets of users are then those of before too.
LEMMA SameUserSets ==
    ASSUME SameUsers
    PROVE  \A a : DiscoveredCallbacks(a)' = DiscoveredCallbacks(a) /\ Closers(a)' = Closers(a)
  BY DEF SameUsers, InDiscovered, IsClosing, DiscoveredCallbacks, Closers

\* A step that changes no user, no counter and no list.
LEMMA AdapterFrame ==
    ASSUME AdapterInv, AdapterTypes, SameUsers, UNCHANGED <<m_adapter_list, adapterRef, opens>>
    PROVE  AdapterInv'
<1>1. AdapterRefCount'
  BY SameUserSets DEF AdapterInv, AdapterRefCount
<1>2. CallbackAdapterAlive'
  BY DEF AdapterInv, CallbackAdapterAlive, SameUsers, InDiscovered, IsClosing
<1> QED BY <1>1, <1>2 DEF AdapterInv

\* gattlib_adapter_unref by one of the users of the adapter: the last one frees
\* it, and there is no other then.
LEMMA UnrefByUser ==
    ASSUME AdapterInv, AdapterTypes, AdapterTypes', NEW a \in Adapters, gattlib_adapter_unref(a),
           Users(a)' = Users(a) - 1,
           \A b \in Adapters : b # a => Users(b)' = Users(b),
           \A t \in Threads : InDiscovered(t)' =>
               InDiscovered(t) /\ thread'[t].adapter = thread[t].adapter,
           \A u \in Apps : IsClosing(u)' => IsClosing(u) /\ app'[u].adapter = app[u].adapter,
           \A b \in Adapters : opens'[b] > 0 => opens[b] > 0
    PROVE  AdapterInv'
<1>1. a \in m_adapter_list /\ adapterRef' = [adapterRef EXCEPT ![a] = @ - 1]
  BY DEF gattlib_adapter_unref
<1>2. \A b \in m_adapter_list : adapterRef[b] = Users(b)
  BY DEF AdapterInv, AdapterRefCount, Users
<1>3. /\ adapterRef'[a] = adapterRef[a] - 1
      /\ \A b \in Adapters : b # a => adapterRef'[b] = adapterRef[b]
  BY <1>1 DEF AdapterTypes
<1>4. m_adapter_list' \subseteq m_adapter_list
  BY DEF gattlib_adapter_unref
<1>5. AdapterRefCount'
  BY <1>1, <1>2, <1>3, <1>4 DEF AdapterRefCount, Users, AdapterTypes
<1>6. CASE adapterRef[a] > 1
  <2>1. m_adapter_list' = m_adapter_list
    BY <1>6, <1>1 DEF gattlib_adapter_unref, AdapterTypes
  <2>2. CallbackAdapterAlive'
    BY <2>1 DEF AdapterInv, CallbackAdapterAlive, InDiscovered, IsClosing
  <2> QED BY <1>5, <2>1, <2>2 DEF AdapterInv
<1>7. CASE adapterRef[a] <= 1
  <2>1. m_adapter_list' = m_adapter_list \ {a}
    BY <1>7, <1>1 DEF gattlib_adapter_unref, AdapterTypes
  <2>2. Users(a)' <= 0
    <3>1. Users(a) = adapterRef[a] /\ adapterRef[a] \in Nat
      BY <1>1, <1>2 DEF AdapterTypes
    <3> QED BY <1>7, <3>1
  <2>3. (opens[a] = 0 /\ DiscoveredCallbacks(a) = {} /\ Closers(a) = {})'
    <3>1. /\ (IsFiniteSet(DiscoveredCallbacks(a)) /\ Cardinality(DiscoveredCallbacks(a)) \in Nat)'
          /\ (IsFiniteSet(Closers(a)) /\ Cardinality(Closers(a)) \in Nat)'
      <4>1. DiscoveredCallbacks(a)' \in SUBSET Threads /\ Closers(a)' \in SUBSET Apps
        BY DEF DiscoveredCallbacks, Closers
      <4>2. IsFiniteSet(DiscoveredCallbacks(a)') /\ IsFiniteSet(Closers(a)')
        BY <4>1, ConstantAssumption, FS_Subset
      <4> QED BY <4>2, FS_CardinalityType
    <3>2. opens'[a] \in Nat
      BY DEF AdapterTypes
    <3>3. opens'[a] = 0 /\ Cardinality(DiscoveredCallbacks(a)') = 0 /\ Cardinality(Closers(a)') = 0
      BY <2>2, <3>1, <3>2 DEF Users
    <3> QED BY <3>1, <3>3, FS_EmptySet
  <2>4. CallbackAdapterAlive'
    BY <2>1, <2>3 DEF AdapterInv, CallbackAdapterAlive, InDiscovered, IsClosing,
                      DiscoveredCallbacks, Closers
  <2>5. \A b \in Adapters : opens'[b] > 0 => b \in m_adapter_list'
    BY <2>1, <2>3 DEF AdapterInv
  <2> QED BY <1>5, <2>4, <2>5 DEF AdapterInv
<1> QED BY <1>1, <1>6, <1>7 DEF AdapterTypes

\* A thread that is dispatched is not counted before it takes the mutex.
LEMMA DispatchIsNoUser ==
    ASSUME AdapterTypes, NEW h, NEW r \in ThreadRecord, r.pc \in {"disc_start", "conn_read"},
           gattlib_handler_dispatch_to_thread(h, r), UNCHANGED app
    PROVE  SameUsers
<1>1. \A t \in Threads : InDiscovered(t)' <=> InDiscovered(t)
  BY DEF gattlib_handler_dispatch_to_thread, InDiscovered, AdapterTypes
<1>2. \A t \in Threads : InDiscovered(t) => thread'[t].adapter = thread[t].adapter
  BY DEF gattlib_handler_dispatch_to_thread, InDiscovered, AdapterTypes
<1> QED BY <1>1, <1>2 DEF SameUsers, IsClosing

\* A step of a thread that neither takes nor drops a reference.
LEMMA ThreadIsNoUser ==
    ASSUME AdapterTypes, NEW t \in Threads, NEW r \in ThreadRecord,
           thread' = [thread EXCEPT ![t] = r], UNCHANGED app,
           InDiscovered(t) <=> r.pc \in {"disc_call", "disc_callback"},
           InDiscovered(t) => r.adapter = thread[t].adapter
    PROVE  SameUsers
  BY DEF AdapterTypes, SameUsers, InDiscovered, IsClosing

\* The steps that no counter sees.
LEMMA UncountedSteps ==
    ASSUME TypeOK, AdapterTypes,
           \/ \E u \in Apps : DisconnectReturn(u)
           \/ \E u \in Apps, d \in Devices, wait \in BOOLEAN : Disconnect(u, d, wait)
           \/ ScanNext \/ ConnectNext
           \/ \E t \in Threads : \/ DiscoveredThreadCall(t) \/ ConnectedThreadRead(t)
                                 \/ ConnectedThreadLock(t) \/ ConnectedThreadEnd(t)
           \/ UNCHANGED vars
    PROVE  SameUsers /\ UNCHANGED <<m_adapter_list, adapterRef, opens>>
<1> DEFINE Goal == SameUsers /\ UNCHANGED <<m_adapter_list, adapterRef, opens>>
<1>0. UNCHANGED <<thread, app>> => SameUsers
  BY DEF SameUsers, InDiscovered, IsClosing
<1>1. ASSUME NEW u \in Apps,
             DisconnectReturn(u) \/ \E d \in Devices, wait \in BOOLEAN : Disconnect(u, d, wait)
      PROVE  Goal
  <2>1. thread' = thread /\ UNCHANGED <<m_adapter_list, adapterRef, opens>>
    BY <1>1 DEF DisconnectReturn, Disconnect, adapterVars
  <2>2. \/ app' = app
        \/ \E r : app' = [app EXCEPT ![u] = r] /\ r.pc # "closing" /\ app[u].pc # "closing"
    BY <1>1 DEF DisconnectReturn, Disconnect, IdleApp
  <2> QED BY <2>1, <2>2 DEF AdapterTypes, SameUsers, InDiscovered, IsClosing
<1>2. CASE ScanNext
  <2>1. ASSUME NEW a \in Adapters, ScanEnable(a) \/ ScanDisable(a) \/ ScanDetach(a) PROVE Goal
    BY <2>1, <1>0 DEF ScanEnable, ScanDisable, ScanDetach
  <2>2. ASSUME NEW a \in Adapters, NEW p \in Paths,
               OnDbusObjectRemoved(a, p) \/ BluezObjectChange(a, p)
        PROVE  Goal
    BY <2>2, <1>0 DEF OnDbusObjectRemoved, BluezObjectChange
  <2>3. ASSUME NEW a \in Adapters, NEW p \in Paths,
               OnDbusObjectAdded(a, p) \/ OnInterfacePropertiesChanged(a, p)
        PROVE  Goal
    <3>1. /\ gattlib_on_discovered_device(a)
          /\ UNCHANGED <<m_adapter_list, adapterRef, opens, app>>
      BY <2>3 DEF OnDbusObjectAdded, OnInterfacePropertiesChanged
    <3>2. [pc |-> "disc_start", dev |-> NoDevice, adapter |-> a] \in ThreadRecord
      BY DEF ThreadRecord, ThreadPc
    <3> QED BY <3>1, <3>2, DispatchIsNoUser DEF gattlib_on_discovered_device
  <2> QED BY <1>2, <2>1, <2>2, <2>3 DEF ScanNext
<1>3. CASE ConnectNext
  <2>1. UNCHANGED <<m_adapter_list, adapterRef, opens, app>>
    BY <1>3 DEF ConnectNext, Connect, ConnectProxyError, ConnectError, StopConnect,
                OnServicesResolved, OnDisconnected, OnLinkUp, adapterVars
  <2>2. \/ UNCHANGED thread
        \/ \E x \in Proxies : proxy[x].dev # NoDevice /\ gattlib_connection_is_valid(proxy[x].dev)
                              /\ gattlib_on_connected_device(proxy[x].dev)
    BY <1>3 DEF ConnectNext, Connect, ConnectProxyError, ConnectError, StopConnect,
                OnServicesResolved, OnDisconnected, OnLinkUp
  <2>3. ASSUME NEW d \in Devices, gattlib_on_connected_device(d) PROVE SameUsers
    <3>1. [pc |-> "conn_read", dev |-> d, adapter |-> NoAdapter] \in ThreadRecord
      BY DEF ThreadRecord, ThreadPc
    <3> QED BY <2>1, <2>3, <3>1, DispatchIsNoUser DEF gattlib_on_connected_device
  <2>4. \A x \in Proxies : proxy[x].dev # NoDevice => proxy[x].dev \in Devices
    BY DEF TypeOK
  <2> QED BY <1>0, <2>1, <2>2, <2>3, <2>4
<1>4. ASSUME NEW t \in Threads,
             \/ DiscoveredThreadCall(t) \/ ConnectedThreadRead(t)
             \/ ConnectedThreadLock(t) \/ ConnectedThreadEnd(t)
      PROVE  Goal
  <2>1. UNCHANGED <<m_adapter_list, adapterRef, opens, app>>
    BY <1>4 DEF DiscoveredThreadCall, ConnectedThreadRead, ConnectedThreadLock,
                ConnectedThreadEnd, adapterVars
  <2> QED BY <1>4, <2>1 DEF DiscoveredThreadCall, ConnectedThreadRead, ConnectedThreadLock,
             ConnectedThreadEnd, SameUsers, InDiscovered, IsClosing, AdapterTypes, ThreadRecord, NoThread
<1>5. CASE UNCHANGED vars
  BY <1>0, <1>5 DEF vars, adapterVars
<1> QED BY <1>1, <1>2, <1>3, <1>4, <1>5

\* gattlib_adapter_open: the opens and the counter grow together.
LEMMA OpenStep ==
    ASSUME AdapterInv, AdapterTypes, NEW u \in Apps, AdapterOpen(u)
    PROVE  AdapterInv'
<1>1. SameUsers
  BY DEF AdapterOpen, IdleApp, AdapterTypes, SameUsers, InDiscovered, IsClosing
<1>2. CASE UNCHANGED <<adapterRef, opens>>
  BY <1>1, <1>2, AdapterFrame DEF AdapterOpen
<1>3. CASE \E a \in m_adapter_list : /\ adapterRef' = [adapterRef EXCEPT ![a] = @ + 1]
                                     /\ opens' = [opens EXCEPT ![a] = @ + 1]
  <2>1. PICK a \in m_adapter_list : /\ adapterRef' = [adapterRef EXCEPT ![a] = @ + 1]
                                    /\ opens' = [opens EXCEPT ![a] = @ + 1]
    BY <1>3
  <2>2. m_adapter_list' = m_adapter_list
    BY DEF AdapterOpen
  <2>3. AdapterRefCount'
    BY <1>1, <2>1, <2>2, SameUserSets, UserCounts DEF AdapterInv, AdapterRefCount, AdapterTypes
  <2>4. CallbackAdapterAlive'
    BY <1>1, <2>2 DEF AdapterInv, CallbackAdapterAlive, SameUsers, InDiscovered, IsClosing
  <2>5. \A b \in Adapters : opens'[b] > 0 => b \in m_adapter_list'
    BY <2>1, <2>2 DEF AdapterInv, AdapterTypes
  <2> QED BY <2>3, <2>4, <2>5 DEF AdapterInv
<1> QED BY <1>2, <1>3 DEF AdapterOpen

\* A new adapter has one user, the application that opened it.
LEMMA CreateStep ==
    ASSUME AdapterInv, AdapterTypes, NEW u \in Apps, AdapterOpenCreate(u)
    PROVE  AdapterInv'
<1>1. SameUsers
  BY DEF AdapterOpenCreate, IdleApp, AdapterTypes, SameUsers, InDiscovered, IsClosing
<1>2. CASE UNCHANGED <<m_adapter_list, adapterRef, opens>>
  BY <1>1, <1>2, AdapterFrame
<1>3. CASE \E a \in Adapters \ m_adapter_list : /\ m_adapter_list' = m_adapter_list \cup {a}
                                                /\ adapterRef' = [adapterRef EXCEPT ![a] = 1]
                                                /\ opens' = [opens EXCEPT ![a] = 1]
  <2>1. PICK a \in Adapters \ m_adapter_list : /\ m_adapter_list' = m_adapter_list \cup {a}
                                               /\ adapterRef' = [adapterRef EXCEPT ![a] = 1]
                                               /\ opens' = [opens EXCEPT ![a] = 1]
    BY <1>3
  <2>2. DiscoveredCallbacks(a) = {} /\ Closers(a) = {}
    BY <2>1 DEF AdapterInv, CallbackAdapterAlive, DiscoveredCallbacks, Closers
  <2>3. Cardinality({}) = 0
    BY FS_EmptySet
  <2>4. AdapterRefCount'
    <3> SUFFICES ASSUME NEW b \in m_adapter_list'
                 PROVE  adapterRef'[b] = opens'[b] + Cardinality(DiscoveredCallbacks(b)')
                                         + Cardinality(Closers(b)')
      BY DEF AdapterRefCount
    <3>1. DiscoveredCallbacks(b)' = DiscoveredCallbacks(b) /\ Closers(b)' = Closers(b)
      BY <1>1, SameUserSets
    <3>2. CASE b = a
      <4>1. adapterRef'[b] = 1 /\ opens'[b] = 1
        BY <2>1, <3>2 DEF AdapterTypes
      <4>2. DiscoveredCallbacks(b)' = {} /\ Closers(b)' = {}
        BY <2>2, <3>1, <3>2
      <4> QED BY <2>3, <4>1, <4>2
    <3>3. CASE b # a
      <4>1. /\ b \in m_adapter_list /\ b \in Adapters
            /\ adapterRef'[b] = adapterRef[b] /\ opens'[b] = opens[b]
        BY <2>1, <3>3 DEF AdapterTypes
      <4> QED BY <3>1, <4>1 DEF AdapterInv, AdapterRefCount
    <3> QED BY <3>2, <3>3
  <2>5. CallbackAdapterAlive'
    BY <1>1, <2>1 DEF AdapterInv, CallbackAdapterAlive, SameUsers, InDiscovered, IsClosing
  <2>6. \A b \in Adapters : opens'[b] > 0 => b \in m_adapter_list'
    BY <2>1 DEF AdapterInv, AdapterTypes
  <2> QED BY <2>4, <2>5, <2>6 DEF AdapterInv
<1> QED BY <1>2, <1>3 DEF AdapterOpenCreate

\* gattlib_adapter_close gives its reference back, or keeps it while it waits
\* for the scan: the open that is closed becomes a close in progress.
LEMMA CloseStep ==
    ASSUME PairedClose, AdapterInv, AdapterTypes, AdapterTypes',
           NEW u \in Apps, NEW a \in Adapters, AdapterClose(u, a)
    PROVE  AdapterInv'
<1>1. /\ opens[a] > 0 /\ app[u].pc = "idle" /\ thread' = thread
      /\ opens' = [opens EXCEPT ![a] = @ - 1]
  BY DEF AdapterClose
<1>2. opens'[a] = opens[a] - 1 /\ \A b \in Adapters : b # a => opens'[b] = opens[b]
  BY <1>1 DEF AdapterTypes
<1>3. CASE gattlib_adapter_unref(a) /\ app' = app
  <2>1. SameUsers
    BY <1>1, <1>3 DEF SameUsers, InDiscovered, IsClosing
  <2>2. Users(a)' = Users(a) - 1 /\ \A b \in Adapters : b # a => Users(b)' = Users(b)
    BY <1>2, <2>1, SameUserSets, UserCounts DEF Users, AdapterTypes
  <2>3. \A b \in Adapters : opens'[b] > 0 => opens[b] > 0
    BY <1>1, <1>2
  <2> QED BY <1>3, <2>1, <2>2, <2>3, UnrefByUser DEF SameUsers
<1>4. CASE /\ app' = [app EXCEPT ![u] = [pc |-> "closing", dev |-> NoDevice, adapter |-> a]]
           /\ UNCHANGED <<m_adapter_list, adapterRef>>
  <2>1. \A b : DiscoveredCallbacks(b)' = DiscoveredCallbacks(b)
    BY <1>1 DEF DiscoveredCallbacks
  <2>2. Closers(a)' = Closers(a) \cup {u} /\ u \notin Closers(a)
    BY <1>1, <1>4 DEF Closers, AdapterTypes
  <2>3. \A b \in Adapters : b # a => Closers(b)' = Closers(b)
    BY <1>1, <1>4 DEF Closers, AdapterTypes
  <2>4. Cardinality(Closers(a)') = Cardinality(Closers(a)) + 1
    BY <2>2, UserCounts, FS_AddElement
  <2>5. AdapterRefCount'
    BY <1>2, <1>4, <2>1, <2>3, <2>4, UserCounts DEF AdapterInv, AdapterRefCount, AdapterTypes
  <2>6. CallbackAdapterAlive'
    BY <1>1, <1>4 DEF AdapterInv, CallbackAdapterAlive, AdapterTypes
  <2>7. \A b \in Adapters : opens'[b] > 0 => b \in m_adapter_list'
    BY <1>1, <1>2, <1>4 DEF AdapterInv
  <2> QED BY <2>5, <2>6, <2>7 DEF AdapterInv
<1> QED BY <1>3, <1>4 DEF AdapterClose

\* The end of gattlib_adapter_close drops the reference of the one that closes.
LEMMA CloseFinishStep ==
    ASSUME AdapterInv, AdapterTypes, AdapterTypes', NEW u \in Apps, AdapterCloseFinish(u)
    PROVE  AdapterInv'
<1>0. PICK a : a = app[u].adapter
  OBVIOUS
<1>1. /\ app[u].pc = "closing" /\ gattlib_adapter_unref(a) /\ app' = [app EXCEPT ![u] = IdleApp]
      /\ UNCHANGED <<opens, thread>> /\ a \in Adapters
  BY <1>0 DEF AdapterCloseFinish, gattlib_adapter_unref, AdapterTypes
<1>2. \A b : DiscoveredCallbacks(b)' = DiscoveredCallbacks(b)
  BY <1>1 DEF DiscoveredCallbacks
<1>3. /\ u \in Closers(a) /\ Closers(a)' = Closers(a) \ {u}
      /\ \A b \in Adapters : b # a => Closers(b)' = Closers(b)
  BY <1>0, <1>1 DEF Closers, AdapterTypes, IdleApp
<1>4. Cardinality(Closers(a)') = Cardinality(Closers(a)) - 1
  BY <1>3, UserCounts, FS_RemoveElement
<1>5. Users(a)' = Users(a) - 1
  BY <1>1, <1>2, <1>4, UserCounts DEF Users, AdapterTypes
<1>6. \A b \in Adapters : b # a => Users(b)' = Users(b)
  BY <1>1, <1>2, <1>3 DEF Users
<1>7. /\ \A t \in Threads : InDiscovered(t)' => InDiscovered(t) /\ thread'[t].adapter = thread[t].adapter
      /\ \A v \in Apps : IsClosing(v)' => IsClosing(v) /\ app'[v].adapter = app[v].adapter
  BY <1>1 DEF InDiscovered, IsClosing, AdapterTypes, IdleApp
<1> QED BY <1>1, <1>5, <1>6, <1>7, UnrefByUser

\* The end of a discovery callback drops the reference of its thread.
LEMMA DiscoveredEndStep ==
    ASSUME AdapterInv, AdapterTypes, AdapterTypes', NEW t \in Threads, DiscoveredThreadEnd(t)
    PROVE  AdapterInv'
<1>0. PICK a : a = thread[t].adapter
  OBVIOUS
<1>1. /\ thread[t].pc = "disc_callback" /\ gattlib_adapter_unref(a)
      /\ thread' = [thread EXCEPT ![t] = NoThread]
      /\ UNCHANGED <<opens, app>> /\ a \in Adapters
  BY <1>0 DEF DiscoveredThreadEnd, gattlib_adapter_unref, AdapterTypes
<1>2. \A b : Closers(b)' = Closers(b)
  BY <1>1 DEF Closers
<1>3. /\ t \in DiscoveredCallbacks(a) /\ DiscoveredCallbacks(a)' = DiscoveredCallbacks(a) \ {t}
      /\ \A b \in Adapters : b # a => DiscoveredCallbacks(b)' = DiscoveredCallbacks(b)
  BY <1>0, <1>1 DEF DiscoveredCallbacks, AdapterTypes, NoThread
<1>4. Cardinality(DiscoveredCallbacks(a)') = Cardinality(DiscoveredCallbacks(a)) - 1
  BY <1>3, UserCounts, FS_RemoveElement
<1>5. Users(a)' = Users(a) - 1
  BY <1>1, <1>2, <1>4, UserCounts DEF Users, AdapterTypes
<1>6. \A b \in Adapters : b # a => Users(b)' = Users(b)
  BY <1>1, <1>2, <1>3 DEF Users
<1>7. /\ \A s \in Threads : InDiscovered(s)' => InDiscovered(s) /\ thread'[s].adapter = thread[s].adapter
      /\ \A v \in Apps : IsClosing(v)' => IsClosing(v) /\ app'[v].adapter = app[v].adapter
  BY <1>1 DEF InDiscovered, IsClosing, AdapterTypes, NoThread
<1> QED BY <1>1, <1>5, <1>6, <1>7, UnrefByUser

\* The discovery thread that finds its adapter takes a reference to it.
LEMMA DiscoveredLockStep ==
    ASSUME AdapterInv, AdapterTypes, NEW t \in Threads, DiscoveredThreadLock(t)
    PROVE  AdapterInv'
<1> DEFINE a == thread[t].adapter
<1>1. thread[t].pc = "disc_start" /\ UNCHANGED <<m_adapter_list, opens, app>>
  BY DEF DiscoveredThreadLock
<1>2. CASE thread' = [thread EXCEPT ![t] = NoThread] /\ adapterRef' = adapterRef
  <2>1. SameUsers
    BY <1>1, <1>2 DEF SameUsers, InDiscovered, IsClosing, AdapterTypes, NoThread
  <2> QED BY <1>1, <1>2, <2>1, AdapterFrame
<1>3. CASE /\ a \in m_adapter_list /\ adapterRef' = [adapterRef EXCEPT ![a] = @ + 1]
           /\ thread' = [thread EXCEPT ![t].pc = "disc_call"]
  <2>0. /\ thread'[t].pc = "disc_call" /\ thread'[t].adapter = a
        /\ \A s \in Threads : s # t => thread'[s] = thread[s]
    BY <1>3 DEF AdapterTypes, ThreadRecord
  <2>1. \A b : Closers(b)' = Closers(b)
    BY <1>1 DEF Closers
  <2>2. /\ DiscoveredCallbacks(a)' = DiscoveredCallbacks(a) \cup {t} /\ t \notin DiscoveredCallbacks(a)
        /\ \A b \in Adapters : b # a => DiscoveredCallbacks(b)' = DiscoveredCallbacks(b)
    BY <1>1, <2>0 DEF DiscoveredCallbacks
  <2>3. Cardinality(DiscoveredCallbacks(a)') = Cardinality(DiscoveredCallbacks(a)) + 1
    BY <2>2, UserCounts, FS_AddElement
  <2>4. AdapterRefCount'
    BY <1>1, <1>3, <2>1, <2>2, <2>3, UserCounts DEF AdapterInv, AdapterRefCount, AdapterTypes
  <2>5. CallbackAdapterAlive'
    BY <1>1, <1>3, <2>0 DEF AdapterInv, CallbackAdapterAlive
  <2> QED BY <1>1, <2>4, <2>5 DEF AdapterInv
<1> QED BY <1>2, <1>3 DEF DiscoveredThreadLock

\* The invariant of the counters is inductive when closes are paired.
LEMMA AdapterStep ==
    ASSUME PairedClose, AdapterInv, TypeOK, TypeOK', [Next]_vars
    PROVE  AdapterInv'
<1>1. AdapterTypes /\ AdapterTypes'
  BY DEF TypeOK, AdapterTypes
<1>2. \/ \E u \in Apps : \/ AdapterOpen(u) \/ AdapterOpenCreate(u) \/ AdapterCloseFinish(u)
                         \/ \E a \in Adapters : AdapterClose(u, a)
      \/ \E t \in Threads : DiscoveredThreadLock(t) \/ DiscoveredThreadEnd(t)
      \/ SameUsers /\ UNCHANGED <<m_adapter_list, adapterRef, opens>>
  BY <1>1, UncountedSteps DEF Next, AppNext, ThreadNext
<1> QED BY <1>1, <1>2, AdapterFrame, OpenStep, CreateStep, CloseStep, CloseFinishStep,
           DiscoveredLockStep, DiscoveredEndStep

\* The invariant of the counters in every behaviour of an application that
\* closes an adapter once per open.
THEOREM AdapterInvariance ==
    ASSUME PairedClose
    PROVE  Spec => []AdapterInv
<1>1. Init => AdapterInv
  BY DEF Init, AdapterInv, AdapterRefCount, CallbackAdapterAlive, NoThread, IdleApp
<1>2. AdapterInv /\ TypeOK /\ TypeOK' /\ [Next]_vars => AdapterInv'
  BY PairedClose, AdapterStep
<1> QED BY <1>1, <1>2, TypeCorrect, PTL DEF Spec

\* adapter->reference_counter is exact: it counts the opens, the discovery
\* callbacks and the closes in progress, and nothing else.
THEOREM AdapterCountIsExact ==
    ASSUME PairedClose
    PROVE  Spec => []AdapterRefCount
<1>1. AdapterInv => AdapterRefCount
  BY DEF AdapterInv
<1> QED BY <1>1, AdapterInvariance, PairedClose, PTL

\* An adapter is not freed under a discovery callback or under a close that
\* waits for the end of its scan.
THEOREM CallbackAdapterSafe ==
    ASSUME PairedClose
    PROVE  Spec => []CallbackAdapterAlive
<1>1. AdapterInv => CallbackAdapterAlive
  BY DEF AdapterInv
<1> QED BY <1>1, AdapterInvariance, PairedClose, PTL

-----------------------------------------------------------------------------
(* The counter of an adapter implements Lifetime.                          *)

\* In terms of the mapping: an adapter has as many users as references, and
\* none when it is not in the list.
AdapterUsersAreRefs ==
    \A a \in Adapters : AdapterUsers(a) = IF a \in m_adapter_list THEN adapterRef[a] ELSE 0

LEMMA AdapterUsersExact == TypeOK /\ AdapterInv => AdapterUsersAreRefs
<1> SUFFICES ASSUME TypeOK, AdapterInv, NEW a \in Adapters
             PROVE  AdapterUsers(a) = IF a \in m_adapter_list THEN adapterRef[a] ELSE 0
  BY DEF AdapterUsersAreRefs
<1>1. CASE a \in m_adapter_list
  BY <1>1 DEF AdapterInv, AdapterRefCount, AdapterUsers
<1>2. CASE a \notin m_adapter_list
  <2>1. opens[a] = 0
    BY <1>2 DEF AdapterInv, TypeOK
  <2>2. DiscoveredCallbacks(a) = {} /\ Closers(a) = {}
    BY <1>2 DEF AdapterInv, CallbackAdapterAlive, DiscoveredCallbacks, Closers
  <2> QED BY <1>2, <2>1, <2>2, FS_EmptySet DEF AdapterUsers
<1> QED BY <1>1, <1>2

\* What a step may do to the adapters: nothing, an open or a callback takes a
\* reference, an adapter is created with one, or one is dropped.
AdapterRefTaken == \E a \in m_adapter_list :
    /\ adapterRef' = [adapterRef EXCEPT ![a] = @ + 1]
    /\ UNCHANGED m_adapter_list

AdapterCreated == \E a \in Adapters \ m_adapter_list :
    /\ adapterRef' = [adapterRef EXCEPT ![a] = 1]
    /\ m_adapter_list' = m_adapter_list \cup {a}

AdapterRefDropped == \E a \in m_adapter_list : gattlib_adapter_unref(a)

LEMMA AdapterRefForms ==
    ASSUME TypeOK, [Next]_vars
    PROVE  \/ UNCHANGED <<m_adapter_list, adapterRef>>
           \/ AdapterRefTaken \/ AdapterCreated \/ AdapterRefDropped
<1> DEFINE Goal == \/ UNCHANGED <<m_adapter_list, adapterRef>>
                   \/ AdapterRefTaken \/ AdapterCreated \/ AdapterRefDropped
<1>1. ASSUME NEW u \in Apps, AdapterOpen(u) PROVE Goal
  BY <1>1 DEF AdapterOpen, AdapterRefTaken
<1>2. ASSUME NEW u \in Apps, AdapterOpenCreate(u) PROVE Goal
  BY <1>2 DEF AdapterOpenCreate, AdapterCreated
<1>3. ASSUME NEW u \in Apps, AdapterCloseFinish(u) PROVE Goal
  BY <1>3 DEF AdapterCloseFinish, AdapterRefDropped, gattlib_adapter_unref
<1>4. ASSUME NEW u \in Apps, NEW a \in Adapters, AdapterClose(u, a) PROVE Goal
  <2>1. gattlib_adapter_unref(a) \/ UNCHANGED <<m_adapter_list, adapterRef>>
    BY <1>4 DEF AdapterClose
  <2>2. a \in m_adapter_list
    BY <1>4 DEF AdapterClose
  <2> QED BY <2>1, <2>2 DEF AdapterRefDropped
<1>5. ASSUME NEW t \in Threads, DiscoveredThreadLock(t) PROVE Goal
  BY <1>5 DEF DiscoveredThreadLock, AdapterRefTaken
<1>6. ASSUME NEW t \in Threads, DiscoveredThreadEnd(t) PROVE Goal
  BY <1>6 DEF DiscoveredThreadEnd, AdapterRefDropped, gattlib_adapter_unref
<1>7. ASSUME \/ \E u \in Apps : \/ DisconnectReturn(u)
                                \/ \E d \in Devices, wait \in BOOLEAN : Disconnect(u, d, wait)
             \/ ScanNext \/ ConnectNext
             \/ \E t \in Threads : \/ DiscoveredThreadCall(t) \/ ConnectedThreadRead(t)
                                   \/ ConnectedThreadLock(t) \/ ConnectedThreadEnd(t)
             \/ UNCHANGED vars
      PROVE  UNCHANGED <<m_adapter_list, adapterRef>>
  <2>1. CASE ScanNext
    BY <2>1 DEF ScanNext, ScanEnable, ScanDisable, ScanDetach, OnDbusObjectAdded, OnDbusObjectRemoved,
                OnInterfacePropertiesChanged, BluezObjectChange
  <2>2. CASE ConnectNext
    BY <2>2 DEF ConnectNext, Connect, ConnectProxyError, ConnectError, StopConnect, OnServicesResolved,
                OnDisconnected, OnLinkUp, adapterVars
  <2>3. CASE \E u \in Apps : \/ DisconnectReturn(u)
                             \/ \E d \in Devices, wait \in BOOLEAN : Disconnect(u, d, wait)
    BY <2>3 DEF DisconnectReturn, Disconnect, adapterVars
  <2>4. CASE \E t \in Threads : \/ DiscoveredThreadCall(t) \/ ConnectedThreadRead(t)
                                \/ ConnectedThreadLock(t) \/ ConnectedThreadEnd(t)
    BY <2>4 DEF DiscoveredThreadCall, ConnectedThreadRead, ConnectedThreadLock, ConnectedThreadEnd,
                adapterVars
  <2>5. CASE UNCHANGED vars
    BY <2>5 DEF vars, adapterVars
  <2> QED BY <1>7, <2>1, <2>2, <2>3, <2>4, <2>5
<1> QED BY <1>1, <1>2, <1>3, <1>4, <1>5, <1>6, <1>7 DEF Next, AppNext, ThreadNext

\* Each adapter makes one of the moves of Lifetime.
LEMMA AdapterMove ==
    ASSUME TypeOK, AdapterRefPositive, [Next]_vars, NEW a \in Adapters
    PROVE  \/ a \notin m_adapter_list /\ a \in m_adapter_list' /\ adapterRef'[a] = 1
           \/ a \in m_adapter_list /\ a \in m_adapter_list' /\ adapterRef'[a] = adapterRef[a] + 1
           \/ /\ a \in m_adapter_list /\ a \in m_adapter_list'
              /\ adapterRef[a] > 1 /\ adapterRef'[a] = adapterRef[a] - 1
           \/ a \in m_adapter_list /\ a \notin m_adapter_list' /\ adapterRef[a] = 1
           \/ (a \in m_adapter_list' <=> a \in m_adapter_list) /\ adapterRef'[a] = adapterRef[a]
<1>0. m_adapter_list \subseteq Adapters /\ adapterRef \in [Adapters -> Nat]
  BY DEF TypeOK
<1>1. CASE UNCHANGED <<m_adapter_list, adapterRef>>
  BY <1>1
<1>2. CASE AdapterRefTaken
  BY <1>0, <1>2 DEF AdapterRefTaken
<1>3. CASE AdapterCreated
  BY <1>0, <1>3 DEF AdapterCreated
<1>4. CASE AdapterRefDropped
  <2>1. PICK b \in m_adapter_list : gattlib_adapter_unref(b)
    BY <1>4 DEF AdapterRefDropped
  <2>2. adapterRef' = [adapterRef EXCEPT ![b] = @ - 1]
    BY <2>1 DEF gattlib_adapter_unref
  <2>3. \/ adapterRef[b] > 1 /\ m_adapter_list' = m_adapter_list
        \/ adapterRef[b] <= 1 /\ m_adapter_list' = m_adapter_list \ {b}
    BY <2>1 DEF gattlib_adapter_unref
  <2>4. adapterRef[b] \in Nat /\ adapterRef[b] >= 1
    BY <1>0, <2>1 DEF AdapterRefPositive
  <2> QED BY <1>0, <2>2, <2>3, <2>4
<1> QED BY <1>1, <1>2, <1>3, <1>4, AdapterRefForms

\* The step of the library maps to a step of Lifetime.
LEMMA AdapterLifeStep ==
    ASSUME TypeOK, TypeOK', AdapterRefPositive, AdapterUsersAreRefs, AdapterUsersAreRefs', [Next]_vars
    PROVE  AdapterLife!Next
<1>1. /\ m_adapter_list' \subseteq Adapters
      /\ adapterRef \in [Adapters -> Nat] /\ adapterRef' \in [Adapters -> Nat]
  BY DEF TypeOK
<1>2. \A a \in Adapters :
        /\ AdapterUsers(a) = IF a \in m_adapter_list THEN adapterRef[a] ELSE 0
        /\ AdapterUsers(a)' = IF a \in m_adapter_list' THEN adapterRef'[a] ELSE 0
  BY DEF AdapterUsersAreRefs
<1>3. [a \in Adapters |-> AdapterUsers(a)]' \in [Adapters -> Nat]
  BY <1>1, <1>2
<1> QED BY <1>1, <1>2, <1>3, AdapterMove
        DEF AdapterLife!Next, AdapterLife!Create, AdapterLife!Acquire, AdapterLife!Release,
            AdapterLife!Free, AdapterLife!Unused

\* Adapters live as Lifetime says in every behaviour of an application that
\* closes an adapter once per open (gattlib_adapter_ref, gattlib_adapter_unref).
THEOREM AdapterImplementsLifetime ==
    ASSUME PairedClose
    PROVE  Spec => AdapterLifetime
<1>1. Init => AdapterLife!Init
  <2> SUFFICES ASSUME Init PROVE AdapterLife!Init
    OBVIOUS
  <2>1. \A a \in Adapters : DiscoveredCallbacks(a) = {} /\ Closers(a) = {}
    BY DEF Init, NoThread, IdleApp, DiscoveredCallbacks, Closers
  <2>2. \A a \in Adapters : AdapterUsers(a) = 0
    <3>1. Cardinality({}) = 0 /\ \A a \in Adapters : opens[a] = 0
      BY FS_EmptySet DEF Init
    <3> QED BY <2>1, <3>1 DEF AdapterUsers
  <2>3. m_adapter_list = {}
    BY DEF Init
  <2> QED BY <2>2, <2>3 DEF AdapterLife!Init
<1>2. /\ TypeOK /\ TypeOK' /\ AdapterRefPositive
      /\ AdapterUsersAreRefs /\ AdapterUsersAreRefs' /\ [Next]_vars
      => [AdapterLife!Next]_(AdapterLife!life)
  BY AdapterLifeStep
<1>3. DeviceInv => TypeOK /\ AdapterRefPositive
  BY DEF DeviceInv
<1> QED BY <1>1, <1>2, <1>3, AdapterUsersExact, DeviceInvariance, AdapterInvariance, PairedClose, PTL
        DEF Spec, AdapterLifetime, AdapterLife!Spec

-----------------------------------------------------------------------------
(* The counter of a device implements Lifetime.                            *)

\* An allocated device has a reference, and the memory of a freed one is in no
\* state that would make it look used.
HeapInv == \A d \in Devices :
    IF d \in heap THEN dev[d].ref >= 1 ELSE dev[d].state = "DISCONNECTED"

\* In terms of the mapping: a device has as many users as references, and none
\* when it is freed.
DeviceUsersAreRefs ==
    \A d \in Devices : DeviceUsers(d) = IF d \in heap THEN dev[d].ref ELSE 0

LEMMA DeviceUsersExact == DeviceInv /\ HeapInv => DeviceUsersAreRefs
<1> SUFFICES ASSUME DeviceInv, HeapInv, NEW d \in Devices
             PROVE  DeviceUsers(d) = IF d \in heap THEN dev[d].ref ELSE 0
  BY DEF DeviceUsersAreRefs
<1>1. CASE d \in heap
  BY <1>1 DEF DeviceInv, DeviceRefCount, DeviceUsers
<1>2. CASE d \notin heap
  <2>1. ~Listed(d) /\ dev[d].state = "DISCONNECTED"
    BY <1>2 DEF DeviceInv, UniquePaths, Listed, HeapInv
  <2>2. ConnectedCallbacks(d) = {}
    BY <1>2 DEF DeviceInv, CallbackDeviceAlive, ConnectedCallbacks
  <2>3. Cardinality({}) = 0
    BY FS_EmptySet
  <2> QED BY <1>2, <2>1, <2>2, <2>3 DEF DeviceUsers
<1> QED BY <1>1, <1>2

\* What a step may do to the devices: change neither their counters nor the
\* freed ones, allocate one, take a reference, or drop references to several.
RefsKept ==
    /\ UNCHANGED heap
    /\ \A d \in Devices : /\ dev'[d].ref = dev[d].ref
                          /\ d \notin heap => dev'[d].state = dev[d].state

DeviceAllocated == \E a \in Adapters, p \in Paths : AllocateDevice(a, p, "DISCONNECTED")

DeviceRefTaken == \E d \in heap : dev' = [dev EXCEPT ![d].ref = @ + 1] /\ UNCHANGED heap

RefsDropped == \E S \in SUBSET heap : UnrefDevices(S)

\* gattlib_device_set_state, with or without changes of the other fields of a
\* valid device, keeps the counters.
LEMMA OverwriteKeepsRefs ==
    ASSUME DeviceInv, NEW D \in [Devices -> DeviceRecord], NEW a \in Adapters, NEW p,
           NEW s \in DeviceState, NEW O, O = OverwriteState(D, a, p, s), UNCHANGED heap,
           \A d \in Devices : /\ D[d].ref = dev[d].ref
                              /\ d \notin heap => D[d].state = dev[d].state,
           \A d \in Devices : /\ dev'[d].ref = O[d].ref
                              /\ d \notin heap => dev'[d].state = O[d].state
    PROVE  RefsKept
<1>1. \A d \in Devices : d \notin heap => d \notin devices[a]
  BY DEF DeviceInv, UniquePaths
<1> QED BY <1>1, OverwriteFacts DEF RefsKept

\* gattlib_adapter_unref.
LEMMA AdapterUnrefForms ==
    ASSUME DeviceInv, NEW a, gattlib_adapter_unref(a)
    PROVE  RefsKept \/ RefsDropped
<1>1. a \in Adapters /\ devices[a] \subseteq heap
  BY DEF gattlib_adapter_unref, DeviceInv, TypeOK, UniquePaths
<1>2. CASE UNCHANGED <<heap, dev>>
  BY <1>2 DEF RefsKept
<1>3. CASE UnrefDevices({d \in devices[a] : dev[d].state = "DISCONNECTED"})
  BY <1>1, <1>3 DEF RefsDropped
<1> QED BY <1>2, <1>3 DEF gattlib_adapter_unref

\* The connections of a device and what follows them.
LEMMA ConnectKeepsRefs ==
    ASSUME DeviceInv, NEW a \in Adapters, NEW d \in Devices,
           Connect(a, d) \/ ConnectProxyError(a, d) \/ ConnectError(a, d)
    PROVE  RefsKept
<1>0. dev \in [Devices -> DeviceRecord]
  BY DEF DeviceInv, TypeOK
<1>1. Listed(d) /\ UNCHANGED heap
  BY DEF Connect, ConnectProxyError, ConnectError, CanConnect, Listed
<1>2. d \in heap /\ dev[d].adapter \in Adapters
  BY <1>1, ListedFacts DEF DeviceInv, TypeOK
<1>3. PICK s \in DeviceState, r \in [DeviceRecord -> DeviceRecord] :
        /\ \A e \in DeviceRecord : r[e].ref = e.ref
        /\ dev' = [OverwriteState(dev, dev[d].adapter, dev[d].path, s) EXCEPT ![d] = r[@]]
  <2>1. {"CONNECTING", "DISCONNECTED"} \subseteq DeviceState
    BY DEF DeviceState
  <2> DEFINE Result(s, r) ==
        dev' = [OverwriteState(dev, dev[d].adapter, dev[d].path, s) EXCEPT ![d] = r[@]]
  <2>2. \A s \in DeviceState :
          OverwriteState(dev, dev[d].adapter, dev[d].path, s) \in [Devices -> DeviceRecord]
    BY <1>0, <1>2, OverwriteFacts
  <2>3. CASE ConnectProxyError(a, d)
    <3>1. PICK r : r = [e \in DeviceRecord |-> [e EXCEPT !.handler = TRUE]]
      OBVIOUS
    <3>2. r \in [DeviceRecord -> DeviceRecord] /\ \A e \in DeviceRecord : r[e].ref = e.ref
      BY <3>1 DEF DeviceRecord
    <3>3. Result("CONNECTING", r)
      BY <2>1, <2>2, <2>3, <3>1 DEF ConnectProxyError
    <3> QED BY <2>1, <3>2, <3>3
  <2>4. CASE Connect(a, d)
    <3>0. PICK x \in Proxies :
            dev' = [OverwriteState(dev, dev[d].adapter, dev[d].path, "CONNECTING")
                       EXCEPT ![d] = [@ EXCEPT !.handler = TRUE, !.proxy = x, !.timeout = TRUE]]
      BY <2>4 DEF Connect
    <3>1. PICK r : r = [e \in DeviceRecord |-> [e EXCEPT !.handler = TRUE, !.proxy = x, !.timeout = TRUE]]
      OBVIOUS
    <3>2. r \in [DeviceRecord -> DeviceRecord] /\ \A e \in DeviceRecord : r[e].ref = e.ref
      BY <3>1 DEF DeviceRecord
    <3>3. Result("CONNECTING", r)
      BY <2>1, <2>2, <3>0, <3>1
    <3> QED BY <2>1, <3>2, <3>3
  <2>5. CASE ConnectError(a, d)
    <3>0. PICK x \in Proxies :
            dev' = [OverwriteState(dev, dev[d].adapter, dev[d].path, "DISCONNECTED")
                       EXCEPT ![d] = [@ EXCEPT !.handler = TRUE, !.proxy = x]]
      BY <2>5 DEF ConnectError
    <3>1. PICK r : r = [e \in DeviceRecord |-> [e EXCEPT !.handler = TRUE, !.proxy = x]]
      OBVIOUS
    <3>2. r \in [DeviceRecord -> DeviceRecord] /\ \A e \in DeviceRecord : r[e].ref = e.ref
      BY <3>1 DEF DeviceRecord
    <3>3. Result("DISCONNECTED", r)
      BY <2>1, <2>2, <3>0, <3>1
    <3> QED BY <2>1, <3>2, <3>3
  <2> QED BY <2>3, <2>4, <2>5
<1>4. PICK O : O = OverwriteState(dev, dev[d].adapter, dev[d].path, s)
  OBVIOUS
<1>5. O \in [Devices -> DeviceRecord]
  BY <1>0, <1>2, <1>4, OverwriteFacts
<1>6. \A e \in Devices : dev'[e].ref = O[e].ref /\ (e \notin heap => dev'[e].state = O[e].state)
  BY <1>2, <1>3, <1>4, <1>5
<1> QED BY <1>0, <1>1, <1>2, <1>4, <1>6, OverwriteKeepsRefs

LEMMA SignalKeepsRefs ==
    ASSUME DeviceInv, NEW x \in Proxies, OnServicesResolved(x) \/ OnDisconnected(x)
    PROVE  RefsKept
<1>0. dev \in [Devices -> DeviceRecord] /\ UNCHANGED heap
  BY DEF DeviceInv, TypeOK, OnServicesResolved, OnDisconnected
<1>1. CASE dev' = dev
  BY <1>0, <1>1 DEF RefsKept
<1>2. CASE dev' # dev
  <2>1. PICK d : d = proxy[x].dev
    OBVIOUS
  <2>2. gattlib_connection_is_valid(d)
    BY <1>2, <2>1 DEF OnServicesResolved, OnDisconnected
  <2>3. d \in Devices /\ d \in heap /\ dev[d].adapter \in Adapters
    BY <2>2, ListedFacts DEF DeviceInv, TypeOK, gattlib_connection_is_valid, Listed
  <2>4. PICK s \in DeviceState, r \in DeviceRecord :
          /\ r.ref = dev[d].ref
          /\ dev' = OverwriteState([dev EXCEPT ![d] = r], dev[d].adapter, dev[d].path, s)
    <3>1. CASE OnServicesResolved(x)
      <4>1. dev' = OverwriteState([dev EXCEPT ![d] = [@ EXCEPT !.timeout = FALSE, !.objects = "held"]],
                                  dev[d].adapter, dev[d].path, "CONNECTED")
        BY <2>1, <2>2, <3>1 DEF OnServicesResolved
      <4>2. /\ [dev[d] EXCEPT !.timeout = FALSE, !.objects = "held"] \in DeviceRecord
            /\ [dev[d] EXCEPT !.timeout = FALSE, !.objects = "held"].ref = dev[d].ref
        BY <1>0, <2>3 DEF DeviceRecord
      <4>3. "CONNECTED" \in DeviceState
        BY DEF DeviceState
      <4> QED BY <4>1, <4>2, <4>3
    <3>2. CASE OnDisconnected(x)
      <4> DEFINE r == [dev[d] EXCEPT !.proxy = NoProxy, !.timeout = FALSE,
                                     !.objects = FreeObjects(dev[d].objects)]
      <4>1. dev' = OverwriteState([dev EXCEPT ![d] = r], dev[d].adapter, dev[d].path, "DISCONNECTED")
        BY <2>1, <2>2, <3>2 DEF OnDisconnected, gattlib_connection_free
      <4>2. r \in DeviceRecord
        BY <1>0, <2>3, DeviceUpdates
      <4>3. r.ref = dev[d].ref
        BY <1>0, <2>3 DEF DeviceRecord
      <4>4. "DISCONNECTED" \in DeviceState
        BY DEF DeviceState
      <4> QED BY <4>1, <4>2, <4>3, <4>4
    <3> QED BY <3>1, <3>2
  <2>5. PICK D \in [Devices -> DeviceRecord] : D = [dev EXCEPT ![d] = r]
    BY <1>0, <2>3, <2>4
  <2>6. \A e \in Devices : D[e].ref = dev[e].ref /\ (e \notin heap => D[e].state = dev[e].state)
    BY <1>0, <2>3, <2>4, <2>5
  <2> QED BY <1>0, <2>3, <2>4, <2>5, <2>6, OverwriteKeepsRefs
<1> QED BY <1>1, <1>2

\* Every step is of one of these forms.
LEMMA DeviceRefForms ==
    ASSUME DeviceInv, [Next]_vars
    PROVE  RefsKept \/ DeviceAllocated \/ DeviceRefTaken \/ RefsDropped
<1> DEFINE Goal == RefsKept \/ DeviceAllocated \/ DeviceRefTaken \/ RefsDropped
<1>0. /\ dev \in [Devices -> DeviceRecord] /\ devices \in [Adapters -> SUBSET Devices]
      /\ thread \in [Threads -> ThreadRecord] /\ m_adapter_list \subseteq Adapters
      /\ \A a \in Adapters : devices[a] \subseteq heap
  BY DEF DeviceInv, TypeOK, UniquePaths
<1>1. ASSUME UNCHANGED <<heap, dev>> PROVE RefsKept
  BY <1>1 DEF RefsKept
<1>2. ASSUME NEW u \in Apps, AdapterCloseFinish(u) PROVE Goal
  BY <1>2, AdapterUnrefForms DEF AdapterCloseFinish
<1>3. ASSUME NEW u \in Apps, NEW a \in Adapters, AdapterClose(u, a) PROVE Goal
  <2>1. gattlib_adapter_unref(a) \/ UNCHANGED <<heap, dev>>
    BY <1>3 DEF AdapterClose
  <2> QED BY <1>1, <2>1, AdapterUnrefForms
<1>4. ASSUME NEW u \in Apps, NEW d \in Devices, NEW wait \in BOOLEAN, Disconnect(u, d, wait) PROVE Goal
  <2>1. /\ UNCHANGED heap
        /\ dev' = OverwriteState(dev, dev[d].adapter, dev[d].path, "DISCONNECTING")
    BY <1>4 DEF Disconnect
  <2>2. Listed(d) /\ "DISCONNECTING" \in DeviceState
    BY <1>0, <1>4 DEF Disconnect, gattlib_connection_is_connected, gattlib_connection_is_valid,
                      Listed, DeviceState
  <2>3. dev[d].adapter \in Adapters
    BY <1>0, <2>2, ListedFacts
  <2> QED BY <1>0, <2>1, <2>2, <2>3, OverwriteKeepsRefs
<1>5. ASSUME NEW a \in Adapters, NEW p \in Paths, OnDbusObjectAdded(a, p) PROVE Goal
  <2>1. CASE AllocateDevice(a, p, "DISCONNECTED")
    BY <2>1 DEF DeviceAllocated
  <2>2. CASE dev' = OverwriteState(dev, a, p, "DISCONNECTED") /\ UNCHANGED heap
    <3>1. "DISCONNECTED" \in DeviceState
      BY DEF DeviceState
    <3> QED BY <1>0, <2>2, <3>1, OverwriteKeepsRefs
  <2> QED BY <1>5, <2>1, <2>2 DEF OnDbusObjectAdded
<1>6. ASSUME NEW a \in Adapters, NEW p \in Paths, OnInterfacePropertiesChanged(a, p) PROVE Goal
  BY <1>6 DEF OnInterfacePropertiesChanged, DeviceAllocated
<1>7. ASSUME NEW a \in Adapters, NEW p \in Paths, OnDbusObjectRemoved(a, p) PROVE Goal
  <2>1. PICK gone \in SUBSET heap :
          gone = {d \in gattlib_device_get_device(a, p) : dev[d].state = "DISCONNECTED"}
    BY <1>0 DEF gattlib_device_get_device
  <2>2. UnrefDevices(gone)
    BY <1>7, <2>1 DEF OnDbusObjectRemoved
  <2> QED BY <2>2 DEF RefsDropped
<1>8. ASSUME NEW d \in Devices, StopConnect(d) PROVE Goal
  BY <1>0, <1>8 DEF StopConnect, RefsKept, DeviceRecord
<1>9. ASSUME NEW t \in Threads, DiscoveredThreadEnd(t) PROVE Goal
  BY <1>9, AdapterUnrefForms DEF DiscoveredThreadEnd
<1>10. ASSUME NEW t \in Threads, ConnectedThreadLock(t) PROVE Goal
  <2>1. UNCHANGED heap
    BY <1>10 DEF ConnectedThreadLock
  <2>2. \/ UNCHANGED dev
        \/ /\ gattlib_connection_is_valid(thread[t].dev)
           /\ dev' = [dev EXCEPT ![thread[t].dev].ref = @ + 1]
    BY <1>10 DEF ConnectedThreadLock, gattlib_connection_is_connected
  <2>3. gattlib_connection_is_valid(thread[t].dev) => thread[t].dev \in heap
    BY <1>0 DEF gattlib_connection_is_valid
  <2> QED BY <1>1, <2>1, <2>2, <2>3 DEF DeviceRefTaken
<1>11. ASSUME NEW t \in Threads, ConnectedThreadEnd(t) PROVE Goal
  <2>1. thread[t].dev \in heap
    BY <1>11 DEF ConnectedThreadEnd, DeviceInv, CallbackDeviceAlive
  <2> QED BY <1>11, <2>1 DEF ConnectedThreadEnd, RefsDropped
<1>12. ASSUME \/ \E u \in Apps : AdapterOpen(u) \/ AdapterOpenCreate(u) \/ DisconnectReturn(u)
              \/ \E a \in Adapters : \/ ScanEnable(a) \/ ScanDisable(a) \/ ScanDetach(a)
                                     \/ \E p \in Paths : BluezObjectChange(a, p)
              \/ \E x \in Proxies : OnLinkUp(x)
              \/ \E t \in Threads : \/ DiscoveredThreadLock(t) \/ DiscoveredThreadCall(t)
                                    \/ ConnectedThreadRead(t)
              \/ UNCHANGED vars
       PROVE  UNCHANGED <<heap, dev>>
  BY <1>12 DEF AdapterOpen, AdapterOpenCreate, DisconnectReturn, ScanEnable, ScanDisable, ScanDetach,
               BluezObjectChange, OnLinkUp, DiscoveredThreadLock, DiscoveredThreadCall,
               ConnectedThreadRead, vars, deviceVars
<1> QED BY <1>1, <1>2, <1>3, <1>4, <1>5, <1>6, <1>7, <1>8, <1>9, <1>10, <1>11, <1>12,
           ConnectKeepsRefs, SignalKeepsRefs
        DEF Next, AppNext, ScanNext, ConnectNext, ThreadNext

\* Each device makes one of the moves of Lifetime, and a freed one keeps its
\* state or is given that of a freed one.
LEMMA DeviceMove ==
    ASSUME DeviceInv, HeapInv, [Next]_vars, NEW d \in Devices
    PROVE  /\ \/ d \notin heap /\ d \in heap' /\ dev'[d].ref = 1
              \/ d \in heap /\ d \in heap' /\ dev'[d].ref = dev[d].ref + 1
              \/ d \in heap /\ d \in heap' /\ dev[d].ref > 1 /\ dev'[d].ref = dev[d].ref - 1
              \/ d \in heap /\ d \notin heap' /\ dev[d].ref = 1
              \/ (d \in heap' <=> d \in heap) /\ dev'[d].ref = dev[d].ref
           /\ d \notin heap' => dev'[d].state = "DISCONNECTED"
<1>0. /\ dev \in [Devices -> DeviceRecord] /\ dev[d] \in DeviceRecord /\ dev[d].ref \in Nat
      /\ heap \subseteq Devices
  BY DEF DeviceInv, TypeOK, DeviceRecord
<1>1. /\ d \in heap => dev[d].ref >= 1
      /\ d \notin heap => dev[d].state = "DISCONNECTED"
  BY DEF HeapInv
<1>2. CASE RefsKept
  BY <1>1, <1>2 DEF RefsKept
<1>3. CASE DeviceAllocated
  <2>1. PICK n \in Devices \ heap : /\ heap' = heap \cup {n}
                                    /\ \E r : r.ref = 1 /\ dev' = [dev EXCEPT ![n] = r]
    BY <1>3 DEF DeviceAllocated, AllocateDevice, NewDevice
  <2>2. CASE d = n
    BY <1>0, <2>1, <2>2
  <2>3. CASE d # n
    BY <1>0, <1>1, <2>1, <2>3
  <2> QED BY <2>2, <2>3
<1>4. CASE DeviceRefTaken
  <2>1. PICK n \in heap : dev' = [dev EXCEPT ![n].ref = @ + 1] /\ UNCHANGED heap
    BY <1>4 DEF DeviceRefTaken
  <2>2. CASE d = n
    <3>1. dev'[d] = [dev[d] EXCEPT !.ref = @ + 1]
      BY <1>0, <2>1, <2>2
    <3>2. dev'[d].ref = dev[d].ref + 1
      BY <1>0, <3>1 DEF DeviceRecord
    <3> QED BY <2>1, <2>2, <3>2
  <2>3. CASE d # n
    BY <1>0, <1>1, <2>1, <2>3
  <2> QED BY <2>2, <2>3
<1>5. CASE RefsDropped
  <2>1. PICK S \in SUBSET heap : UnrefDevices(S)
    BY <1>5 DEF RefsDropped
  <2>2. /\ heap' = heap \ {e \in S : dev[e].ref <= 1}
        /\ dev'[d] = IF d \notin S THEN dev[d]
                     ELSE IF dev[d].ref <= 1 THEN FreedDevice
                     ELSE [dev[d] EXCEPT !.ref = @ - 1]
    BY <2>1 DEF UnrefDevices
  <2>3. CASE d \notin S
    BY <1>1, <2>2, <2>3
  <2>4. CASE d \in S /\ dev[d].ref <= 1
    BY <1>0, <1>1, <2>1, <2>2, <2>4 DEF FreedDevice, NewDevice
  <2>5. CASE d \in S /\ ~(dev[d].ref <= 1)
    <3>1. dev'[d].ref = dev[d].ref - 1
      BY <1>0, <2>2, <2>5 DEF DeviceRecord
    <3> QED BY <1>0, <2>1, <2>2, <2>5, <3>1
  <2> QED BY <2>3, <2>4, <2>5
<1> QED BY <1>2, <1>3, <1>4, <1>5, DeviceRefForms

\* The invariant of the memory is inductive.
LEMMA HeapStep ==
    ASSUME DeviceInv, HeapInv, [Next]_vars
    PROVE  HeapInv'
<1> SUFFICES ASSUME NEW d \in Devices
             PROVE  IF d \in heap' THEN dev'[d].ref >= 1 ELSE dev'[d].state = "DISCONNECTED"
  BY DEF HeapInv
<1>1. dev[d].ref \in Nat /\ (d \in heap => dev[d].ref >= 1)
  BY DEF DeviceInv, TypeOK, DeviceRecord, HeapInv
<1> QED BY <1>1, DeviceMove

LEMMA HeapInvariance == Spec => []HeapInv
<1>1. Init => HeapInv
  BY DEF Init, HeapInv, FreedDevice, NewDevice
<1>2. DeviceInv /\ HeapInv /\ [Next]_vars => HeapInv'
  BY HeapStep
<1> QED BY <1>1, <1>2, DeviceInvariance, PTL DEF Spec

\* The step of the library maps to a step of Lifetime.
LEMMA DeviceLifeStep ==
    ASSUME DeviceInv, TypeOK', HeapInv, DeviceUsersAreRefs, DeviceUsersAreRefs', [Next]_vars
    PROVE  DeviceLife!Next
<1>1. /\ heap' \subseteq Devices
      /\ \A d \in Devices : dev[d].ref \in Nat /\ dev'[d].ref \in Nat
  BY DEF DeviceInv, TypeOK, DeviceRecord
<1>2. \A d \in Devices :
        /\ DeviceUsers(d) = IF d \in heap THEN dev[d].ref ELSE 0
        /\ DeviceUsers(d)' = IF d \in heap' THEN dev'[d].ref ELSE 0
  BY DEF DeviceUsersAreRefs
<1>3. [d \in Devices |-> DeviceUsers(d)]' \in [Devices -> Nat]
  BY <1>1, <1>2
<1> QED BY <1>1, <1>2, <1>3, DeviceMove
        DEF DeviceLife!Next, DeviceLife!Create, DeviceLife!Acquire, DeviceLife!Release,
            DeviceLife!Free, DeviceLife!Unused

\* Devices live as Lifetime says in every behaviour of the library: their
\* memory is freed by the step in which the list of the adapter or the last
\* connection callback leaves them (gattlib_device_ref, gattlib_device_unref).
THEOREM DeviceImplementsLifetime == Spec => DeviceLifetime
<1>1. Init => DeviceLife!Init
  <2> SUFFICES ASSUME Init PROVE DeviceLife!Init
    OBVIOUS
  <2>1. \A d \in Devices : ConnectedCallbacks(d) = {} /\ ~Listed(d) /\ dev[d].state = "DISCONNECTED"
    BY DEF Init, NoThread, ConnectedCallbacks, Listed, FreedDevice, NewDevice
  <2>2. Cardinality({}) = 0
    BY FS_EmptySet
  <2>3. \A d \in Devices : DeviceUsers(d) = 0
    BY <2>1, <2>2 DEF DeviceUsers
  <2>4. heap = {}
    BY DEF Init
  <2> QED BY <2>3, <2>4 DEF DeviceLife!Init
<1>2. /\ DeviceInv /\ TypeOK' /\ HeapInv
      /\ DeviceUsersAreRefs /\ DeviceUsersAreRefs' /\ [Next]_vars
      => [DeviceLife!Next]_(DeviceLife!life)
  BY DeviceLifeStep
<1> QED BY <1>1, <1>2, DeviceUsersExact, DeviceInvariance, TypeCorrect, HeapInvariance, PTL
        DEF Spec, DeviceLifetime, DeviceLife!Spec
=============================================================================
