------------------------ MODULE GattlibDeviceProofs ------------------------
EXTENDS GattlibDevice, FiniteSetTheorems, TLAPS

\* The counter of an adapter in the list is at least one: the adapter is
\* removed from the list by the unref that would bring it to zero.
AdapterRefPositive == \A a \in m_adapter_list : adapterRef[a] >= 1

\* The inductive invariant of the devices.
DeviceInv ==
    /\ TypeOK
    /\ AdapterRefPositive
    /\ UniquePaths
    /\ DeviceRefCount
    /\ CallbackDeviceAlive
    /\ ConnectionIdsLive

\* The invariant holds initially: nothing is allocated.
LEMMA InitInv == Init => DeviceInv
<1> SUFFICES ASSUME Init PROVE DeviceInv
  OBVIOUS
<1> USE ConstantAssumption DEF Init
<1>1. TypeOK
  BY DEF TypeOK, FreedDevice, NewDevice, DeviceRecord, DeviceState, DiscoveryRecord, NoDiscovery,
         Detached, View, ThreadRecord, ThreadPc, NoThread, AppRecord, AppPc, IdleApp
<1>2. AdapterRefPositive /\ UniquePaths /\ DeviceRefCount /\ CallbackDeviceAlive /\ ConnectionIdsLive
  BY DEF AdapterRefPositive, UniquePaths, DeviceRefCount, CallbackDeviceAlive, ConnectionIdsLive, NoThread
<1> QED BY <1>1, <1>2 DEF DeviceInv

\* What gattlib_device_set_state does to the contents of the devices.
LEMMA OverwriteFacts ==
    ASSUME NEW D \in [Devices -> DeviceRecord], NEW a, NEW p, NEW s \in DeviceState
    PROVE  /\ OverwriteState(D, a, p, s) \in [Devices -> DeviceRecord]
           /\ \A d \in Devices :
                LET O == OverwriteState(D, a, p, s)
                IN  /\ O[d].ref = D[d].ref
                    /\ O[d].path = D[d].path
                    /\ O[d].adapter = D[d].adapter
                    /\ O[d].timeout = D[d].timeout
                    /\ O[d].proxy = D[d].proxy
                    /\ O[d].state \in {D[d].state, s}
                    /\ d \notin devices[a] => O[d] = D[d]
  BY DEF OverwriteState, DeviceRecord, DeviceState

-----------------------------------------------------------------------------
(* Frames: what a step must leave alone for the reference counts to hold.   *)

\* The threads that run a connection callback are the same after the step.
SameCallbacks ==
    \A t \in Threads :
        /\ (thread'[t].pc = "conn_callback") <=> (thread[t].pc = "conn_callback")
        /\ thread[t].pc = "conn_callback" => thread'[t].dev = thread[t].dev

\* A step that allocates and frees nothing, moves no device between lists and
\* changes no counter; only a listed device may change its state.
LEMMA QuietStep ==
    ASSUME DeviceInv, TypeOK', SameCallbacks,
           devices' = devices, heap' = heap,
           m_adapter_list \subseteq m_adapter_list',
           \A d \in Devices :
               /\ dev'[d].ref = dev[d].ref
               /\ dev'[d].path = dev[d].path
               /\ dev'[d].adapter = dev[d].adapter
               /\ ~Listed(d) => dev'[d].state = dev[d].state
    PROVE  UniquePaths' /\ DeviceRefCount' /\ CallbackDeviceAlive'
<1> USE DEF DeviceInv
<1>0. devices \in [Adapters -> SUBSET Devices] /\ heap \subseteq Devices
  BY DEF TypeOK
<1>1. UniquePaths'
  BY <1>0 DEF UniquePaths
<1>2. DeviceRefCount'
  <2>1. \A d : ConnectedCallbacks(d)' = ConnectedCallbacks(d)
    BY DEF SameCallbacks, ConnectedCallbacks
  <2> QED BY <1>0, <2>1 DEF DeviceRefCount, Listed
<1>3. CallbackDeviceAlive'
  BY DEF CallbackDeviceAlive, SameCallbacks
<1> QED BY <1>1, <1>2, <1>3

\* AllocateDevice keeps the counts: no callback runs on a device that is not
\* allocated.
LEMMA AllocationStep ==
    ASSUME DeviceInv, TypeOK', SameCallbacks,
           NEW a \in m_adapter_list, NEW p \in Paths,
           gattlib_device_get_device(a, p) = {},
           AllocateDevice(a, p, "DISCONNECTED"),
           m_adapter_list' = m_adapter_list
    PROVE  UniquePaths' /\ DeviceRefCount' /\ CallbackDeviceAlive'
<1> USE DEF DeviceInv
<1>0. /\ devices \in [Adapters -> SUBSET Devices] /\ heap \subseteq Devices
      /\ dev \in [Devices -> DeviceRecord] /\ a \in Adapters
  BY DEF TypeOK
<1>1. PICK n \in Devices \ heap :
        /\ heap' = heap \cup {n}
        /\ dev' = [dev EXCEPT ![n] = NewDevice(a, p, "DISCONNECTED")]
        /\ devices' = [devices EXCEPT ![a] = @ \cup {n}]
  BY DEF AllocateDevice
<1>2. \A b \in Adapters : n \notin devices[b]
  BY DEF UniquePaths
<1>3. dev'[n] = NewDevice(a, p, "DISCONNECTED")
  BY <1>0, <1>1
<1>4. \A d \in Devices \ {n} : dev'[d] = dev[d]
  BY <1>0, <1>1
<1>5. UniquePaths'
  <2> SUFFICES ASSUME NEW b \in Adapters, NEW d \in devices'[b]
               PROVE  /\ b \in m_adapter_list /\ d \in heap' /\ dev'[d].adapter = b
                      /\ \A e \in devices'[b] : dev'[e].path = dev'[d].path => e = d
    BY DEF UniquePaths
  <2>1. CASE b # a
    BY <2>1, <1>0, <1>1, <1>2, <1>4 DEF UniquePaths
  <2>2. CASE b = a
    <3>1. devices'[a] = devices[a] \cup {n}
      BY <1>0, <1>1
    <3>2. \A e \in devices[a] : dev'[e] = dev[e] /\ dev[e].path # p
      BY <1>0, <1>2, <1>4 DEF gattlib_device_get_device
    <3>3. dev'[n].path = p /\ dev'[n].adapter = a
      BY <1>3 DEF NewDevice
    <3> QED BY <2>2, <3>1, <3>2, <3>3, <1>1 DEF UniquePaths
  <2> QED BY <2>1, <2>2
<1>6. DeviceRefCount'
  <2>1. \A d : ConnectedCallbacks(d)' = ConnectedCallbacks(d)
    BY DEF SameCallbacks, ConnectedCallbacks
  <2>2. ConnectedCallbacks(n) = {}
    BY <1>1 DEF ConnectedCallbacks, CallbackDeviceAlive
  <2>3. \A d \in heap : Listed(d)' <=> Listed(d)
    BY <1>0, <1>1 DEF Listed
  <2>4. Listed(n)'
    BY <1>0, <1>1 DEF Listed
  <2>5. dev'[n].ref = Cardinality(ConnectedCallbacks(n)) + 1
    BY <1>3, <2>2, FS_EmptySet DEF NewDevice
  <2>6. \A d \in heap : d # n /\ d \in Devices
    BY <1>0, <1>1
  <2> QED BY <1>1, <1>4, <2>1, <2>3, <2>4, <2>5, <2>6 DEF DeviceRefCount
<1>7. CallbackDeviceAlive'
  BY <1>1 DEF CallbackDeviceAlive, SameCallbacks
<1> QED BY <1>5, <1>6, <1>7

\* Devices R leave the list of an adapter and the DISCONNECTED ones lose the
\* reference of the list: a device that no callback uses is freed, one that a
\* callback uses is not.
LEMMA RemovalStep ==
    ASSUME DeviceInv, SameCallbacks,
           NEW a \in m_adapter_list, NEW R \in SUBSET devices[a],
           devices' = [devices EXCEPT ![a] = devices[a] \ R],
           UnrefDevices({d \in R : dev[d].state = "DISCONNECTED"}),
           \/ m_adapter_list' = m_adapter_list
           \/ R = devices[a] /\ m_adapter_list' = m_adapter_list \ {a}
    PROVE  UniquePaths' /\ DeviceRefCount' /\ CallbackDeviceAlive'
<1> USE DEF DeviceInv
<1> DEFINE S == {d \in R : dev[d].state = "DISCONNECTED"}
<1>0. /\ devices \in [Adapters -> SUBSET Devices] /\ heap \subseteq Devices
      /\ dev \in [Devices -> DeviceRecord] /\ a \in Adapters
      /\ m_adapter_list \subseteq Adapters
  BY DEF TypeOK
<1>1. /\ devices'[a] = devices[a] \ R
      /\ \A b \in Adapters \ {a} : devices'[b] = devices[b]
  BY <1>0
<1>2. \A d \in R : d \in Devices /\ d \in heap /\ dev[d].adapter = a
  BY <1>0 DEF UniquePaths
<1>3. /\ heap' = heap \ {d \in S : dev[d].ref <= 1}
      /\ \A d \in Devices \ S : dev'[d] = dev[d]
      /\ \A d \in S : dev[d].ref > 1 => dev'[d] = [dev[d] EXCEPT !.ref = @ - 1]
  <2>1. heap' = heap \ {d \in S : dev[d].ref <= 1}
    BY DEF UnrefDevices
  <2>2. dev' = [d \in Devices |->
                 IF d \notin S THEN dev[d]
                 ELSE IF dev[d].ref <= 1 THEN FreedDevice
                 ELSE [dev[d] EXCEPT !.ref = @ - 1]]
    BY DEF UnrefDevices
  <2>3. \A d \in S : dev[d].ref \in Nat
    BY <1>0, <1>2 DEF DeviceRecord
  <2>4. \A d \in Devices \ S : dev'[d] = dev[d]
    BY <2>2
  <2>5. ASSUME NEW d \in S, dev[d].ref > 1
        PROVE  dev'[d] = [dev[d] EXCEPT !.ref = @ - 1]
    <3>1. d \in Devices /\ ~(dev[d].ref <= 1)
      BY <2>3, <2>5, <1>2
    <3> HIDE DEF S
    <3> QED BY <2>2, <3>1, <2>5
  <2> QED BY <2>1, <2>4, <2>5
<1>4. \A d \in R : Listed(d) /\ ~Listed(d)'
  BY <1>0, <1>1, <1>2 DEF Listed, UniquePaths
<1>5. \A d \in heap \ R : Listed(d)' <=> Listed(d)
  BY <1>0, <1>1 DEF Listed
<1>6. \A d : ConnectedCallbacks(d)' = ConnectedCallbacks(d)
  BY DEF SameCallbacks, ConnectedCallbacks
<1>7. \A d : IsFiniteSet(ConnectedCallbacks(d)) /\ Cardinality(ConnectedCallbacks(d)) \in Nat
  BY ConstantAssumption, FS_Subset, FS_CardinalityType DEF ConnectedCallbacks
<1>8. \A d \in S : dev[d].ref = Cardinality(ConnectedCallbacks(d)) + 1
  BY <1>2, <1>4 DEF DeviceRefCount
<1>9. UniquePaths'
  <2> SUFFICES ASSUME NEW b \in Adapters, NEW d \in devices'[b]
               PROVE  /\ b \in m_adapter_list' /\ d \in heap' /\ dev'[d].adapter = b
                      /\ \A e \in devices'[b] : dev'[e].path = dev'[d].path => e = d
    BY DEF UniquePaths
  <2>1. devices'[b] \subseteq devices[b] \ R
    BY <1>0, <1>1, <1>2 DEF UniquePaths
  <2>2. \A e \in devices'[b] : dev'[e] = dev[e] /\ e \in heap'
    BY <2>1, <1>0, <1>3 DEF UniquePaths
  <2>3. b \in m_adapter_list'
    BY <2>1, <1>1 DEF UniquePaths
  <2> QED BY <2>1, <2>2, <2>3 DEF UniquePaths
<1>10. DeviceRefCount'
  <2> SUFFICES ASSUME NEW d \in heap'
               PROVE  dev'[d].ref = Cardinality(ConnectedCallbacks(d))
                         + (IF Listed(d)' \/ dev'[d].state # "DISCONNECTED" THEN 1 ELSE 0)
    BY <1>6 DEF DeviceRefCount
  <2>0. d \in heap /\ d \in Devices
    BY <1>0, <1>3
  <2>1. CASE d \in S
    <3>1. dev[d].ref > 1
      BY <2>1, <1>3, <1>8, <1>7
    <3>2. dev'[d].ref = dev[d].ref - 1 /\ dev'[d].state = "DISCONNECTED"
      <4>1. dev[d] \in DeviceRecord /\ dev[d].state = "DISCONNECTED"
        BY <2>0, <2>1, <1>0
      <4>2. dev'[d] = [dev[d] EXCEPT !.ref = @ - 1]
        BY <2>1, <3>1, <1>3
      <4> QED BY <4>1, <4>2 DEF DeviceRecord
    <3>3. ~Listed(d)'
      BY <2>1, <1>4
    <3> QED BY <2>1, <3>2, <3>3, <1>7, <1>8
  <2>2. CASE d \in R \ S
    BY <2>0, <2>2, <1>3, <1>4 DEF DeviceRefCount
  <2>3. CASE d \notin R
    BY <2>0, <2>3, <1>3, <1>5 DEF DeviceRefCount
  <2> QED BY <2>1, <2>2, <2>3
<1>11. CallbackDeviceAlive'
  <2> SUFFICES ASSUME NEW t \in Threads, thread[t].pc = "conn_callback"
               PROVE  thread[t].dev \in heap'
    BY DEF CallbackDeviceAlive, SameCallbacks
  <2> DEFINE d == thread[t].dev
  <2>1. d \in heap
    BY DEF CallbackDeviceAlive
  <2>2. CASE d \in S
    <3>1. t \in ConnectedCallbacks(d)
      BY DEF ConnectedCallbacks
    <3>2. Cardinality(ConnectedCallbacks(d)) # 0
      BY <3>1, <1>7, FS_EmptySet
    <3> QED BY <2>1, <2>2, <3>2, <1>3, <1>7, <1>8
  <2> QED BY <2>1, <2>2, <1>3
<1> QED BY <1>9, <1>10, <1>11

\* A connection callback starts: it takes a reference to a listed device.
LEMMA CallbackStart ==
    ASSUME DeviceInv, NEW t \in Threads, ConnectedThreadLock(t)
    PROVE  UniquePaths' /\ DeviceRefCount' /\ CallbackDeviceAlive'
<1> USE DEF DeviceInv
<1>d. PICK d : d = thread[t].dev
  OBVIOUS
<1>0. /\ devices \in [Adapters -> SUBSET Devices] /\ heap \subseteq Devices
      /\ dev \in [Devices -> DeviceRecord] /\ thread \in [Threads -> ThreadRecord]
  BY DEF TypeOK
<1>1. /\ thread[t].pc = "conn_lock"
      /\ devices' = devices /\ heap' = heap /\ m_adapter_list' = m_adapter_list
  BY DEF ConnectedThreadLock, adapterVars
<1>2. CASE ~(gattlib_connection_is_connected(d) /\ dev[d].handler)
  <2>1. dev' = dev /\ thread' = [thread EXCEPT ![t] = NoThread]
    BY <1>d, <1>2 DEF ConnectedThreadLock
  <2>2. SameCallbacks
    BY <1>0, <1>1, <2>1 DEF SameCallbacks, NoThread
  <2>3. \A e : ConnectedCallbacks(e)' = ConnectedCallbacks(e)
    BY <2>2 DEF SameCallbacks, ConnectedCallbacks
  <2> QED BY <1>1, <2>1, <2>2, <2>3
          DEF SameCallbacks, UniquePaths, DeviceRefCount, CallbackDeviceAlive, Listed
<1>3. CASE gattlib_connection_is_connected(d) /\ dev[d].handler
  <2>1. /\ dev' = [dev EXCEPT ![d].ref = @ + 1]
        /\ thread' = [thread EXCEPT ![t].pc = "conn_callback"]
    BY <1>d, <1>3 DEF ConnectedThreadLock
  <2>2. d \in heap /\ d \in Devices
    BY <1>0, <1>3 DEF gattlib_connection_is_connected, gattlib_connection_is_valid, UniquePaths, TypeOK
  <2>3. \A e \in Devices : /\ dev'[e].adapter = dev[e].adapter
                           /\ dev'[e].path = dev[e].path
                           /\ dev'[e].state = dev[e].state
                           /\ dev'[e].ref = IF e = d THEN dev[e].ref + 1 ELSE dev[e].ref
    BY <1>0, <2>1, <2>2 DEF DeviceRecord
  <2>4. UniquePaths'
    BY <1>0, <1>1, <2>3 DEF UniquePaths
  <2>5. ConnectedCallbacks(d)' = ConnectedCallbacks(d) \cup {t}
    BY <1>d, <1>0, <1>1, <2>1 DEF ConnectedCallbacks, ThreadRecord
  <2>6. \A e : e # d => ConnectedCallbacks(e)' = ConnectedCallbacks(e)
    BY <1>d, <1>0, <1>1, <2>1 DEF ConnectedCallbacks, ThreadRecord
  <2>7. Cardinality(ConnectedCallbacks(d)') = Cardinality(ConnectedCallbacks(d)) + 1
    <3>1. t \notin ConnectedCallbacks(d)
      BY <1>1 DEF ConnectedCallbacks
    <3>2. IsFiniteSet(ConnectedCallbacks(d))
      BY ConstantAssumption, FS_Subset DEF ConnectedCallbacks
    <3> QED BY <2>5, <3>1, <3>2, FS_AddElement
  <2>8. \A e \in heap : Cardinality(ConnectedCallbacks(e)) \in Nat
    BY ConstantAssumption, FS_Subset, FS_CardinalityType DEF ConnectedCallbacks
  <2>9. DeviceRefCount'
    <3> SUFFICES ASSUME NEW e \in heap
                 PROVE  dev'[e].ref = Cardinality(ConnectedCallbacks(e)')
                           + (IF Listed(e)' \/ dev'[e].state # "DISCONNECTED" THEN 1 ELSE 0)
      BY <1>1 DEF DeviceRefCount
    <3>1. Listed(e)' <=> Listed(e)
      BY <1>1 DEF Listed
    <3>2. e \in Devices
      BY <1>0
    <3>3. CASE e = d
      <4>1. dev[d].ref = Cardinality(ConnectedCallbacks(d))
                         + (IF Listed(d) \/ dev[d].state # "DISCONNECTED" THEN 1 ELSE 0)
        BY <2>2 DEF DeviceRefCount
      <4>2. dev'[d].ref = dev[d].ref + 1 /\ dev'[d].state = dev[d].state
        BY <2>2, <2>3
      <4> QED BY <2>2, <2>7, <2>8, <3>1, <3>3, <4>1, <4>2
    <3>4. CASE e # d
      BY <2>3, <2>6, <3>1, <3>2, <3>4 DEF DeviceRefCount
    <3> QED BY <3>3, <3>4
  <2>10. CallbackDeviceAlive'
    BY <1>d, <1>0, <1>1, <2>1, <2>2 DEF CallbackDeviceAlive, ThreadRecord
  <2> QED BY <2>4, <2>9, <2>10
<1> QED BY <1>2, <1>3

\* A connection callback ends: the device is freed only when no other callback
\* uses it and no list holds it.
LEMMA CallbackEnd ==
    ASSUME DeviceInv, NEW t \in Threads, ConnectedThreadEnd(t)
    PROVE  /\ UniquePaths' /\ DeviceRefCount' /\ CallbackDeviceAlive'
           /\ \A e \in heap : Listed(e) => /\ dev'[e].timeout = dev[e].timeout
                                           /\ dev'[e].proxy = dev[e].proxy
<1> USE DEF DeviceInv
<1>d. PICK d : d = thread[t].dev
  OBVIOUS
<1>0. /\ devices \in [Adapters -> SUBSET Devices] /\ heap \subseteq Devices
      /\ dev \in [Devices -> DeviceRecord] /\ thread \in [Threads -> ThreadRecord]
  BY DEF TypeOK
<1>1. /\ thread[t].pc = "conn_callback"
      /\ devices' = devices /\ m_adapter_list' = m_adapter_list
      /\ thread' = [thread EXCEPT ![t] = NoThread]
      /\ UnrefDevices({d})
  BY <1>d DEF ConnectedThreadEnd, adapterVars
<1>2. d \in heap /\ d \in Devices
  BY <1>0, <1>1, <1>d DEF CallbackDeviceAlive
<1>3. \A e : IsFiniteSet(ConnectedCallbacks(e)) /\ Cardinality(ConnectedCallbacks(e)) \in Nat
  BY ConstantAssumption, FS_Subset, FS_CardinalityType DEF ConnectedCallbacks
<1>4. ConnectedCallbacks(d)' = ConnectedCallbacks(d) \ {t} /\ t \in ConnectedCallbacks(d)
  BY <1>d, <1>0, <1>1 DEF ConnectedCallbacks, NoThread
<1>5. \A e : e # d => ConnectedCallbacks(e)' = ConnectedCallbacks(e)
  BY <1>d, <1>0, <1>1 DEF ConnectedCallbacks, NoThread
<1>6. Cardinality(ConnectedCallbacks(d)') = Cardinality(ConnectedCallbacks(d)) - 1
  BY <1>3, <1>4, FS_RemoveElement
<1>7. dev[d].ref = Cardinality(ConnectedCallbacks(d))
                   + (IF Listed(d) \/ dev[d].state # "DISCONNECTED" THEN 1 ELSE 0)
  BY <1>2 DEF DeviceRefCount
<1>8. Cardinality(ConnectedCallbacks(d)) >= 1
  BY <1>3, <1>4, FS_EmptySet
<1>9. \A e \in Devices : e # d => dev'[e] = dev[e]
  BY <1>1 DEF UnrefDevices
<1>10. CASE dev[d].ref <= 1
  <2>1. heap' = heap \ {d}
    BY <1>1, <1>10 DEF UnrefDevices
  <2>2. ~Listed(d) /\ Cardinality(ConnectedCallbacks(d)) = 1
    BY <1>3, <1>7, <1>8, <1>10
  <2>3. \A u \in Threads \ {t} : ~(thread[u].pc = "conn_callback" /\ thread[u].dev = d)
    <3>1. ConnectedCallbacks(d) \ {t} = {}
      BY <2>2, <1>3, <1>4, FS_RemoveElement, FS_EmptySet
    <3> QED BY <3>1 DEF ConnectedCallbacks
  <2>4. UniquePaths'
    BY <1>0, <1>1, <1>9, <2>1, <2>2 DEF UniquePaths, Listed
  <2>5. DeviceRefCount'
    <3>1. \A e \in heap' : e # d /\ e \in heap /\ e \in Devices /\ (Listed(e)' <=> Listed(e))
      BY <1>0, <1>1, <2>1 DEF Listed
    <3> QED BY <1>5, <1>9, <3>1 DEF DeviceRefCount
  <2>6. CallbackDeviceAlive'
    BY <1>0, <1>1, <2>1, <2>3 DEF CallbackDeviceAlive, NoThread
  <2> QED BY <1>0, <1>9, <2>2, <2>4, <2>5, <2>6
<1>11. CASE ~(dev[d].ref <= 1)
  <2>1. heap' = heap /\ dev'[d] = [dev[d] EXCEPT !.ref = @ - 1]
    BY <1>1, <1>2, <1>11 DEF UnrefDevices
  <2>2. dev[d] \in DeviceRecord
    BY <1>0, <1>2
  <2>3. \A e \in Devices : /\ dev'[e].adapter = dev[e].adapter
                           /\ dev'[e].path = dev[e].path
                           /\ dev'[e].state = dev[e].state
                           /\ dev'[e].timeout = dev[e].timeout
                           /\ dev'[e].proxy = dev[e].proxy
    BY <1>9, <2>1, <2>2 DEF DeviceRecord
  <2>4. dev'[d].ref = dev[d].ref - 1
    BY <2>1, <2>2 DEF DeviceRecord
  <2>5. UniquePaths'
    BY <1>0, <1>1, <2>1, <2>3 DEF UniquePaths
  <2>6. DeviceRefCount'
    <3> SUFFICES ASSUME NEW e \in heap
                 PROVE  dev'[e].ref = Cardinality(ConnectedCallbacks(e)')
                           + (IF Listed(e)' \/ dev'[e].state # "DISCONNECTED" THEN 1 ELSE 0)
      BY <2>1 DEF DeviceRefCount
    <3>1. (Listed(e)' <=> Listed(e)) /\ e \in Devices
      BY <1>0, <1>1 DEF Listed
    <3>2. CASE e = d
      BY <1>3, <1>6, <1>7, <2>3, <2>4, <3>1, <3>2
    <3>3. CASE e # d
      BY <1>5, <1>9, <3>1, <3>3 DEF DeviceRefCount
    <3> QED BY <3>2, <3>3
  <2>7. CallbackDeviceAlive'
    BY <1>0, <1>1, <2>1 DEF CallbackDeviceAlive, NoThread
  <2> QED BY <1>0, <2>3, <2>5, <2>6, <2>7
<1> QED BY <1>10, <1>11

-----------------------------------------------------------------------------
(* Types.                                                                  *)

\* The constant records the actions assign have their types.
LEMMA ConstantTypes ==
    /\ NoDiscovery \in DiscoveryRecord
    /\ FreedDevice \in DeviceRecord
    /\ \A a \in Adapters, p \in Paths : NewDevice(a, p, "DISCONNECTED") \in DeviceRecord
    /\ Detached \in [dev : Devices \cup {NoDevice}, view : View]
    /\ NoThread \in ThreadRecord
    /\ IdleApp \in AppRecord
  BY DEF NoDiscovery, DiscoveryRecord, FreedDevice, NewDevice, DeviceRecord, DeviceState,
         Detached, View, NoThread, ThreadRecord, ThreadPc, IdleApp, AppRecord, AppPc

\* The updates of a device's fields that the actions make.
LEMMA DeviceUpdates ==
    ASSUME NEW r \in DeviceRecord
    PROVE  /\ r.ref \in Nat
           /\ [r EXCEPT !.ref = @ + 1] \in DeviceRecord
           /\ r.ref > 1 => [r EXCEPT !.ref = @ - 1] \in DeviceRecord
           /\ [r EXCEPT !.timeout = FALSE] \in DeviceRecord
           /\ [r EXCEPT !.handler = TRUE] \in DeviceRecord
           /\ \A x \in Proxies : /\ [r EXCEPT !.handler = TRUE, !.proxy = x] \in DeviceRecord
                                 /\ [r EXCEPT !.handler = TRUE, !.proxy = x, !.timeout = TRUE] \in DeviceRecord
           /\ [r EXCEPT !.timeout = FALSE, !.objects = "held"] \in DeviceRecord
           /\ [r EXCEPT !.proxy = NoProxy, !.timeout = FALSE, !.objects = FreeObjects(r.objects)] \in DeviceRecord
<1>1. FreeObjects(r.objects) \in {"null", "held", "freed", "freedTwice"}
  BY DEF FreeObjects, DeviceRecord
<1>2. r.ref \in Nat /\ r.ref + 1 \in Nat /\ (r.ref > 1 => r.ref - 1 \in Nat)
  BY DEF DeviceRecord
<1> QED BY <1>1, <1>2 DEF DeviceRecord

\* Replacing the contents of one device by a record of the right type.
LEMMA DeviceReplace ==
    ASSUME NEW D \in [Devices -> DeviceRecord], NEW d \in Devices, NEW r \in DeviceRecord
    PROVE  [D EXCEPT ![d] = r] \in [Devices -> DeviceRecord]
  OBVIOUS

\* Dropping references keeps the types: a counter is decremented above one only.
LEMMA UnrefTypes ==
    ASSUME TypeOK, NEW S, UnrefDevices(S)
    PROVE  heap' \subseteq Devices /\ dev' \in [Devices -> DeviceRecord]
<1>1. \A d \in Devices : dev[d].ref > 1 => [dev[d] EXCEPT !.ref = @ - 1] \in DeviceRecord
  BY DeviceUpdates DEF TypeOK
<1>2. \A d \in Devices : dev[d].ref \in Nat
  BY DeviceUpdates DEF TypeOK
<1> QED BY <1>1, <1>2, ConstantTypes DEF UnrefDevices, TypeOK

\* gattlib_adapter_unref keeps the types, and the counter of the adapters that
\* stay in the list positive.
LEMMA AdapterUnrefTypes ==
    ASSUME TypeOK, AdapterRefPositive, NEW a, gattlib_adapter_unref(a)
    PROVE  /\ m_adapter_list' \subseteq Adapters
           /\ adapterRef' \in [Adapters -> Nat]
           /\ devices' \in [Adapters -> SUBSET Devices]
           /\ discovery' \in [Adapters -> DiscoveryRecord]
           /\ known' \in [Adapters -> SUBSET Paths]
           /\ heap' \subseteq Devices
           /\ dev' \in [Devices -> DeviceRecord]
           /\ AdapterRefPositive'
<1>0. a \in m_adapter_list /\ a \in Adapters /\ adapterRef' = [adapterRef EXCEPT ![a] = @ - 1]
  BY DEF gattlib_adapter_unref, TypeOK
<1>1. adapterRef' \in [Adapters -> Nat]
  BY <1>0 DEF TypeOK, AdapterRefPositive
<1>2. CASE adapterRef[a] > 1
  BY <1>0, <1>1, <1>2 DEF gattlib_adapter_unref, TypeOK, AdapterRefPositive
<1>3. CASE adapterRef[a] <= 1
  <2>1. /\ UnrefDevices({d \in devices[a] : dev[d].state = "DISCONNECTED"})
        /\ m_adapter_list' = m_adapter_list \ {a}
        /\ devices' = [devices EXCEPT ![a] = {}]
        /\ discovery' = [discovery EXCEPT ![a] = NoDiscovery]
        /\ known' = [known EXCEPT ![a] = {}]
    BY <1>0, <1>3 DEF gattlib_adapter_unref, TypeOK
  <2>2. heap' \subseteq Devices /\ dev' \in [Devices -> DeviceRecord]
    BY <2>1, UnrefTypes
  <2>3. AdapterRefPositive'
    BY <1>0, <2>1 DEF TypeOK, AdapterRefPositive
  <2> QED BY <1>1, <2>1, <2>2, <2>3, ConstantTypes DEF TypeOK
<1>4. adapterRef[a] \in Nat
  BY <1>0 DEF TypeOK
<1> QED BY <1>2, <1>3, <1>4

\* A dispatched thread has the type of a thread.
LEMMA DispatchTypes ==
    ASSUME TypeOK, NEW h, NEW r \in ThreadRecord, gattlib_handler_dispatch_to_thread(h, r)
    PROVE  thread' \in [Threads -> ThreadRecord]
  BY DEF TypeOK, gattlib_handler_dispatch_to_thread

\* A valid connection has a pending timeout whenever it removes one.
LEMMA TimerTypes ==
    ASSUME DeviceInv, NEW d \in Devices, gattlib_connection_is_valid(d), RemoveTimer(d)
    PROVE  timers' \in [Devices -> Nat]
<1>1. d \in heap /\ Listed(d)
  BY DEF gattlib_connection_is_valid, DeviceInv, TypeOK, UniquePaths, Listed
<1>2. dev[d].timeout => timers[d] > 0
  BY <1>1 DEF DeviceInv, ConnectionIdsLive
<1>3. timers \in [Devices -> Nat]
  BY DEF DeviceInv, TypeOK
<1> QED BY <1>2, <1>3 DEF RemoveTimer

\* Counters stay natural numbers because a timeout is removed only when it is
\* pending (ConnectionIdsLive) and an adapter of the list has a reference.
LEMMA TypeStep ==
    ASSUME DeviceInv, [Next]_vars
    PROVE  TypeOK' /\ AdapterRefPositive'
<1> USE ConstantTypes DEF DeviceInv
<1>1. ASSUME NEW u \in Apps, AdapterOpen(u)
      PROVE  TypeOK' /\ AdapterRefPositive'
  <2>1. app' \in [Apps -> AppRecord]
    <3>1. [IdleApp EXCEPT !.pc = "opening"] \in AppRecord
      BY DEF IdleApp, AppRecord, AppPc
    <3> QED BY <1>1, <3>1 DEF TypeOK, AdapterOpen
  <2>2. adapterRef' \in [Adapters -> Nat] /\ opens' \in [Adapters -> Nat] /\ AdapterRefPositive'
    <3>1. CASE m_adapter_list = {}
      BY <1>1, <3>1 DEF TypeOK, AdapterRefPositive, AdapterOpen
    <3>2. CASE m_adapter_list # {}
      <4>1. PICK a \in m_adapter_list : /\ adapterRef' = [adapterRef EXCEPT ![a] = @ + 1]
                                        /\ opens' = [opens EXCEPT ![a] = @ + 1]
        BY <1>1, <3>2 DEF AdapterOpen
      <4>2. m_adapter_list' = m_adapter_list
        BY <1>1 DEF AdapterOpen
      <4> QED BY <4>1, <4>2 DEF TypeOK, AdapterRefPositive
    <3> QED BY <3>1, <3>2
  <2> QED BY <1>1, <2>1, <2>2 DEF TypeOK, AdapterOpen, deviceVars
<1>2. ASSUME NEW u \in Apps, AdapterOpenCreate(u)
      PROVE  TypeOK' /\ AdapterRefPositive'
  BY <1>2 DEF TypeOK, AdapterRefPositive, AdapterOpenCreate, deviceVars
<1>3. ASSUME NEW u \in Apps, AdapterCloseFinish(u)
      PROVE  TypeOK' /\ AdapterRefPositive'
  BY <1>3, AdapterUnrefTypes DEF TypeOK, AdapterCloseFinish
<1>4. ASSUME NEW u \in Apps, DisconnectReturn(u)
      PROVE  TypeOK' /\ AdapterRefPositive'
  BY <1>4 DEF TypeOK, AdapterRefPositive, DisconnectReturn, adapterVars, deviceVars
<1>5. ASSUME NEW u \in Apps, NEW a \in Adapters, AdapterClose(u, a)
      PROVE  TypeOK' /\ AdapterRefPositive'
  <2>1. opens' \in [Adapters -> Nat] /\ UNCHANGED <<proxy, timers, thread>>
    BY <1>5 DEF TypeOK, AdapterClose
  <2>2. CASE gattlib_adapter_unref(a) /\ UNCHANGED app
    BY <2>1, <2>2, AdapterUnrefTypes DEF TypeOK
  <2>3. CASE /\ discovery' \in StopDiscovery(a)
             /\ app' = [app EXCEPT ![u] = [pc |-> "closing", dev |-> NoDevice, adapter |-> a]]
             /\ UNCHANGED <<m_adapter_list, adapterRef, devices, known, heap, dev>>
    <3>1. [pc |-> "closing", dev |-> NoDevice, adapter |-> a] \in AppRecord
      BY DEF IdleApp, AppRecord, AppPc
    <3>2. \A r \in DiscoveryRecord : [r EXCEPT !.handler = FALSE] \in DiscoveryRecord
      BY DEF DiscoveryRecord
    <3>3. discovery' \in [Adapters -> DiscoveryRecord]
      BY <2>3, <3>2 DEF TypeOK, StopDiscovery
    <3> QED BY <2>1, <2>3, <3>1, <3>3 DEF TypeOK, AdapterRefPositive
  <2> QED BY <1>5, <2>2, <2>3 DEF AdapterClose
<1>6. ASSUME NEW u \in Apps, NEW d \in Devices, NEW wait \in BOOLEAN, Disconnect(u, d, wait)
      PROVE  TypeOK' /\ AdapterRefPositive'
  <2>1. dev' \in [Devices -> DeviceRecord]
    BY <1>6, OverwriteFacts DEF TypeOK, Disconnect, DeviceState
  <2>2. app' \in [Apps -> AppRecord]
    <3>1. [pc |-> "waiting", dev |-> d, adapter |-> NoAdapter] \in AppRecord
      BY DEF IdleApp, AppRecord, AppPc
    <3> QED BY <1>6, <3>1 DEF TypeOK, Disconnect
  <2> QED BY <1>6, <2>1, <2>2 DEF TypeOK, AdapterRefPositive, Disconnect, adapterVars
<1>7. ASSUME NEW a \in Adapters, ScanEnable(a) \/ ScanDisable(a) \/ ScanDetach(a)
      PROVE  TypeOK' /\ AdapterRefPositive'
  <2>1. discovery' \in [Adapters -> DiscoveryRecord]
    <3>1. \A r \in DiscoveryRecord : /\ [r EXCEPT !.handler = FALSE] \in DiscoveryRecord
                                     /\ [r EXCEPT !.attached = FALSE] \in DiscoveryRecord
      BY DEF DiscoveryRecord
    <3>2. [manager |-> TRUE, attached |-> TRUE, handler |-> TRUE] \in DiscoveryRecord
      BY DEF DiscoveryRecord
    <3>3. CASE ScanEnable(a)
      BY <3>2, <3>3 DEF TypeOK, ScanEnable
    <3>4. CASE ScanDisable(a)
      BY <3>1, <3>4 DEF TypeOK, ScanDisable
    <3>5. CASE ScanDetach(a)
      <4>1. PICK x \in [Adapters -> DiscoveryRecord] : discovery' = [x EXCEPT ![a].attached = FALSE]
        BY <3>1, <3>5 DEF TypeOK, ScanDetach, StopDiscovery
      <4> QED BY <3>1, <4>1
    <3> QED BY <1>7, <3>3, <3>4, <3>5
  <2> QED BY <1>7, <2>1 DEF TypeOK, AdapterRefPositive, ScanEnable, ScanDisable, ScanDetach, deviceVars
<1>8. ASSUME NEW a \in Adapters, NEW p \in Paths, OnDbusObjectAdded(a, p)
      PROVE  TypeOK' /\ AdapterRefPositive'
  <2>1. /\ heap' \subseteq Devices /\ dev' \in [Devices -> DeviceRecord]
        /\ devices' \in [Adapters -> SUBSET Devices]
    <3>1. CASE AllocateDevice(a, p, "DISCONNECTED")
      BY <3>1 DEF TypeOK, AllocateDevice
    <3>2. CASE /\ dev' = OverwriteState(dev, a, p, "DISCONNECTED")
               /\ UNCHANGED <<heap, devices>>
      BY <3>2, OverwriteFacts DEF TypeOK, DeviceState
    <3> QED BY <1>8, <3>1, <3>2 DEF OnDbusObjectAdded
  <2>2. thread' \in [Threads -> ThreadRecord]
    BY <1>8, DispatchTypes DEF OnDbusObjectAdded, gattlib_on_discovered_device, ThreadRecord, ThreadPc
  <2> QED BY <1>8, <2>1, <2>2 DEF TypeOK, AdapterRefPositive, OnDbusObjectAdded
<1>9. ASSUME NEW a \in Adapters, NEW p \in Paths, OnDbusObjectRemoved(a, p)
      PROVE  TypeOK' /\ AdapterRefPositive'
  <2>1. heap' \subseteq Devices /\ dev' \in [Devices -> DeviceRecord]
    BY <1>9, UnrefTypes DEF OnDbusObjectRemoved
  <2> QED BY <1>9, <2>1 DEF TypeOK, AdapterRefPositive, OnDbusObjectRemoved
<1>10. ASSUME NEW a \in Adapters, NEW p \in Paths, OnInterfacePropertiesChanged(a, p)
      PROVE  TypeOK' /\ AdapterRefPositive'
  <2>1. /\ heap' \subseteq Devices /\ dev' \in [Devices -> DeviceRecord]
        /\ devices' \in [Adapters -> SUBSET Devices]
    BY <1>10 DEF TypeOK, OnInterfacePropertiesChanged, AllocateDevice
  <2>2. thread' \in [Threads -> ThreadRecord]
    BY <1>10, DispatchTypes
       DEF OnInterfacePropertiesChanged, gattlib_on_discovered_device, ThreadRecord, ThreadPc
  <2> QED BY <1>10, <2>1, <2>2 DEF TypeOK, AdapterRefPositive, OnInterfacePropertiesChanged
<1>11. ASSUME NEW a \in Adapters, NEW p \in Paths, BluezObjectChange(a, p)
      PROVE  TypeOK' /\ AdapterRefPositive'
  BY <1>11 DEF TypeOK, AdapterRefPositive, BluezObjectChange, deviceVars
<1>12. ASSUME NEW a \in Adapters, NEW d \in Devices, Connect(a, d)
      PROVE  TypeOK' /\ AdapterRefPositive'
  <2>1. dev' \in [Devices -> DeviceRecord]
    <3>1. PICK O \in [Devices -> DeviceRecord] :
            O = OverwriteState(dev, dev[d].adapter, dev[d].path, "CONNECTING")
      BY OverwriteFacts DEF TypeOK, DeviceState
    <3>2. PICK x \in Proxies : dev' = [O EXCEPT ![d] = [@ EXCEPT !.handler = TRUE, !.proxy = x, !.timeout = TRUE]]
      BY <1>12, <3>1 DEF Connect
    <3>3. [O[d] EXCEPT !.handler = TRUE, !.proxy = x, !.timeout = TRUE] \in DeviceRecord
      BY DeviceUpdates
    <3> QED BY <3>2, <3>3, DeviceReplace
  <2>2. proxy' \in [Proxies -> [dev : Devices \cup {NoDevice}, view : View]]
    BY <1>12 DEF TypeOK, Connect, View
  <2> QED BY <1>12, <2>1, <2>2 DEF TypeOK, AdapterRefPositive, Connect, adapterVars
<1>13. ASSUME NEW a \in Adapters, NEW d \in Devices, ConnectProxyError(a, d)
      PROVE  TypeOK' /\ AdapterRefPositive'
  <2>1. dev' \in [Devices -> DeviceRecord]
    <3>1. PICK O \in [Devices -> DeviceRecord] :
            O = OverwriteState(dev, dev[d].adapter, dev[d].path, "CONNECTING")
      BY OverwriteFacts DEF TypeOK, DeviceState
    <3>2. dev' = [O EXCEPT ![d] = [@ EXCEPT !.handler = TRUE]]
      BY <1>13, <3>1 DEF ConnectProxyError
    <3>3. [O[d] EXCEPT !.handler = TRUE] \in DeviceRecord
      BY DeviceUpdates
    <3> QED BY <3>2, <3>3, DeviceReplace
  <2> QED BY <1>13, <2>1 DEF TypeOK, AdapterRefPositive, ConnectProxyError, adapterVars
<1>14. ASSUME NEW a \in Adapters, NEW d \in Devices, ConnectError(a, d)
      PROVE  TypeOK' /\ AdapterRefPositive'
  <2>1. dev' \in [Devices -> DeviceRecord]
    <3>1. PICK O \in [Devices -> DeviceRecord] :
            O = OverwriteState(dev, dev[d].adapter, dev[d].path, "DISCONNECTED")
      BY OverwriteFacts DEF TypeOK, DeviceState
    <3>2. PICK x \in Proxies : dev' = [O EXCEPT ![d] = [@ EXCEPT !.handler = TRUE, !.proxy = x]]
      BY <1>14, <3>1 DEF ConnectError
    <3>3. [O[d] EXCEPT !.handler = TRUE, !.proxy = x] \in DeviceRecord
      BY DeviceUpdates
    <3> QED BY <3>2, <3>3, DeviceReplace
  <2>2. proxy' \in [Proxies -> [dev : Devices \cup {NoDevice}, view : View]]
    BY <1>14 DEF TypeOK, ConnectError, View
  <2> QED BY <1>14, <2>1, <2>2 DEF TypeOK, AdapterRefPositive, ConnectError, adapterVars
<1>15. ASSUME NEW d \in Devices, StopConnect(d)
      PROVE  TypeOK' /\ AdapterRefPositive'
  <2>1. dev' \in [Devices -> DeviceRecord]
    BY <1>15, DeviceUpdates DEF TypeOK, StopConnect
  <2> QED BY <1>15, <2>1 DEF TypeOK, AdapterRefPositive, StopConnect, adapterVars
<1>16. ASSUME NEW x \in Proxies, OnServicesResolved(x)
      PROVE  TypeOK' /\ AdapterRefPositive'
  <2>d. PICK d \in Devices : d = proxy[x].dev
    BY <1>16 DEF TypeOK, OnServicesResolved
  <2>1. proxy' \in [Proxies -> [dev : Devices \cup {NoDevice}, view : View]]
    BY <1>16 DEF TypeOK, OnServicesResolved, View
  <2>2. CASE ~gattlib_connection_is_valid(d)
    BY <1>16, <2>d, <2>1, <2>2 DEF TypeOK, AdapterRefPositive, OnServicesResolved, adapterVars
  <2>3. CASE gattlib_connection_is_valid(d)
    <3>1. timers' \in [Devices -> Nat]
      BY <1>16, <2>d, <2>3, TimerTypes DEF OnServicesResolved
    <3>2. dev' \in [Devices -> DeviceRecord]
      <4>1. [dev[d] EXCEPT !.timeout = FALSE, !.objects = "held"] \in DeviceRecord
        BY DeviceUpdates DEF TypeOK
      <4>2. PICK D \in [Devices -> DeviceRecord] :
              D = [dev EXCEPT ![d] = [@ EXCEPT !.timeout = FALSE, !.objects = "held"]]
        BY <4>1, DeviceReplace DEF TypeOK
      <4>3. dev' = OverwriteState(D, dev[d].adapter, dev[d].path, "CONNECTED")
        BY <1>16, <2>d, <2>3, <4>2 DEF OnServicesResolved
      <4> QED BY <4>3, OverwriteFacts DEF DeviceState
    <3>3. thread' \in [Threads -> ThreadRecord]
      <4>1. [pc |-> "conn_read", dev |-> d, adapter |-> NoAdapter] \in ThreadRecord
        BY DEF ThreadRecord, ThreadPc
      <4> QED BY <1>16, <2>d, <2>3, <4>1, DispatchTypes
              DEF OnServicesResolved, gattlib_on_connected_device
    <3> QED BY <1>16, <2>1, <3>1, <3>2, <3>3 DEF TypeOK, AdapterRefPositive, OnServicesResolved, adapterVars
  <2> QED BY <2>2, <2>3
<1>17. ASSUME NEW x \in Proxies, OnDisconnected(x)
      PROVE  TypeOK' /\ AdapterRefPositive'
  <2>d. PICK d \in Devices : d = proxy[x].dev
    BY <1>17 DEF TypeOK, OnDisconnected
  <2>1. proxy' \in [Proxies -> [dev : Devices \cup {NoDevice}, view : View]]
    <3>1. \A y \in Proxies : [proxy[y] EXCEPT !.view = "down"] \in [dev : Devices \cup {NoDevice}, view : View]
      BY DEF TypeOK, View
    <3> QED BY <1>17, <3>1 DEF TypeOK, OnDisconnected
  <2>2. CASE ~gattlib_connection_is_valid(d)
    BY <1>17, <2>d, <2>1, <2>2 DEF TypeOK, AdapterRefPositive, OnDisconnected, adapterVars
  <2>3. CASE gattlib_connection_is_valid(d)
    <3>0. gattlib_connection_free(d)
      BY <1>17, <2>d, <2>3 DEF OnDisconnected
    <3>1. timers' \in [Devices -> Nat]
      BY <2>3, <3>0, TimerTypes DEF gattlib_connection_free
    <3>2. dev' \in [Devices -> DeviceRecord]
      <4>1. PICK r \in DeviceRecord :
              r = [dev[d] EXCEPT !.proxy = NoProxy, !.timeout = FALSE, !.objects = FreeObjects(dev[d].objects)]
        BY DeviceUpdates DEF TypeOK
      <4>2. PICK D \in [Devices -> DeviceRecord] :
              D = [dev EXCEPT ![d] = [@ EXCEPT !.proxy = NoProxy, !.timeout = FALSE,
                                               !.objects = FreeObjects(dev[d].objects)]]
        BY <4>1, DeviceReplace DEF TypeOK
      <4>3. dev' = OverwriteState(D, dev[d].adapter, dev[d].path, "DISCONNECTED")
        BY <3>0, <4>2 DEF gattlib_connection_free
      <4> QED BY <4>3, OverwriteFacts DEF DeviceState
    <3> QED BY <1>17, <2>1, <3>1, <3>2 DEF TypeOK, AdapterRefPositive, OnDisconnected, adapterVars
  <2> QED BY <2>2, <2>3
<1>18. ASSUME NEW x \in Proxies, OnLinkUp(x)
      PROVE  TypeOK' /\ AdapterRefPositive'
  BY <1>18 DEF TypeOK, AdapterRefPositive, OnLinkUp, View, adapterVars
<1>19. ASSUME NEW t \in Threads, DiscoveredThreadLock(t)
      PROVE  TypeOK' /\ AdapterRefPositive'
  <2>1. thread' \in [Threads -> ThreadRecord]
    <3>1. \A r \in ThreadRecord : [r EXCEPT !.pc = "disc_call"] \in ThreadRecord
      BY DEF ThreadRecord, ThreadPc
    <3> QED BY <1>19, <3>1 DEF TypeOK, DiscoveredThreadLock
  <2>2. /\ adapterRef' \in [Adapters -> Nat]
        /\ \A a \in Adapters : adapterRef'[a] >= adapterRef[a]
    <3>1. CASE adapterRef' = adapterRef
      BY <3>1 DEF TypeOK
    <3>2. ASSUME NEW x \in Adapters, adapterRef' = [adapterRef EXCEPT ![x] = @ + 1]
          PROVE  /\ adapterRef' \in [Adapters -> Nat]
                 /\ \A a \in Adapters : adapterRef'[a] >= adapterRef[a]
      <4>1. adapterRef \in [Adapters -> Nat]
        BY DEF TypeOK
      <4>2. adapterRef[x] + 1 \in Nat /\ adapterRef[x] + 1 >= adapterRef[x]
        BY ONLY <4>1, x \in Adapters
      <4>3. adapterRef' \in [Adapters -> Nat]
        BY ONLY <3>2, <4>1, <4>2
      <4>4. \A a \in Adapters : adapterRef'[a] = IF a = x THEN adapterRef[x] + 1 ELSE adapterRef[a]
        BY ONLY <3>2, <4>1
      <4> QED BY ONLY <4>1, <4>2, <4>3, <4>4
    <3>3. \/ adapterRef' = adapterRef
          \/ /\ thread[t].adapter \in m_adapter_list
             /\ adapterRef' = [adapterRef EXCEPT ![thread[t].adapter] = @ + 1]
      BY <1>19, Zenon DEF DiscoveredThreadLock
    <3>4. m_adapter_list \subseteq Adapters
      BY DEF TypeOK
    <3> QED BY <3>1, <3>2, <3>3, <3>4
  <2>3. UNCHANGED <<m_adapter_list, devices, discovery, known, opens, deviceVars, app>>
    BY <1>19 DEF DiscoveredThreadLock
  <2>4. TypeOK'
    BY <2>1, <2>2, <2>3 DEF TypeOK, deviceVars
  <2>5. AdapterRefPositive'
    BY <2>2, <2>3 DEF TypeOK, AdapterRefPositive
  <2> QED BY <2>4, <2>5
<1>20. ASSUME NEW t \in Threads, DiscoveredThreadCall(t) \/ ConnectedThreadRead(t)
      PROVE  TypeOK' /\ AdapterRefPositive'
  <2>1. thread' \in [Threads -> ThreadRecord]
    <3>1. \A r \in ThreadRecord : /\ [r EXCEPT !.pc = "disc_callback"] \in ThreadRecord
                                  /\ [r EXCEPT !.pc = "conn_lock"] \in ThreadRecord
      BY DEF ThreadRecord, ThreadPc
    <3>2. CASE DiscoveredThreadCall(t)
      BY <3>1, <3>2 DEF TypeOK, DiscoveredThreadCall
    <3>3. CASE ConnectedThreadRead(t)
      BY <3>1, <3>3 DEF TypeOK, ConnectedThreadRead
    <3> QED BY <1>20, <3>2, <3>3
  <2> QED BY <1>20, <2>1
          DEF TypeOK, AdapterRefPositive, DiscoveredThreadCall, ConnectedThreadRead, adapterVars, deviceVars
<1>21. ASSUME NEW t \in Threads, DiscoveredThreadEnd(t)
      PROVE  TypeOK' /\ AdapterRefPositive'
  BY <1>21, AdapterUnrefTypes DEF TypeOK, DiscoveredThreadEnd
<1>22. ASSUME NEW t \in Threads, ConnectedThreadLock(t)
      PROVE  TypeOK' /\ AdapterRefPositive'
  <2>1. thread' \in [Threads -> ThreadRecord]
    <3>1. \A r \in ThreadRecord : [r EXCEPT !.pc = "conn_callback"] \in ThreadRecord
      BY DEF ThreadRecord, ThreadPc
    <3> QED BY <1>22, <3>1 DEF TypeOK, ConnectedThreadLock
  <2>2. dev' \in [Devices -> DeviceRecord]
    <3>1. \A d \in Devices : [dev[d] EXCEPT !.ref = @ + 1] \in DeviceRecord
      BY DeviceUpdates DEF TypeOK
    <3>2. CASE dev' = dev
      BY <3>2 DEF TypeOK
    <3>3. CASE dev' = [dev EXCEPT ![thread[t].dev].ref = @ + 1]
      BY <3>1, <3>3 DEF TypeOK
    <3> QED BY <1>22, <3>2, <3>3 DEF ConnectedThreadLock
  <2> QED BY <1>22, <2>1, <2>2 DEF TypeOK, AdapterRefPositive, ConnectedThreadLock, adapterVars
<1>23. ASSUME NEW t \in Threads, ConnectedThreadEnd(t)
      PROVE  TypeOK' /\ AdapterRefPositive'
  BY <1>23, UnrefTypes DEF TypeOK, AdapterRefPositive, ConnectedThreadEnd, adapterVars
<1>24. CASE UNCHANGED vars
  BY <1>24 DEF TypeOK, AdapterRefPositive, vars, adapterVars, deviceVars
<1> QED
  BY <1>1, <1>2, <1>3, <1>4, <1>5, <1>6, <1>7, <1>8, <1>9, <1>10, <1>11, <1>12, <1>13, <1>14, <1>15,
     <1>16, <1>17, <1>18, <1>19, <1>20, <1>21, <1>22, <1>23, <1>24
     DEF Next, AppNext, ScanNext, ConnectNext, ThreadNext

-----------------------------------------------------------------------------
(* The ids of a connection, and the invariant as a whole.                   *)

\* The devices of the lists are the valid ones, and they are allocated.
LEMMA ListedFacts ==
    ASSUME DeviceInv, NEW d, Listed(d)
    PROVE  /\ d \in Devices /\ d \in heap
           /\ dev[d].adapter \in m_adapter_list /\ d \in devices[dev[d].adapter]
           /\ gattlib_connection_is_valid(d)
  BY DEF DeviceInv, TypeOK, UniquePaths, Listed, gattlib_connection_is_valid

\* A step that arms no timeout, attaches no handler, and removes neither.
LEMMA IdsFrame ==
    ASSUME DeviceInv, TypeOK', timers' = timers,
           \A y \in Proxies : proxy'[y].dev = proxy[y].dev,
           \A d \in heap' : Listed(d)' =>
               /\ dev'[d].timeout => d \in heap /\ Listed(d) /\ dev[d].timeout
               /\ dev'[d].proxy # NoProxy => d \in heap /\ Listed(d) /\ dev'[d].proxy = dev[d].proxy
    PROVE  ConnectionIdsLive'
<1>1. \A d \in heap : dev[d].proxy # NoProxy => dev[d].proxy \in Proxies
  BY DEF DeviceInv, TypeOK, DeviceRecord
<1>2. ConnectionIdsLive
  BY DEF DeviceInv
<1> QED BY <1>1, <1>2 DEF ConnectionIdsLive

\* The four parts of the invariant that do not follow from the types.
DevicePart == UniquePaths /\ DeviceRefCount /\ CallbackDeviceAlive /\ ConnectionIdsLive

\* A step that leaves the devices as they are.
LEMMA StillStep ==
    ASSUME DeviceInv, TypeOK', SameCallbacks, UNCHANGED <<devices, heap, dev, timers>>,
           m_adapter_list \subseteq m_adapter_list',
           \A y \in Proxies : proxy'[y].dev = proxy[y].dev
    PROVE  DevicePart'
<1>1. UniquePaths' /\ DeviceRefCount' /\ CallbackDeviceAlive'
  BY QuietStep
<1>2. ConnectionIdsLive'
  BY IdsFrame DEF Listed
<1> QED BY <1>1, <1>2 DEF DevicePart

\* gattlib_adapter_unref, whether or not it drops the last reference.
LEMMA UnrefStep ==
    ASSUME DeviceInv, TypeOK', SameCallbacks, NEW a, gattlib_adapter_unref(a),
           UNCHANGED <<proxy, timers>>
    PROVE  DevicePart'
<1>0. /\ a \in m_adapter_list /\ a \in Adapters /\ adapterRef[a] \in Nat
      /\ devices \in [Adapters -> SUBSET Devices]
  BY DEF gattlib_adapter_unref, DeviceInv, TypeOK
<1>1. CASE adapterRef[a] > 1
  BY <1>0, <1>1, StillStep DEF gattlib_adapter_unref
<1>2. CASE ~(adapterRef[a] > 1)
  <2>1. /\ UnrefDevices({d \in devices[a] : dev[d].state = "DISCONNECTED"})
        /\ m_adapter_list' = m_adapter_list \ {a}
        /\ devices' = [devices EXCEPT ![a] = devices[a] \ devices[a]]
    BY <1>0, <1>2 DEF gattlib_adapter_unref
  <2>2. UniquePaths' /\ DeviceRefCount' /\ CallbackDeviceAlive'
    BY <1>0, <2>1, RemovalStep
  <2>3. \A d : Listed(d)' => Listed(d) /\ d \in Devices /\ d \notin devices[a]
    BY <1>0, <2>1 DEF Listed, DeviceInv, UniquePaths
  <2>4. \A d : Listed(d)' => d \in heap /\ dev'[d] = dev[d]
    BY <2>1, <2>3, ListedFacts DEF UnrefDevices
  <2>5. ConnectionIdsLive'
    BY <2>3, <2>4, IdsFrame
  <2> QED BY <2>2, <2>5 DEF DevicePart
<1> QED BY <1>1, <1>2

\* A handler that dispatches a callback thread starts no connection callback by
\* itself: the thread has yet to take its reference.
LEMMA DispatchCallbacks ==
    ASSUME TypeOK, NEW h, NEW r, r.pc # "conn_callback", gattlib_handler_dispatch_to_thread(h, r)
    PROVE  SameCallbacks
  BY DEF TypeOK, gattlib_handler_dispatch_to_thread, SameCallbacks

\* A device enters a list: it has no timeout and no handler yet.
LEMMA AllocateIds ==
    ASSUME DeviceInv, TypeOK', NEW a \in m_adapter_list, NEW p \in Paths,
           AllocateDevice(a, p, "DISCONNECTED"), UNCHANGED <<proxy, timers>>
    PROVE  ConnectionIdsLive'
<1>0. /\ devices \in [Adapters -> SUBSET Devices] /\ heap \subseteq Devices
      /\ dev \in [Devices -> DeviceRecord] /\ a \in Adapters
  BY DEF DeviceInv, TypeOK
<1>1. PICK n \in Devices \ heap :
        /\ heap' = heap \cup {n}
        /\ dev' = [dev EXCEPT ![n] = NewDevice(a, p, "DISCONNECTED")]
        /\ devices' = [devices EXCEPT ![a] = @ \cup {n}]
  BY DEF AllocateDevice
<1>2. dev'[n].timeout = FALSE /\ dev'[n].proxy = NoProxy
  BY <1>0, <1>1 DEF NewDevice
<1>3. \A d \in heap : dev'[d] = dev[d] /\ (Listed(d)' => Listed(d))
  BY <1>0, <1>1 DEF Listed
<1> QED BY <1>1, <1>2, <1>3, IdsFrame

\* gattlib_device_set_state on listed devices, together with changes of the
\* other fields of device d: the counts only depend on the devices of no list.
LEMMA OverwriteStep ==
    ASSUME DeviceInv, TypeOK', SameCallbacks,
           NEW d, Listed(d), NEW D \in [Devices -> DeviceRecord], NEW s \in DeviceState,
           \A e \in Devices : /\ e # d => D[e] = dev[e]
                              /\ D[e].ref = dev[e].ref
                              /\ D[e].path = dev[e].path
                              /\ D[e].adapter = dev[e].adapter,
           NEW a \in Adapters, NEW p,
           dev' = OverwriteState(D, a, p, s),
           UNCHANGED <<devices, heap, m_adapter_list>>
    PROVE  UniquePaths' /\ DeviceRefCount' /\ CallbackDeviceAlive'
<1>1. \A e \in Devices : /\ dev'[e].ref = dev[e].ref
                         /\ dev'[e].path = dev[e].path
                         /\ dev'[e].adapter = dev[e].adapter
  BY OverwriteFacts
<1>2. \A e \in Devices : ~Listed(e) => dev'[e].state = dev[e].state
  BY OverwriteFacts DEF Listed
<1> QED BY <1>1, <1>2, QuietStep

\* gattlib_connect: the proxy it attaches is not the one of another connection.
LEMMA ConnectStep ==
    ASSUME DeviceInv, TypeOK', NEW a \in Adapters, NEW d \in Devices,
           Connect(a, d) \/ ConnectProxyError(a, d) \/ ConnectError(a, d)
    PROVE  DevicePart'
<1>0. /\ devices \in [Adapters -> SUBSET Devices] /\ heap \subseteq Devices
      /\ dev \in [Devices -> DeviceRecord] /\ timers \in [Devices -> Nat]
      /\ proxy \in [Proxies -> [dev : Devices \cup {NoDevice}, view : View]]
  BY DEF DeviceInv, TypeOK
<1>1. Listed(d) /\ UNCHANGED <<devices, heap, m_adapter_list, thread>>
  BY DEF Connect, ConnectProxyError, ConnectError, CanConnect, adapterVars, Listed
<1>2. d \in heap
  BY <1>1, ListedFacts
<1>3. SameCallbacks
  BY <1>1 DEF SameCallbacks
<1>4. ASSUME NEW s \in DeviceState, NEW O,
             O = OverwriteState(dev, dev[d].adapter, dev[d].path, s)
      PROVE  /\ O \in [Devices -> DeviceRecord]
             /\ \A e \in Devices : /\ O[e].ref = dev[e].ref
                                   /\ O[e].path = dev[e].path
                                   /\ O[e].adapter = dev[e].adapter
                                   /\ O[e].timeout = dev[e].timeout
                                   /\ O[e].proxy = dev[e].proxy
                                   /\ ~Listed(e) => O[e].state = dev[e].state
  <2>1. dev[d].adapter \in Adapters
    BY <1>1, ListedFacts DEF DeviceInv, TypeOK
  <2> QED BY <1>0, <1>4, <2>1, OverwriteFacts DEF Listed
<1>5. ConnectionIdsLive
  BY DEF DeviceInv
<1>6. CASE ConnectProxyError(a, d)
  <2>1. PICK O : /\ O = OverwriteState(dev, dev[d].adapter, dev[d].path, "CONNECTING")
                 /\ dev' = [O EXCEPT ![d] = [@ EXCEPT !.handler = TRUE]]
    BY <1>6 DEF ConnectProxyError
  <2>2. "CONNECTING" \in DeviceState
    BY DEF DeviceState
  <2>3. \A e \in Devices : /\ dev'[e].ref = O[e].ref
                           /\ dev'[e].path = O[e].path
                           /\ dev'[e].adapter = O[e].adapter
                           /\ dev'[e].timeout = O[e].timeout
                           /\ dev'[e].proxy = O[e].proxy
                           /\ e # d => dev'[e].state = O[e].state
    BY <1>4, <2>1, <2>2 DEF DeviceRecord
  <2>4. UniquePaths' /\ DeviceRefCount' /\ CallbackDeviceAlive'
    BY <1>1, <1>3, <1>4, <2>1, <2>2, <2>3, QuietStep
  <2>5. timers' = timers /\ proxy' = proxy
    BY <1>6 DEF ConnectProxyError
  <2>6. ConnectionIdsLive'
    BY <1>0, <1>1, <1>4, <1>5, <2>1, <2>2, <2>3, <2>5 DEF ConnectionIdsLive, Listed
  <2> QED BY <2>4, <2>6 DEF DevicePart
<1>7. CASE Connect(a, d)
  <2>O. PICK O : O = OverwriteState(dev, dev[d].adapter, dev[d].path, "CONNECTING")
    OBVIOUS
  <2>1. PICK x \in Proxies, v \in {"up", "resolved"} :
                 /\ proxy[x] = Detached
                 /\ proxy' = [proxy EXCEPT ![x] = [dev |-> d, view |-> v]]
                 /\ dev' = [O EXCEPT ![d] = [@ EXCEPT !.handler = TRUE, !.proxy = x, !.timeout = TRUE]]
    BY <1>7, <2>O DEF Connect
  <2>2. "CONNECTING" \in DeviceState
    BY DEF DeviceState
  <2>3. \A e \in Devices : /\ dev'[e].ref = O[e].ref
                           /\ dev'[e].path = O[e].path
                           /\ dev'[e].adapter = O[e].adapter
                           /\ e # d => dev'[e] = O[e]
    BY <1>4, <2>O, <2>1, <2>2 DEF DeviceRecord
  <2>4. UniquePaths' /\ DeviceRefCount' /\ CallbackDeviceAlive'
    BY <1>1, <1>3, <1>4, <2>O, <2>1, <2>2, <2>3, QuietStep
  <2>5. timers' = [timers EXCEPT ![d] = @ + 1]
    BY <1>7 DEF Connect
  <2>6. dev'[d].proxy = x
    BY <1>4, <2>O, <2>1, <2>2 DEF DeviceRecord
  <2>7. proxy'[x].dev = d /\ proxy[x].dev = NoDevice /\ timers'[d] > 0
    BY <1>0, <2>1, <2>5 DEF Detached
  <2>8. \A e \in heap \ {d} : Listed(e) =>
          /\ dev'[e].timeout = dev[e].timeout /\ dev'[e].proxy = dev[e].proxy /\ timers'[e] = timers[e]
          /\ dev[e].proxy # NoProxy => proxy'[dev[e].proxy].dev = e
    BY <1>0, <1>4, <1>5, <2>O, <2>1, <2>2, <2>3, <2>5, <2>7, ConstantAssumption DEF ConnectionIdsLive, DeviceRecord
  <2>9. ConnectionIdsLive'
    BY <1>1, <1>5, <2>6, <2>7, <2>8 DEF ConnectionIdsLive, Listed
  <2> QED BY <2>4, <2>9 DEF DevicePart
<1>8. CASE ConnectError(a, d)
  <2>O. PICK O : O = OverwriteState(dev, dev[d].adapter, dev[d].path, "DISCONNECTED")
    OBVIOUS
  <2>1. PICK x \in Proxies, v \in View :
                 /\ proxy[x] = Detached
                 /\ proxy' = [proxy EXCEPT ![x] = [dev |-> d, view |-> v]]
                 /\ dev' = [O EXCEPT ![d] = [@ EXCEPT !.handler = TRUE, !.proxy = x]]
    BY <1>8, <2>O DEF ConnectError
  <2>2. "DISCONNECTED" \in DeviceState
    BY DEF DeviceState
  <2>3. \A e \in Devices : /\ dev'[e].ref = O[e].ref
                           /\ dev'[e].path = O[e].path
                           /\ dev'[e].adapter = O[e].adapter
                           /\ dev'[e].timeout = O[e].timeout
                           /\ e # d => dev'[e] = O[e]
    BY <1>4, <2>O, <2>1, <2>2 DEF DeviceRecord
  <2>4. UniquePaths' /\ DeviceRefCount' /\ CallbackDeviceAlive'
    BY <1>1, <1>3, <1>4, <2>O, <2>1, <2>2, <2>3, QuietStep
  <2>5. timers' = timers
    BY <1>8 DEF ConnectError
  <2>6. dev'[d].proxy = x
    BY <1>4, <2>O, <2>1, <2>2 DEF DeviceRecord
  <2>7. proxy'[x].dev = d /\ proxy[x].dev = NoDevice
    BY <1>0, <2>1 DEF Detached
  <2>8. \A e \in heap \ {d} : Listed(e) =>
          /\ dev'[e].timeout = dev[e].timeout /\ dev'[e].proxy = dev[e].proxy
          /\ dev[e].proxy # NoProxy => proxy'[dev[e].proxy].dev = e
    BY <1>0, <1>4, <1>5, <2>O, <2>1, <2>2, <2>3, <2>7, ConstantAssumption DEF ConnectionIdsLive, DeviceRecord
  <2>9. dev'[d].timeout = dev[d].timeout
    BY <1>4, <2>O, <2>1, <2>2, <2>3
  <2>10. ConnectionIdsLive'
    BY <1>1, <1>2, <1>5, <2>5, <2>6, <2>7, <2>8, <2>9 DEF ConnectionIdsLive, Listed
  <2> QED BY <2>4, <2>10 DEF DevicePart
<1> QED BY <1>6, <1>7, <1>8

\* The timeout of a connection: a valid one forgets its id, so that the id is
\* not used once the timeout is gone.
LEMMA StopConnectStep ==
    ASSUME DeviceInv, TypeOK', NEW d \in Devices, StopConnect(d)
    PROVE  DevicePart'
<1>0. dev \in [Devices -> DeviceRecord] /\ timers \in [Devices -> Nat] /\ heap \subseteq Devices
  BY DEF DeviceInv, TypeOK
<1>1. /\ UNCHANGED <<devices, heap, m_adapter_list, thread, proxy>>
      /\ timers' = [timers EXCEPT ![d] = @ - 1]
  BY DEF StopConnect, adapterVars
<1>2. SameCallbacks
  BY <1>1 DEF SameCallbacks
<1>3. \A e \in Devices : /\ dev'[e].ref = dev[e].ref
                         /\ dev'[e].path = dev[e].path
                         /\ dev'[e].adapter = dev[e].adapter
                         /\ dev'[e].state = dev[e].state
                         /\ dev'[e].proxy = dev[e].proxy
                         /\ e # d => dev'[e].timeout = dev[e].timeout
  BY <1>0 DEF StopConnect, DeviceRecord
<1>4. Listed(d) => ~dev'[d].timeout
  <2> SUFFICES ASSUME Listed(d) PROVE ~dev'[d].timeout
    OBVIOUS
  <2>1. dev' = [dev EXCEPT ![d] = [@ EXCEPT !.timeout = FALSE]]
    BY ListedFacts DEF StopConnect
  <2> QED BY <1>0, <2>1 DEF DeviceRecord
<1>5. UniquePaths' /\ DeviceRefCount' /\ CallbackDeviceAlive'
  BY <1>1, <1>2, <1>3, QuietStep
<1>6. ConnectionIdsLive'
  <2>1. \A e \in heap \ {d} : timers'[e] = timers[e]
    BY <1>0, <1>1
  <2> QED BY <1>0, <1>1, <1>3, <1>4, <2>1 DEF DeviceInv, ConnectionIdsLive, Listed
<1> QED BY <1>5, <1>6 DEF DevicePart

\* The services of a device are resolved: its timeout is removed with its id.
LEMMA ResolvedStep ==
    ASSUME DeviceInv, TypeOK', NEW x \in Proxies, OnServicesResolved(x)
    PROVE  DevicePart'
<1>0. /\ dev \in [Devices -> DeviceRecord] /\ timers \in [Devices -> Nat] /\ heap \subseteq Devices
      /\ proxy \in [Proxies -> [dev : Devices \cup {NoDevice}, view : View]]
      /\ m_adapter_list \subseteq Adapters /\ TypeOK /\ ConnectionIdsLive
  BY DEF DeviceInv, TypeOK
<1>d. PICK d \in Devices : d = proxy[x].dev
  BY <1>0 DEF OnServicesResolved
<1>1. /\ UNCHANGED <<devices, heap, m_adapter_list>>
      /\ proxy' = [proxy EXCEPT ![x].view = "resolved"]
  BY DEF OnServicesResolved, adapterVars
<1>2. \A y \in Proxies : proxy'[y].dev = proxy[y].dev
  BY <1>0, <1>1
<1>3. CASE ~gattlib_connection_is_valid(d)
  <2>1. UNCHANGED <<timers, dev, thread>>
    BY <1>d, <1>3 DEF OnServicesResolved
  <2> QED BY <1>1, <1>2, <2>1, StillStep DEF SameCallbacks
<1>4. CASE gattlib_connection_is_valid(d)
  <2>1. Listed(d)
    BY <1>0, <1>4 DEF gattlib_connection_is_valid, Listed
  <2>2. d \in heap /\ dev[d].adapter \in Adapters
    BY <2>1, <1>0, ListedFacts
  <2>3. SameCallbacks
    <3>1. gattlib_handler_dispatch_to_thread(dev[d].handler,
            [pc |-> "conn_read", dev |-> d, adapter |-> NoAdapter])
      BY <1>d, <1>4 DEF OnServicesResolved, gattlib_on_connected_device
    <3> QED BY <1>0, <3>1, DispatchCallbacks
  <2>4. PICK r \in DeviceRecord : r = [dev[d] EXCEPT !.timeout = FALSE, !.objects = "held"]
    BY <1>0, DeviceUpdates
  <2>5. PICK D \in [Devices -> DeviceRecord] : D = [dev EXCEPT ![d] = r]
    BY <1>0, DeviceReplace
  <2>6. dev' = OverwriteState(D, dev[d].adapter, dev[d].path, "CONNECTED")
    BY <1>d, <1>4, <2>4, <2>5 DEF OnServicesResolved
  <2>7. /\ r.ref = dev[d].ref /\ r.path = dev[d].path /\ r.adapter = dev[d].adapter
        /\ r.proxy = dev[d].proxy /\ ~r.timeout
    BY <1>0, <2>4 DEF DeviceRecord
  <2>8. \A e \in Devices : /\ e # d => D[e] = dev[e]
                           /\ D[e].ref = dev[e].ref
                           /\ D[e].path = dev[e].path
                           /\ D[e].adapter = dev[e].adapter
                           /\ D[e].proxy = dev[e].proxy
    BY <1>0, <2>5, <2>7
  <2>9. "CONNECTED" \in DeviceState
    BY DEF DeviceState
  <2>10. UniquePaths' /\ DeviceRefCount' /\ CallbackDeviceAlive'
    BY <1>1, <2>1, <2>2, <2>3, <2>6, <2>8, <2>9, OverwriteStep
  <2>11. \A e \in Devices : /\ dev'[e].proxy = dev[e].proxy
                            /\ e # d => dev'[e].timeout = dev[e].timeout
    BY <2>6, <2>8, <2>9, OverwriteFacts
  <2>12. ~dev'[d].timeout
    <3>1. D[d] = r
      BY <1>0, <2>5
    <3>2. dev'[d].timeout = D[d].timeout
      BY <2>6, <2>9, OverwriteFacts
    <3> QED BY <2>7, <3>1, <3>2
  <2>13. \A e \in heap \ {d} : timers'[e] = timers[e]
    BY <1>0, <1>d, <1>4 DEF OnServicesResolved, RemoveTimer
  <2>14. \A e \in heap : dev[e].proxy # NoProxy => dev[e].proxy \in Proxies
    BY <1>0 DEF DeviceRecord
  <2>15. ConnectionIdsLive'
    BY <1>0, <1>1, <1>2, <2>11, <2>12, <2>13, <2>14 DEF ConnectionIdsLive, Listed
  <2> QED BY <2>10, <2>15 DEF DevicePart
<1> QED BY <1>3, <1>4

\* The loss of the link: the connection's handler is disconnected and its id
\* forgotten; the handlers of the other connections stay attached.
LEMMA DisconnectedStep ==
    ASSUME DeviceInv, TypeOK', NEW x \in Proxies, OnDisconnected(x)
    PROVE  DevicePart'
<1>0. /\ dev \in [Devices -> DeviceRecord] /\ timers \in [Devices -> Nat] /\ heap \subseteq Devices
      /\ proxy \in [Proxies -> [dev : Devices \cup {NoDevice}, view : View]]
      /\ m_adapter_list \subseteq Adapters /\ TypeOK /\ ConnectionIdsLive
  BY DEF DeviceInv, TypeOK
<1>d. PICK d \in Devices : d = proxy[x].dev
  BY <1>0 DEF OnDisconnected
<1>1. UNCHANGED <<devices, heap, m_adapter_list, thread>>
  BY DEF OnDisconnected, adapterVars
<1>2. SameCallbacks
  BY <1>1 DEF SameCallbacks
<1>3. CASE ~gattlib_connection_is_valid(d)
  <2>1. UNCHANGED <<timers, dev>> /\ proxy' = [proxy EXCEPT ![x].view = "down"]
    BY <1>d, <1>3 DEF OnDisconnected
  <2>2. \A y \in Proxies : proxy'[y].dev = proxy[y].dev
    BY <1>0, <2>1
  <2> QED BY <1>1, <1>2, <2>1, <2>2, StillStep
<1>4. CASE gattlib_connection_is_valid(d)
  <2>1. Listed(d)
    BY <1>0, <1>4 DEF gattlib_connection_is_valid, Listed
  <2>2. d \in heap /\ dev[d].adapter \in Adapters
    BY <2>1, <1>0, ListedFacts
  <2>3. /\ gattlib_connection_free(d)
        /\ proxy' = [y \in Proxies |-> IF y = dev[d].proxy THEN Detached
                                       ELSE IF y = x THEN [proxy[y] EXCEPT !.view = "down"]
                                       ELSE proxy[y]]
    BY <1>d, <1>4 DEF OnDisconnected
  <2>4. PICK r \in DeviceRecord :
          r = [dev[d] EXCEPT !.proxy = NoProxy, !.timeout = FALSE, !.objects = FreeObjects(dev[d].objects)]
    BY <1>0, DeviceUpdates
  <2>5. PICK D \in [Devices -> DeviceRecord] : D = [dev EXCEPT ![d] = r]
    BY <1>0, DeviceReplace
  <2>6. dev' = OverwriteState(D, dev[d].adapter, dev[d].path, "DISCONNECTED")
    BY <2>3, <2>4, <2>5 DEF gattlib_connection_free
  <2>7. /\ r.ref = dev[d].ref /\ r.path = dev[d].path /\ r.adapter = dev[d].adapter
        /\ r.proxy = NoProxy /\ ~r.timeout
    BY <1>0, <2>4 DEF DeviceRecord
  <2>8. \A e \in Devices : /\ e # d => D[e] = dev[e]
                           /\ D[e].ref = dev[e].ref
                           /\ D[e].path = dev[e].path
                           /\ D[e].adapter = dev[e].adapter
    BY <1>0, <2>5, <2>7
  <2>9. "DISCONNECTED" \in DeviceState
    BY DEF DeviceState
  <2>10. UniquePaths' /\ DeviceRefCount' /\ CallbackDeviceAlive'
    BY <1>1, <1>2, <2>1, <2>2, <2>6, <2>8, <2>9, OverwriteStep
  <2>11. \A e \in Devices \ {d} : /\ dev'[e].proxy = dev[e].proxy
                                  /\ dev'[e].timeout = dev[e].timeout
    BY <2>6, <2>8, <2>9, OverwriteFacts
  <2>12. ~dev'[d].timeout /\ dev'[d].proxy = NoProxy
    <3>1. D[d] = r
      BY <1>0, <2>5
    <3>2. dev'[d].timeout = D[d].timeout /\ dev'[d].proxy = D[d].proxy
      BY <2>6, <2>9, OverwriteFacts
    <3> QED BY <2>7, <3>1, <3>2
  <2>13. \A e \in heap \ {d} : timers'[e] = timers[e]
    BY <1>0, <2>3 DEF gattlib_connection_free, RemoveTimer
  <2>14. \A e \in heap \ {d} : Listed(e) /\ dev[e].proxy # NoProxy => proxy'[dev[e].proxy].dev = e
    <3> SUFFICES ASSUME NEW e \in heap \ {d}, Listed(e), dev[e].proxy # NoProxy
                 PROVE  proxy'[dev[e].proxy].dev = e
      OBVIOUS
    <3>1. dev[e].proxy \in Proxies /\ proxy[dev[e].proxy].dev = e
      BY <1>0 DEF ConnectionIdsLive, DeviceRecord
    <3>2. dev[e].proxy # dev[d].proxy
      BY <1>0, <2>1, <2>2, <3>1 DEF ConnectionIdsLive
    <3> QED BY <1>0, <2>3, <3>1, <3>2
  <2>15. ConnectionIdsLive'
    BY <1>0, <1>1, <2>11, <2>12, <2>13, <2>14 DEF ConnectionIdsLive, Listed
  <2> QED BY <2>10, <2>15 DEF DevicePart
<1> QED BY <1>3, <1>4

\* Every action preserves the invariant of the devices.
LEMMA StepInv ==
    ASSUME DeviceInv, [Next]_vars
    PROVE  DeviceInv'
<1>t. TypeOK' /\ AdapterRefPositive'
  BY TypeStep
<1>0. /\ thread \in [Threads -> ThreadRecord] /\ devices \in [Adapters -> SUBSET Devices]
      /\ proxy \in [Proxies -> [dev : Devices \cup {NoDevice}, view : View]]
      /\ dev \in [Devices -> DeviceRecord] /\ TypeOK
  BY DEF DeviceInv, TypeOK
<1>1. ASSUME NEW u \in Apps,
             AdapterOpen(u) \/ AdapterOpenCreate(u) \/ DisconnectReturn(u)
      PROVE  DevicePart'
  <2>1. UNCHANGED <<devices, heap, dev, timers, proxy, thread>> /\ m_adapter_list \subseteq m_adapter_list'
    BY <1>1 DEF AdapterOpen, AdapterOpenCreate, DisconnectReturn, deviceVars, adapterVars
  <2> QED BY <1>t, <2>1, StillStep DEF SameCallbacks
<1>2. ASSUME NEW u \in Apps, AdapterCloseFinish(u)
      PROVE  DevicePart'
  BY <1>t, <1>2, UnrefStep DEF AdapterCloseFinish, SameCallbacks
<1>3. ASSUME NEW u \in Apps, NEW a \in Adapters, AdapterClose(u, a)
      PROVE  DevicePart'
  <2>1. CASE gattlib_adapter_unref(a)
    BY <1>t, <1>3, <2>1, UnrefStep DEF AdapterClose, SameCallbacks
  <2>2. CASE UNCHANGED <<m_adapter_list, adapterRef, devices, known, heap, dev>>
    BY <1>t, <1>3, <2>2, StillStep DEF AdapterClose, SameCallbacks
  <2> QED BY <1>3, <2>1, <2>2 DEF AdapterClose
<1>4. ASSUME NEW u \in Apps, NEW d \in Devices, NEW wait \in BOOLEAN, Disconnect(u, d, wait)
      PROVE  DevicePart'
  <2>1. /\ UNCHANGED <<devices, heap, m_adapter_list, proxy, timers, thread>>
        /\ dev' = OverwriteState(dev, dev[d].adapter, dev[d].path, "DISCONNECTING")
    BY <1>4 DEF Disconnect, adapterVars
  <2>2. Listed(d)
    BY <1>0, <1>4 DEF Disconnect, gattlib_connection_is_connected, gattlib_connection_is_valid, Listed, TypeOK
  <2>3. dev[d].adapter \in Adapters /\ "DISCONNECTING" \in DeviceState
    BY <1>0, <2>2, ListedFacts DEF TypeOK, DeviceState
  <2>4. SameCallbacks
    BY <2>1 DEF SameCallbacks
  <2>5. UniquePaths' /\ DeviceRefCount' /\ CallbackDeviceAlive'
    BY <1>0, <1>t, <2>1, <2>2, <2>3, <2>4, OverwriteStep
  <2>6. \A e \in Devices : dev'[e].timeout = dev[e].timeout /\ dev'[e].proxy = dev[e].proxy
    BY <1>0, <2>1, <2>3, OverwriteFacts
  <2>7. ConnectionIdsLive'
    BY <1>0, <1>t, <2>1, <2>6, IdsFrame DEF Listed, TypeOK
  <2> QED BY <2>5, <2>7 DEF DevicePart
<1>5. ASSUME NEW a \in Adapters, \/ ScanEnable(a) \/ ScanDisable(a) \/ ScanDetach(a)
                                 \/ \E p \in Paths : BluezObjectChange(a, p)
      PROVE  DevicePart'
  <2>1. UNCHANGED <<devices, heap, dev, timers, proxy, thread, m_adapter_list>>
    BY <1>5 DEF ScanEnable, ScanDisable, ScanDetach, BluezObjectChange, deviceVars
  <2> QED BY <1>t, <2>1, StillStep DEF SameCallbacks
<1>6. ASSUME NEW a \in Adapters, NEW p \in Paths,
             OnDbusObjectAdded(a, p) \/ OnInterfacePropertiesChanged(a, p)
      PROVE  DevicePart'
  <2>1. a \in m_adapter_list /\ UNCHANGED <<m_adapter_list, proxy, timers>>
    BY <1>6 DEF OnDbusObjectAdded, OnInterfacePropertiesChanged
  <2>2. SameCallbacks
    <3>1. gattlib_handler_dispatch_to_thread(discovery[a].handler,
            [pc |-> "disc_start", dev |-> NoDevice, adapter |-> a])
      BY <1>6 DEF OnDbusObjectAdded, OnInterfacePropertiesChanged, gattlib_on_discovered_device
    <3> QED BY <1>0, <3>1, DispatchCallbacks
  <2>3. CASE gattlib_device_get_device(a, p) = {} /\ AllocateDevice(a, p, "DISCONNECTED")
    BY <1>t, <2>1, <2>2, <2>3, AllocationStep, AllocateIds DEF DevicePart
  <2>4. CASE /\ gattlib_device_get_device(a, p) # {}
             /\ dev' = OverwriteState(dev, a, p, "DISCONNECTED")
             /\ UNCHANGED <<heap, devices>>
    <3>1. PICK d : Listed(d)
      BY <2>4 DEF gattlib_device_get_device, Listed
    <3>2. "DISCONNECTED" \in DeviceState
      BY DEF DeviceState
    <3>3. UniquePaths' /\ DeviceRefCount' /\ CallbackDeviceAlive'
      BY <1>0, <1>t, <2>1, <2>2, <2>4, <3>1, <3>2, OverwriteStep
    <3>4. \A e \in Devices : dev'[e].timeout = dev[e].timeout /\ dev'[e].proxy = dev[e].proxy
      BY <1>0, <2>4, <3>2, OverwriteFacts
    <3>5. ConnectionIdsLive'
      BY <1>0, <1>t, <2>1, <2>4, <3>4, IdsFrame DEF Listed, TypeOK
    <3> QED BY <3>3, <3>5 DEF DevicePart
  <2> QED BY <1>6, <2>3, <2>4 DEF OnDbusObjectAdded, OnInterfacePropertiesChanged
<1>7. ASSUME NEW a \in Adapters, NEW p \in Paths, OnDbusObjectRemoved(a, p)
      PROVE  DevicePart'
  <2>1. PICK R \in SUBSET devices[a] :
          R = {d \in gattlib_device_get_device(a, p) : dev[d].state = "DISCONNECTED"}
    BY DEF gattlib_device_get_device
  <2>2. /\ a \in m_adapter_list /\ UNCHANGED <<m_adapter_list, proxy, timers, thread>>
        /\ devices' = [devices EXCEPT ![a] = devices[a] \ R] /\ UnrefDevices(R)
    BY <1>7, <2>1 DEF OnDbusObjectRemoved
  <2>3. R = {d \in R : dev[d].state = "DISCONNECTED"}
    BY <2>1
  <2>4. SameCallbacks
    BY <2>2 DEF SameCallbacks
  <2>5. UniquePaths' /\ DeviceRefCount' /\ CallbackDeviceAlive'
    BY <2>2, <2>3, <2>4, RemovalStep
  <2>6. \A d : Listed(d)' => Listed(d) /\ d \notin R
    BY <1>0, <2>1, <2>2 DEF Listed, DeviceInv, UniquePaths
  <2>7. \A d : Listed(d)' => d \in heap /\ dev'[d] = dev[d]
    BY <2>2, <2>6, ListedFacts DEF UnrefDevices
  <2>8. ConnectionIdsLive'
    BY <1>t, <2>2, <2>6, <2>7, IdsFrame
  <2> QED BY <2>5, <2>8 DEF DevicePart
<1>8. ASSUME NEW x \in Proxies, OnLinkUp(x)
      PROVE  DevicePart'
  <2>1. UNCHANGED <<devices, heap, dev, timers, thread, m_adapter_list>>
    BY <1>8 DEF OnLinkUp, adapterVars
  <2>2. \A y \in Proxies : proxy'[y].dev = proxy[y].dev
    BY <1>0, <1>8 DEF OnLinkUp
  <2> QED BY <1>t, <2>1, <2>2, StillStep DEF SameCallbacks
<1>9. ASSUME NEW t \in Threads,
             DiscoveredThreadLock(t) \/ DiscoveredThreadCall(t) \/ ConnectedThreadRead(t)
      PROVE  DevicePart'
  <2>1. UNCHANGED <<devices, heap, dev, timers, proxy, m_adapter_list>>
    BY <1>9 DEF DiscoveredThreadLock, DiscoveredThreadCall, ConnectedThreadRead, adapterVars, deviceVars
  <2>2. SameCallbacks
    BY <1>0, <1>9 DEF DiscoveredThreadLock, DiscoveredThreadCall, ConnectedThreadRead, SameCallbacks,
                      NoThread, ThreadRecord
  <2> QED BY <1>t, <2>1, <2>2, StillStep
<1>10. ASSUME NEW t \in Threads, DiscoveredThreadEnd(t)
      PROVE  DevicePart'
  <2>1. SameCallbacks
    BY <1>0, <1>10 DEF DiscoveredThreadEnd, SameCallbacks, NoThread
  <2> QED BY <1>t, <1>10, <2>1, UnrefStep DEF DiscoveredThreadEnd
<1>11. ASSUME NEW t \in Threads, ConnectedThreadLock(t)
      PROVE  DevicePart'
  <2>1. UniquePaths' /\ DeviceRefCount' /\ CallbackDeviceAlive'
    BY <1>11, CallbackStart
  <2>2. UNCHANGED <<devices, heap, timers, proxy>>
    BY <1>11 DEF ConnectedThreadLock, adapterVars
  <2>3. \A d \in Devices : dev'[d].timeout = dev[d].timeout /\ dev'[d].proxy = dev[d].proxy
    BY <1>0, <1>11 DEF ConnectedThreadLock, DeviceRecord
  <2>4. ConnectionIdsLive'
    BY <1>0, <1>t, <2>2, <2>3, IdsFrame DEF Listed, TypeOK
  <2> QED BY <2>1, <2>4 DEF DevicePart
<1>12. ASSUME NEW t \in Threads, ConnectedThreadEnd(t)
      PROVE  DevicePart'
  <2>1. UNCHANGED <<devices, timers, proxy>> /\ heap' \subseteq heap
    BY <1>12 DEF ConnectedThreadEnd, adapterVars, UnrefDevices
  <2>2. \A d : Listed(d)' => Listed(d)
    BY <2>1 DEF Listed
  <2>3. ConnectionIdsLive'
    BY <1>t, <1>12, <2>1, <2>2, CallbackEnd, IdsFrame
  <2> QED BY <1>12, <2>3, CallbackEnd DEF DevicePart
<1>13. ASSUME UNCHANGED vars
       PROVE  DevicePart'
  BY <1>t, <1>13, StillStep DEF vars, adapterVars, deviceVars, SameCallbacks
<1>14. DevicePart'
  BY <1>t, <1>1, <1>2, <1>3, <1>4, <1>5, <1>6, <1>7, <1>8, <1>9, <1>10, <1>11, <1>12, <1>13,
     ConnectStep, StopConnectStep, ResolvedStep, DisconnectedStep
     DEF Next, AppNext, ScanNext, ConnectNext, ThreadNext
<1> QED BY <1>t, <1>14 DEF DeviceInv, DevicePart

-----------------------------------------------------------------------------
(* The loss of the link is noticed.                                        *)

\* A device is waited for: the handler of a proxy that has not seen the loss of
\* its link yet is attached to it.
Signalled(d) == \E x \in Proxies : proxy[x] = [dev |-> d, view |-> "resolved"]

\* The states of a device whose link is up.
LinkStates == {"CONNECTED", "DISCONNECTING"}

\* gattlib_device_set_state changes the device it is called for, and only the
\* one: no other device of the list has its id.
LEMMA OverwriteOne ==
    ASSUME DeviceInv, NEW d, Listed(d), NEW s \in DeviceState, NEW D \in [Devices -> DeviceRecord],
           \A e \in Devices : D[e].path = dev[e].path
    PROVE  LET O == OverwriteState(D, dev[d].adapter, dev[d].path, s)
           IN  O[d].state = s /\ \A e \in Devices \ {d} : O[e] = D[e]
<1>1. d \in Devices /\ dev[d].adapter \in m_adapter_list /\ d \in devices[dev[d].adapter]
  BY ListedFacts
<1>2. dev[d].adapter \in Adapters
  BY <1>1 DEF DeviceInv, TypeOK
<1>3. D[d] \in DeviceRecord
  BY <1>1
<1>4. \A e \in devices[dev[d].adapter] : dev[e].path = dev[d].path => e = d
  BY <1>1, <1>2 DEF DeviceInv, UniquePaths
<1> QED BY <1>1, <1>3, <1>4 DEF OverwriteState, DeviceRecord

\* A handler that sees the loss of another link leaves the device waited for.
LEMMA SignalOfOthers ==
    ASSUME DeviceInv, NEW x \in Proxies, OnDisconnected(x),
           NEW d, Listed(d), Signalled(d), proxy[x].dev # d
    PROVE  Signalled(d)'
<1>0. proxy \in [Proxies -> [dev : Devices \cup {NoDevice}, view : View]]
  BY DEF DeviceInv, TypeOK
<1>w. PICK w \in Proxies : proxy[w] = [dev |-> d, view |-> "resolved"]
  BY DEF Signalled
<1>e. PICK e \in Devices : e = proxy[x].dev
  BY <1>0 DEF OnDisconnected
<1>1. proxy[w].dev = d /\ x # w
  BY <1>w
<1>2. CASE ~gattlib_connection_is_valid(e)
  <2>1. proxy' = [proxy EXCEPT ![x].view = "down"]
    BY <1>e, <1>2 DEF OnDisconnected
  <2> QED BY <1>0, <1>w, <1>1, <2>1 DEF Signalled
<1>3. CASE gattlib_connection_is_valid(e)
  <2>1. proxy' = [y \in Proxies |-> IF y = dev[e].proxy THEN Detached
                                    ELSE IF y = x THEN [proxy[y] EXCEPT !.view = "down"]
                                    ELSE proxy[y]]
    BY <1>e, <1>3 DEF OnDisconnected
  <2>2. Listed(e) /\ e \in heap
    BY <1>3, ListedFacts DEF gattlib_connection_is_valid, Listed, DeviceInv, TypeOK
  <2>3. dev[e].proxy = NoProxy \/ proxy[dev[e].proxy].dev = e
    BY <2>2 DEF DeviceInv, ConnectionIdsLive
  <2>4. proxy'[w] = proxy[w]
    BY <1>1, <1>e, <2>1, <2>3, ConstantAssumption
  <2> QED BY <1>w, <2>4 DEF Signalled
<1> QED BY <1>2, <1>3

\* The steps other than the loss of a link.
NoLoss ==
    \/ AppNext \/ ScanNext \/ ThreadNext
    \/ \E a \in Adapters, e \in Devices : Connect(a, e) \/ ConnectProxyError(a, e) \/ ConnectError(a, e)
    \/ \E e \in Devices : StopConnect(e)
    \/ \E x \in Proxies : OnServicesResolved(x) \/ OnLinkUp(x)
    \/ UNCHANGED vars

\* They leave every device waited for.
LEMMA SignalKept ==
    ASSUME DeviceInv, NoLoss, NEW d, Listed(d), Signalled(d)
    PROVE  Signalled(d)'
<1>0. /\ proxy \in [Proxies -> [dev : Devices \cup {NoDevice}, view : View]]
      /\ d \in Devices /\ NoDevice \notin Devices
  BY ListedFacts, ConstantAssumption DEF DeviceInv, TypeOK
<1>w. PICK w \in Proxies : proxy[w] = [dev |-> d, view |-> "resolved"]
  BY DEF Signalled
<1>f. proxy[w].dev = d /\ proxy[w].view = "resolved"
  BY <1>w
<1>1. CASE proxy' = proxy
  BY <1>1 DEF Signalled
<1>2. ASSUME NEW a \in Adapters, NEW e \in Devices, Connect(a, e) \/ ConnectError(a, e)
      PROVE  Signalled(d)'
  <2>1. PICK x \in Proxies, v \in View :
           proxy[x] = Detached /\ proxy' = [proxy EXCEPT ![x] = [dev |-> e, view |-> v]]
    BY <1>2 DEF Connect, ConnectError, View
  <2>2. proxy'[w] = proxy[w]
    BY <1>0, <1>f, <2>1 DEF Detached
  <2> QED BY <1>w, <2>2 DEF Signalled
<1>3. ASSUME NEW x \in Proxies, OnServicesResolved(x) \/ OnLinkUp(x)
      PROVE  Signalled(d)'
  <2>1. x # w
    BY <1>3, <1>f DEF OnServicesResolved, OnLinkUp
  <2>2. proxy'[w] = proxy[w]
    BY <1>0, <1>3, <2>1 DEF OnServicesResolved, OnLinkUp
  <2> QED BY <1>w, <2>2 DEF Signalled
<1>4. CASE AppNext
  BY <1>1, <1>4 DEF AppNext, AdapterOpen, AdapterOpenCreate, AdapterCloseFinish, DisconnectReturn,
                    AdapterClose, Disconnect, deviceVars
<1>5. CASE ScanNext
  BY <1>1, <1>5 DEF ScanNext, ScanEnable, ScanDisable, ScanDetach, OnDbusObjectAdded, OnDbusObjectRemoved,
                    OnInterfacePropertiesChanged, BluezObjectChange, deviceVars
<1>6. CASE \E a \in Adapters, e \in Devices : ConnectProxyError(a, e)
  BY <1>1, <1>6 DEF ConnectProxyError
<1>7. CASE \E e \in Devices : StopConnect(e)
  BY <1>1, <1>7 DEF StopConnect
<1>8. CASE ThreadNext
  BY <1>1, <1>8 DEF ThreadNext, DiscoveredThreadLock, DiscoveredThreadCall, DiscoveredThreadEnd,
                    ConnectedThreadRead, ConnectedThreadLock, ConnectedThreadEnd, deviceVars
<1>9. CASE UNCHANGED vars
  BY <1>1, <1>9 DEF vars, deviceVars
<1> QED BY <1>2, <1>3, <1>4, <1>5, <1>6, <1>7, <1>8, <1>9 DEF NoLoss

\* A device of a list whose link is up.
LinkUp(d) == Listed(d) /\ dev[d].state \in LinkStates

\* Removing devices from lists and dropping references gives no listed device
\* another state.
LEMMA RemovalLinks ==
    ASSUME DeviceInv, NEW S, UnrefDevices(S),
           \A a \in Adapters : devices'[a] \subseteq devices[a] \ S,
           NEW d, LinkUp(d)'
    PROVE  LinkUp(d)
<1>1. PICK a \in Adapters : d \in devices'[a]
  BY DEF LinkUp, Listed
<1>2. d \in devices[a] /\ d \notin S /\ d \in Devices
  BY <1>1 DEF DeviceInv, TypeOK
<1>3. dev'[d] = dev[d]
  BY <1>2 DEF UnrefDevices
<1> QED BY <1>2, <1>3 DEF LinkUp, Listed

\* gattlib_adapter_unref gives no device of a list another state.
LEMMA UnrefLinks ==
    ASSUME DeviceInv, NEW a, gattlib_adapter_unref(a), NEW d, LinkUp(d)'
    PROVE  LinkUp(d)
<1>0. a \in Adapters /\ devices \in [Adapters -> SUBSET Devices] /\ UniquePaths
  BY DEF gattlib_adapter_unref, DeviceInv, TypeOK
<1>1. CASE UNCHANGED <<devices, dev>>
  BY <1>1 DEF LinkUp, Listed
<1>2. CASE UnrefDevices({e \in devices[a] : dev[e].state = "DISCONNECTED"}) /\ devices' = [devices EXCEPT ![a] = {}]
  <2>1. \A b \in Adapters : devices'[b] \subseteq devices[b] \ devices[a]
    BY <1>0, <1>2 DEF UniquePaths
  <2>2. \A b \in Adapters : devices'[b] \subseteq devices[b] \ {e \in devices[a] : dev[e].state = "DISCONNECTED"}
    BY <2>1
  <2> QED BY <1>2, <2>2, RemovalLinks
<1> QED BY <1>1, <1>2 DEF gattlib_adapter_unref

\* A step gives a device of a list the state of one whose link is up only if it
\* had one before, or if its services are resolved.
LEMMA LinkSource ==
    ASSUME DeviceInv, [Next]_vars, NEW d, LinkUp(d)'
    PROVE  LinkUp(d) \/ \E x \in Proxies : proxy[x].dev = d /\ OnServicesResolved(x)
<1>0. /\ dev \in [Devices -> DeviceRecord] /\ devices \in [Adapters -> SUBSET Devices]
      /\ heap \subseteq Devices /\ m_adapter_list \subseteq Adapters
      /\ proxy \in [Proxies -> [dev : Devices \cup {NoDevice}, view : View]]
      /\ UniquePaths /\ NoDevice \notin Devices
  BY ConstantAssumption DEF DeviceInv, TypeOK
<1>s. {"CONNECTING", "DISCONNECTED", "DISCONNECTING", "CONNECTED"} \subseteq DeviceState
  BY DEF DeviceState
<1>1. ASSUME UNCHANGED <<devices, dev>>
      PROVE  LinkUp(d)
  BY <1>1 DEF LinkUp, Listed
<1>2. ASSUME UNCHANGED devices, \A e \in Devices : dev'[e].state = dev[e].state
      PROVE  LinkUp(d)
  BY <1>0, <1>2 DEF LinkUp, Listed
\* gattlib_device_set_state of a device e whose link is up, or that loses it.
<1>3. ASSUME UNCHANGED devices, NEW e, Listed(e), NEW s \in DeviceState,
             NEW D \in [Devices -> DeviceRecord],
             \A f \in Devices : D[f].path = dev[f].path /\ (f # e => D[f] = dev[f]),
             \A f \in Devices : dev'[f].state = OverwriteState(D, dev[e].adapter, dev[e].path, s)[f].state,
             s \in LinkStates => LinkUp(e)
      PROVE  LinkUp(d)
  <2>1. Listed(d) /\ d \in Devices /\ e \in Devices
    BY <1>3, <1>0, ListedFacts DEF LinkUp, Listed
  <2>2. dev'[e].state = s /\ \A f \in Devices \ {e} : dev'[f].state = dev[f].state
    BY <1>3, <2>1, OverwriteOne
  <2> QED BY <1>3, <2>1, <2>2 DEF LinkUp
<1>4. CASE AppNext
  <2>1. ASSUME NEW u \in Apps, AdapterOpen(u) \/ AdapterOpenCreate(u) \/ DisconnectReturn(u)
        PROVE  LinkUp(d)
    BY <1>1, <2>1 DEF AdapterOpen, AdapterOpenCreate, DisconnectReturn, deviceVars, adapterVars
  <2>2. ASSUME NEW u \in Apps, AdapterCloseFinish(u)
        PROVE  LinkUp(d)
    BY <2>2, UnrefLinks DEF AdapterCloseFinish
  <2>3. ASSUME NEW u \in Apps, NEW a \in Adapters, AdapterClose(u, a)
        PROVE  LinkUp(d)
    BY <1>1, <2>3, UnrefLinks DEF AdapterClose
  <2>4. ASSUME NEW u \in Apps, NEW e \in Devices, NEW wait \in BOOLEAN, Disconnect(u, e, wait)
        PROVE  LinkUp(d)
    <3>1. Listed(e) /\ LinkUp(e)
      BY <1>0, <2>4 DEF Disconnect, gattlib_connection_is_connected, gattlib_connection_is_valid,
                        Listed, LinkUp, LinkStates
    <3>2. /\ UNCHANGED devices
          /\ dev' = OverwriteState(dev, dev[e].adapter, dev[e].path, "DISCONNECTING")
      BY <2>4 DEF Disconnect, adapterVars
    <3> QED BY <1>0, <1>s, <1>3, <3>1, <3>2
  <2> QED BY <1>4, <2>1, <2>2, <2>3, <2>4 DEF AppNext
<1>5. CASE ScanNext
  <2>1. ASSUME NEW a \in Adapters, NEW p \in Paths, gattlib_device_get_device(a, p) = {},
               AllocateDevice(a, p, "DISCONNECTED")
        PROVE  LinkUp(d)
    <3>1. PICK n \in Devices \ heap :
            /\ dev' = [dev EXCEPT ![n] = NewDevice(a, p, "DISCONNECTED")]
            /\ devices' = [devices EXCEPT ![a] = @ \cup {n}]
      BY <2>1 DEF AllocateDevice
    <3>2. dev'[n].state = "DISCONNECTED"
      BY <1>0, <3>1 DEF NewDevice
    <3>3. d # n
      BY <3>2 DEF LinkUp, LinkStates
    <3>4. Listed(d)
      BY <1>0, <3>1, <3>3 DEF LinkUp, Listed
    <3>5. dev'[d] = dev[d]
      BY <1>0, <3>1, <3>3
    <3> QED BY <3>4, <3>5 DEF LinkUp
  <2>2. ASSUME NEW a \in Adapters, NEW p \in Paths, OnDbusObjectAdded(a, p)
        PROVE  LinkUp(d)
    <3>1. CASE gattlib_device_get_device(a, p) # {}
      <4>1. PICK e \in devices[a] : dev[e].path = p
        BY <3>1 DEF gattlib_device_get_device
      <4>2. Listed(e) /\ dev[e].adapter = a
        BY <1>0, <4>1 DEF Listed, UniquePaths
      <4>3. dev' = OverwriteState(dev, dev[e].adapter, dev[e].path, "DISCONNECTED") /\ UNCHANGED devices
        BY <2>2, <3>1, <4>1, <4>2 DEF OnDbusObjectAdded
      <4> QED BY <1>0, <1>s, <1>3, <4>2, <4>3 DEF LinkStates
    <3> QED BY <2>1, <2>2, <3>1 DEF OnDbusObjectAdded
  <2>3. ASSUME NEW a \in Adapters, NEW p \in Paths, OnDbusObjectRemoved(a, p)
        PROVE  LinkUp(d)
    <3> DEFINE gone == {e \in gattlib_device_get_device(a, p) : dev[e].state = "DISCONNECTED"}
    <3>1. devices' = [devices EXCEPT ![a] = @ \ gone] /\ UnrefDevices(gone)
      BY <2>3 DEF OnDbusObjectRemoved
    <3>2. gone \subseteq devices[a]
      BY DEF gattlib_device_get_device
    <3> HIDE DEF gone
    <3>3. \A b \in Adapters : devices'[b] \subseteq devices[b] \ gone
      BY <1>0, <3>1, <3>2 DEF UniquePaths
    <3> QED BY <3>1, <3>3, RemovalLinks
  <2>4. ASSUME NEW a \in Adapters, NEW p \in Paths, OnInterfacePropertiesChanged(a, p)
        PROVE  LinkUp(d)
    BY <2>1, <2>4 DEF OnInterfacePropertiesChanged
  <2>5. ASSUME NEW a \in Adapters, \/ ScanEnable(a) \/ ScanDisable(a) \/ ScanDetach(a)
                                   \/ \E p \in Paths : BluezObjectChange(a, p)
        PROVE  LinkUp(d)
    BY <1>1, <2>5 DEF ScanEnable, ScanDisable, ScanDetach, BluezObjectChange, deviceVars
  <2> QED BY <1>5, <2>2, <2>3, <2>4, <2>5 DEF ScanNext
<1>6. CASE ConnectNext
  <2>1. ASSUME NEW a \in Adapters, NEW e \in Devices,
               Connect(a, e) \/ ConnectProxyError(a, e) \/ ConnectError(a, e)
        PROVE  LinkUp(d)
    <3>1. UNCHANGED devices /\ Listed(e)
      BY <2>1 DEF Connect, ConnectProxyError, ConnectError, CanConnect, Listed, adapterVars
    <3>2. ASSUME NEW s \in {"CONNECTING", "DISCONNECTED"}, NEW O,
                 O = OverwriteState(dev, dev[e].adapter, dev[e].path, s)
          PROVE  O \in [Devices -> DeviceRecord]
      BY <1>0, <1>s, <3>2, OverwriteFacts
    <3>3. PICK s \in {"CONNECTING", "DISCONNECTED"} :
            \A f \in Devices : dev'[f].state = OverwriteState(dev, dev[e].adapter, dev[e].path, s)[f].state
      <4>1. PICK O, P : /\ O = OverwriteState(dev, dev[e].adapter, dev[e].path, "CONNECTING")
                        /\ P = OverwriteState(dev, dev[e].adapter, dev[e].path, "DISCONNECTED")
        OBVIOUS
      <4>2. O \in [Devices -> DeviceRecord] /\ P \in [Devices -> DeviceRecord]
        BY <3>2, <4>1
      <4>3. CASE Connect(a, e)
        <5>1. PICK x : dev' = [O EXCEPT ![e] = [@ EXCEPT !.handler = TRUE, !.proxy = x, !.timeout = TRUE]]
          BY <4>1, <4>3 DEF Connect
        <5>2. \A f \in Devices : dev'[f].state = O[f].state
          BY <4>2, <5>1 DEF DeviceRecord
        <5> QED BY <4>1, <5>2
      <4>4. CASE ConnectProxyError(a, e)
        <5>1. dev' = [O EXCEPT ![e] = [@ EXCEPT !.handler = TRUE]]
          BY <4>1, <4>4 DEF ConnectProxyError
        <5>2. \A f \in Devices : dev'[f].state = O[f].state
          BY <4>2, <5>1 DEF DeviceRecord
        <5> QED BY <4>1, <5>2
      <4>5. CASE ConnectError(a, e)
        <5>1. PICK x : dev' = [P EXCEPT ![e] = [@ EXCEPT !.handler = TRUE, !.proxy = x]]
          BY <4>1, <4>5 DEF ConnectError
        <5>2. \A f \in Devices : dev'[f].state = P[f].state
          BY <4>2, <5>1 DEF DeviceRecord
        <5> QED BY <4>1, <5>2
      <4> QED BY <2>1, <4>3, <4>4, <4>5
    <3>4. s \in DeviceState /\ s \notin LinkStates
      BY <1>s DEF LinkStates
    <3> QED BY <1>0, <1>3, <3>1, <3>3, <3>4
  <2>2. ASSUME NEW e \in Devices, StopConnect(e)
        PROVE  LinkUp(d)
    <3>1. \A f \in Devices : dev'[f].state = dev[f].state
      BY <1>0, <2>2 DEF StopConnect, DeviceRecord
    <3> QED BY <1>2, <2>2, <3>1 DEF StopConnect, adapterVars
  <2>3. ASSUME NEW x \in Proxies, OnServicesResolved(x)
        PROVE  LinkUp(d) \/ proxy[x].dev = d
    <3>e. PICK e \in Devices : e = proxy[x].dev
      BY <1>0, <2>3 DEF OnServicesResolved
    <3>1. UNCHANGED devices
      BY <2>3 DEF OnServicesResolved, adapterVars
    <3>2. CASE ~gattlib_connection_is_valid(e)
      BY <1>1, <2>3, <3>1, <3>2, <3>e DEF OnServicesResolved
    <3>3. CASE gattlib_connection_is_valid(e) /\ d # e
      <4>1. PICK r \in DeviceRecord : r = [dev[e] EXCEPT !.timeout = FALSE, !.objects = "held"]
        BY <1>0, DeviceUpdates
      <4>2. PICK D \in [Devices -> DeviceRecord] : D = [dev EXCEPT ![e] = r]
        BY <1>0, DeviceReplace
      <4>3. dev' = OverwriteState(D, dev[e].adapter, dev[e].path, "CONNECTED")
        BY <2>3, <3>e, <3>3, <4>1, <4>2 DEF OnServicesResolved
      <4>4. r.path = dev[e].path
        BY <1>0, <4>1 DEF DeviceRecord
      <4>5. \A f \in Devices : D[f].path = dev[f].path /\ (f # e => D[f] = dev[f])
        BY <1>0, <4>2, <4>4
      <4>6. Listed(e)
        BY <1>0, <3>3 DEF gattlib_connection_is_valid, Listed
      <4>7. \A f \in Devices \ {e} : dev'[f] = dev[f]
        BY <1>s, <4>3, <4>5, <4>6, OverwriteOne
      <4>8. Listed(d) /\ d \in Devices
        BY <1>0, <3>1 DEF LinkUp, Listed
      <4> QED BY <3>3, <4>7, <4>8 DEF LinkUp
    <3> QED BY <3>2, <3>3, <3>e
  <2>4. ASSUME NEW x \in Proxies, OnDisconnected(x)
        PROVE  LinkUp(d)
    <3>e. PICK e \in Devices : e = proxy[x].dev
      BY <1>0, <2>4 DEF OnDisconnected
    <3>1. UNCHANGED devices
      BY <2>4 DEF OnDisconnected, adapterVars
    <3>2. CASE ~gattlib_connection_is_valid(e)
      BY <1>1, <2>4, <3>1, <3>2, <3>e DEF OnDisconnected
    <3>3. CASE gattlib_connection_is_valid(e)
      <4>1. PICK r \in DeviceRecord :
              r = [dev[e] EXCEPT !.proxy = NoProxy, !.timeout = FALSE, !.objects = FreeObjects(dev[e].objects)]
        BY <1>0, DeviceUpdates
      <4>2. PICK D \in [Devices -> DeviceRecord] : D = [dev EXCEPT ![e] = r]
        BY <1>0, DeviceReplace
      <4>3. dev' = OverwriteState(D, dev[e].adapter, dev[e].path, "DISCONNECTED")
        BY <2>4, <3>e, <3>3, <4>1, <4>2 DEF OnDisconnected, gattlib_connection_free
      <4>4. r.path = dev[e].path
        BY <1>0, <4>1 DEF DeviceRecord
      <4>5. \A f \in Devices : D[f].path = dev[f].path /\ (f # e => D[f] = dev[f])
        BY <1>0, <4>2, <4>4
      <4>6. Listed(e)
        BY <1>0, <3>3 DEF gattlib_connection_is_valid, Listed
      <4> QED BY <1>s, <1>3, <3>1, <4>3, <4>5, <4>6 DEF LinkStates
    <3> QED BY <3>2, <3>3
  <2>5. ASSUME NEW x \in Proxies, OnLinkUp(x)
        PROVE  LinkUp(d)
    BY <1>1, <2>5 DEF OnLinkUp, adapterVars
  <2> QED BY <1>6, <2>1, <2>2, <2>3, <2>4, <2>5 DEF ConnectNext
<1>7. CASE ThreadNext
  <2>1. ASSUME NEW t \in Threads, \/ DiscoveredThreadLock(t) \/ DiscoveredThreadCall(t)
                                  \/ ConnectedThreadRead(t)
        PROVE  LinkUp(d)
    BY <1>1, <2>1 DEF DiscoveredThreadLock, DiscoveredThreadCall, ConnectedThreadRead, deviceVars, adapterVars
  <2>2. ASSUME NEW t \in Threads, DiscoveredThreadEnd(t)
        PROVE  LinkUp(d)
    BY <2>2, UnrefLinks DEF DiscoveredThreadEnd
  <2>3. ASSUME NEW t \in Threads, ConnectedThreadLock(t)
        PROVE  LinkUp(d)
    <3>1. UNCHANGED devices
      BY <2>3 DEF ConnectedThreadLock, adapterVars
    <3>2. \A e \in Devices : dev'[e].state = dev[e].state
      BY <1>0, <2>3 DEF ConnectedThreadLock, DeviceRecord
    <3> QED BY <1>2, <3>1, <3>2
  <2>4. ASSUME NEW t \in Threads, ConnectedThreadEnd(t)
        PROVE  LinkUp(d)
    <3>1. UNCHANGED devices /\ UnrefDevices({thread[t].dev})
      BY <2>4 DEF ConnectedThreadEnd, adapterVars
    <3>2. dev'[d].state # "DISCONNECTED" /\ d \in Devices
      BY <1>0, <3>1 DEF LinkUp, LinkStates, Listed
    <3>3. dev'[d].state = dev[d].state
      BY <1>0, <3>1, <3>2 DEF UnrefDevices, FreedDevice, NewDevice, DeviceRecord
    <3> QED BY <3>1, <3>3 DEF LinkUp, Listed
  <2> QED BY <1>7, <2>1, <2>2, <2>3, <2>4 DEF ThreadNext
<1>8. CASE UNCHANGED vars
  BY <1>1, <1>8 DEF vars, adapterVars, deviceVars
<1> QED BY <1>4, <1>5, <1>6, <1>7, <1>8 DEF Next

\* The loss of its link leaves a device of a list DISCONNECTED.
LEMMA LinkLost ==
    ASSUME DeviceInv, NEW x \in Proxies, OnDisconnected(x), Listed(proxy[x].dev)
    PROVE  dev'[proxy[x].dev].state = "DISCONNECTED"
<1>d. PICK d : d = proxy[x].dev
  OBVIOUS
<1>0. /\ dev \in [Devices -> DeviceRecord] /\ d \in Devices
      /\ Listed(d) /\ gattlib_connection_is_valid(d) /\ "DISCONNECTED" \in DeviceState
  BY <1>d, ListedFacts DEF DeviceInv, TypeOK, DeviceState
<1>1. PICK r \in DeviceRecord :
        r = [dev[d] EXCEPT !.proxy = NoProxy, !.timeout = FALSE, !.objects = FreeObjects(dev[d].objects)]
  BY <1>0, DeviceUpdates
<1>2. PICK D \in [Devices -> DeviceRecord] : D = [dev EXCEPT ![d] = r]
  BY <1>0, DeviceReplace
<1>3. dev' = OverwriteState(D, dev[d].adapter, dev[d].path, "DISCONNECTED")
  BY <1>d, <1>0, <1>1, <1>2 DEF OnDisconnected, gattlib_connection_free
<1>4. r.path = dev[d].path
  BY <1>0, <1>1 DEF DeviceRecord
<1>5. \A f \in Devices : D[f].path = dev[f].path
  BY <1>0, <1>2, <1>4
<1> QED BY <1>d, <1>0, <1>3, <1>5, OverwriteOne

\* A device whose link is up keeps a handler that waits for its loss: the one
\* that has seen the services resolved, until it sees the loss.
LEMMA LossStep ==
    ASSUME DeviceInv, LossIsSignalled, [Next]_vars
    PROVE  LossIsSignalled'
<1> SUFFICES ASSUME NEW d, LinkUp(d)' PROVE Signalled(d)'
  BY DEF LossIsSignalled, LinkUp, LinkStates, Signalled
<1>1. CASE \E x \in Proxies : proxy[x].dev = d /\ OnServicesResolved(x)
  <2>1. PICK x \in Proxies : proxy[x].dev = d /\ proxy' = [proxy EXCEPT ![x].view = "resolved"]
    BY <1>1 DEF OnServicesResolved
  <2>2. proxy'[x] = [dev |-> d, view |-> "resolved"]
    BY <2>1 DEF DeviceInv, TypeOK
  <2> QED BY <2>2 DEF Signalled
<1>2. CASE LinkUp(d)
  <2>1. Listed(d) /\ Signalled(d)
    BY <1>2, ListedFacts DEF LossIsSignalled, LinkUp, LinkStates, Signalled
  <2>2. ASSUME NEW x \in Proxies, OnDisconnected(x)
        PROVE  Signalled(d)'
    <3>1. proxy[x].dev # d
      BY <2>1, <2>2, LinkLost DEF LinkUp, LinkStates
    <3> QED BY <2>1, <2>2, <3>1, SignalOfOthers
  <2>3. NoLoss \/ \E x \in Proxies : OnDisconnected(x)
    BY DEF Next, ConnectNext, NoLoss
  <2> QED BY <2>1, <2>2, <2>3, SignalKept
<1> QED BY <1>1, <1>2, LinkSource

-----------------------------------------------------------------------------
(* The theorems.                                                           *)

\* The invariant of the devices holds in every behaviour of the library, for
\* any number of adapters, devices, proxies, threads and failures.
THEOREM DeviceInvariance == Spec => []DeviceInv
<1>1. Init => DeviceInv
  BY InitInv
<1>2. DeviceInv /\ [Next]_vars => DeviceInv'
  BY StepInv
<1> QED BY <1>1, <1>2, PTL DEF Spec

\* Type correctness; the counters of references and of timeouts never become
\* negative, which depends on the other parts of the invariant.
THEOREM TypeCorrect == Spec => []TypeOK
<1>1. DeviceInv => TypeOK
  BY DEF DeviceInv
<1> QED BY <1>1, DeviceInvariance, PTL

\* Every lookup by id finds one device at most, allocated, in the list of its
\* own adapter (gattlib_device_get_device, gattlib_connection_is_valid).
THEOREM PathsAreUnique == Spec => []UniquePaths
<1>1. DeviceInv => UniquePaths
  BY DEF DeviceInv
<1> QED BY <1>1, DeviceInvariance, PTL

\* The reference counter of a device is exact (gattlib_device_ref and
\* gattlib_device_unref).
THEOREM DeviceCountIsExact == Spec => []DeviceRefCount
<1>1. DeviceInv => DeviceRefCount
  BY DEF DeviceInv
<1> QED BY <1>1, DeviceInvariance, PTL

\* No device is freed under a running connection callback.
THEOREM CallbackDeviceSafe == Spec => []CallbackDeviceAlive
<1>1. DeviceInv => CallbackDeviceAlive
  BY DEF DeviceInv
<1> QED BY <1>1, DeviceInvariance, PTL

\* The timeout and the signal handler a connection remembers exist.
THEOREM IdsAreLive == Spec => []ConnectionIdsLive
<1>1. DeviceInv => ConnectionIdsLive
  BY DEF DeviceInv
<1> QED BY <1>1, DeviceInvariance, PTL

\* The disconnection of a device whose link is up will be noticed: a handler that
\* is attached to the device has not seen the loss of the link, although the
\* handler of a failed connection stays attached, one connection forgets the
\* handler of another, and the memory of devices is used again.
THEOREM LossesAreSignalled == Spec => []LossIsSignalled
<1>1. Init => LossIsSignalled
  BY DEF Init, LossIsSignalled
<1>2. DeviceInv /\ LossIsSignalled /\ [Next]_vars => LossIsSignalled'
  BY LossStep
<1> QED BY <1>1, <1>2, DeviceInvariance, PTL DEF Spec

=============================================================================
