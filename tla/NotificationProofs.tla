------------------------- MODULE NotificationProofs -------------------------
(***************************************************************************)
(* Notifications and indications never lose track of the handlers they     *)
(* attach, for any number of devices, characteristics, signals and pools.  *)
(*                                                                         *)
(* The steps of Notification are those of GattlibDevice or leave its       *)
(* variables alone, so that what is proved of devices holds here too.      *)
(***************************************************************************)
EXTENDS Notification, GattlibLifetimeProofs, SequenceTheorems

\* The variables have their types.
Typed ==
    /\ notification \in [Devices -> HandlerRecord]
    /\ indication \in [Devices -> HandlerRecord]
    /\ notified \in [Devices -> Seq(Entry)]
    /\ signals \in [Signals -> SignalRecord]
    /\ pools \in [Pools -> PoolRecord]

\* A handler that is set is that of its pool, also in memory that was freed,
\* where none is set: a pool is given to one handler once.
PoolCalls(d, handler, kind) ==
    handler.callback => /\ handler.pool \in Pools
                        /\ pools[handler.pool].dev = d
                        /\ pools[handler.pool].kind = kind

HandlersHavePools ==
    \A d \in Devices : /\ PoolCalls(d, notification[d], "notification")
                       /\ PoolCalls(d, indication[d], "indication")

\* An entry of a device remembers a handler attached to this device: another
\* device cannot remember it.
IsAttached(d, entry) ==
    /\ signals[entry.signal].kind \in Kinds
    /\ signals[entry.signal].dev = d
    /\ signals[entry.signal].uuid = entry.uuid

EntriesAreAttached ==
    \A d \in Devices : \A i \in DOMAIN notified[d] :
        /\ IsAttached(d, notified[d][i])
        /\ \A j \in DOMAIN notified[d] : notified[d][j].signal = notified[d][i].signal => j = i

\* Memory that is not allocated remembers nothing: a device that is allocated
\* there starts without entries.
FreedIsEmpty == \A d \in Devices \ heap : notified[d] = <<>>

\* The inductive invariant of the notifications.
NotificationInv ==
    /\ Typed
    /\ HandlersHavePools
    /\ EntriesAreAttached
    /\ FreedIsEmpty
    /\ NotificationsWillEnd

-----------------------------------------------------------------------------
(* The devices under the notifications.                                    *)

\* Each step of the notifications is a step of the devices or leaves them alone.
LEMMA DeviceSteps == [NotificationNext]_<<vars, notificationVars>> => [Next]_vars
<1> SUFFICES ASSUME [NotificationNext]_<<vars, notificationVars>>
             PROVE  [Next]_vars
  OBVIOUS
<1>1. CASE UNCHANGED vars
  BY <1>1
<1>2. CASE \E x \in Proxies : ConnectionLost(x)
  BY <1>2 DEF ConnectionLost, Next, ConnectNext
<1>3. CASE OtherStep
  BY <1>3 DEF OtherStep, ConnectionStep, Next, ConnectNext
<1>4. CASE NotificationNext
  BY <1>1, <1>2, <1>3, <1>4
     DEF NotificationNext, RegisterNotification, RegisterIndication, connect_signal_to_characteristic_uuid,
         disconnect_signal_to_characteristic_uuid, OnNotification, OnIndication, Deliver
<1> QED BY <1>1, <1>4

\* What is proved of the devices.
LEMMA DevicesHold == NotificationSpec => [](DeviceInv /\ LossIsSignalled)
<1>1. NotificationInit => Init
  BY DEF NotificationInit
<1> QED BY <1>1, DeviceSteps, DeviceInvariance, LossesAreSignalled, PTL DEF NotificationSpec, Spec

-----------------------------------------------------------------------------
(* The lists of entries.                                                   *)

\* The entries of a list without the i-th one.
AllBut(i, list, rest) ==
    \A j \in DOMAIN rest : /\ j \in Nat
                           /\ IF j < i THEN j \in DOMAIN list /\ rest[j] = list[j]
                                       ELSE j + 1 \in DOMAIN list /\ rest[j] = list[j + 1]

\* The removal of an entry shifts those that follow it.
LEMMA RemovedEntry ==
    ASSUME NEW list \in Seq(Entry), NEW i \in DOMAIN list, NEW rest,
           rest = SubSeq(list, 1, i - 1) \o SubSeq(list, i + 1, Len(list))
    PROVE  rest \in Seq(Entry) /\ AllBut(i, list, rest)
<1>0. /\ DOMAIN list = 1 .. Len(list) /\ Len(list) \in Nat /\ i \in 1 .. Len(list)
      /\ \A j \in 1 .. Len(list) : list[j] \in Entry
  BY ElementOfSeq
<1> DEFINE before == SubSeq(list, 1, i - 1)
           after  == SubSeq(list, i + 1, Len(list))
<1>1. /\ before \in Seq(Entry) /\ Len(before) = i - 1
      /\ \A j \in 1 .. i - 1 : before[j] = list[j]
  <2>1. \A j \in 1 .. i - 1 : list[j] \in Entry
    BY <1>0
  <2>2. /\ before \in Seq(Entry)
        /\ Len(before) = IF 1 <= i - 1 THEN (i - 1) - 1 + 1 ELSE 0
        /\ \A j \in 1 .. (i - 1) - 1 + 1 : before[j] = list[1 + j - 1]
    BY <1>0, <2>1, SubSeqProperties
  <2> HIDE DEF before
  <2> QED BY <1>0, <2>2
<1>2. /\ after \in Seq(Entry) /\ Len(after) = Len(list) - i
      /\ \A j \in 1 .. Len(list) - i : after[j] = list[i + j]
  <2>1. \A j \in i + 1 .. Len(list) : list[j] \in Entry
    BY <1>0
  <2>2. /\ after \in Seq(Entry)
        /\ Len(after) = IF i + 1 <= Len(list) THEN Len(list) - (i + 1) + 1 ELSE 0
        /\ \A j \in 1 .. Len(list) - (i + 1) + 1 : after[j] = list[i + 1 + j - 1]
    BY <1>0, <2>1, SubSeqProperties
  <2>3. Len(list) - (i + 1) + 1 = Len(list) - i /\ (IF i + 1 <= Len(list) THEN Len(list) - i ELSE 0) = Len(list) - i
    BY <1>0
  <2>4. \A j \in 1 .. Len(list) - i : i + 1 + j - 1 = i + j
    BY <1>0
  <2> HIDE DEF after
  <2> QED BY <2>2, <2>3, <2>4
<1> HIDE DEF before, after
<1>3. /\ before \o after \in Seq(Entry) /\ Len(before \o after) = Len(list) - 1
      /\ \A j \in 1 .. Len(list) - 1 :
            (before \o after)[j] = IF j <= i - 1 THEN before[j] ELSE after[j - (i - 1)]
  <2>1. /\ before \o after \in Seq(Entry)
        /\ Len(before \o after) = Len(before) + Len(after)
        /\ \A j \in 1 .. Len(before) + Len(after) :
              (before \o after)[j] = IF j <= Len(before) THEN before[j] ELSE after[j - Len(before)]
    BY <1>1, <1>2, ConcatProperties
  <2>2. Len(before) + Len(after) = Len(list) - 1
    BY <1>0, <1>1, <1>2
  <2> QED BY <1>1, <2>1, <2>2
<1>4. DOMAIN (before \o after) = 1 .. Len(list) - 1
  BY <1>3
<1>5. ASSUME NEW j \in 1 .. Len(list) - 1
      PROVE  /\ j \in Nat
             /\ IF j < i THEN j \in DOMAIN list /\ (before \o after)[j] = list[j]
                         ELSE j + 1 \in DOMAIN list /\ (before \o after)[j] = list[j + 1]
  <2>1. CASE j < i
    BY <1>0, <1>1, <1>3, <2>1
  <2>2. CASE ~(j < i)
    <3>0. PICK n \in Nat : n = Len(list) /\ i \in 1 .. n /\ j \in 1 .. n - 1
      BY <1>0
    <3>1. j - (i - 1) \in 1 .. Len(list) - i /\ i + (j - (i - 1)) = j + 1
      BY <2>2, <3>0
    <3>2. j \in Nat /\ j + 1 \in 1 .. Len(list) /\ ~(j <= i - 1)
      BY <1>0, <2>2
    <3>3. (before \o after)[j] = after[j - (i - 1)]
      BY <1>3, <3>2
    <3>4. after[j - (i - 1)] = list[j + 1]
      BY <1>2, <3>1
    <3> QED BY <1>0, <2>2, <3>2, <3>3, <3>4
  <2> QED BY <2>1, <2>2
<1> QED BY <1>3, <1>4, <1>5 DEF before, after, AllBut

-----------------------------------------------------------------------------
(* The steps of the notifications.                                         *)

\* A handler is registered with a pool that no handler has.
LEMMA RegisterStep ==
    ASSUME DeviceInv, NotificationInv, NEW d \in Devices, NEW p \in Pools,
           RegisterNotification(d, p) \/ RegisterIndication(d, p)
    PROVE  NotificationInv'
<1>0. /\ Typed /\ HandlersHavePools
      /\ pools[p].dev = NoDevice /\ NoDevice \notin Devices
      /\ UNCHANGED <<vars, notified, signals>>
  BY ConstantAssumption DEF NotificationInv, RegisterNotification, RegisterIndication
<1>k. PICK kind \in Kinds : Registered(d, kind, p)
  BY DEF RegisterNotification, RegisterIndication, Kinds
<1>1. [callback |-> TRUE, pool |-> p] \in HandlerRecord
  BY DEF HandlerRecord
<1>2. pools' \in [Pools -> PoolRecord]
  <2>1. [dev |-> d, kind |-> kind, queue |-> <<>>] \in PoolRecord
    BY DEF PoolRecord
  <2> QED BY <1>0, <1>k, <2>1 DEF Typed, Registered
<1>3. Typed'
  BY <1>0, <1>1, <1>2 DEF Typed, RegisterNotification, RegisterIndication
<1>4. \A q \in Pools : pools[q].dev \in Devices => pools'[q] = pools[q]
  BY <1>0, <1>k DEF Typed, Registered
<1>5. HandlersHavePools'
  <2>1. CASE RegisterNotification(d, p)
    <3>1. PoolCalls(d, [callback |-> TRUE, pool |-> p], "notification")'
      BY <1>0, <2>1 DEF RegisterNotification, Registered, PoolCalls, Typed
    <3>2. /\ \A e \in Devices : notification'[e] = IF e = d THEN [callback |-> TRUE, pool |-> p]
                                                          ELSE notification[e]
          /\ indication' = indication
      BY <1>0, <2>1 DEF RegisterNotification, Typed
    <3> QED BY <1>0, <1>4, <3>1, <3>2 DEF HandlersHavePools, PoolCalls
  <2>2. CASE RegisterIndication(d, p)
    <3>1. PoolCalls(d, [callback |-> TRUE, pool |-> p], "indication")'
      BY <1>0, <2>2 DEF RegisterIndication, Registered, PoolCalls, Typed
    <3>2. /\ \A e \in Devices : indication'[e] = IF e = d THEN [callback |-> TRUE, pool |-> p]
                                                        ELSE indication[e]
          /\ notification' = notification
      BY <1>0, <2>2 DEF RegisterIndication, Typed
    <3> QED BY <1>0, <1>4, <3>1, <3>2 DEF HandlersHavePools, PoolCalls
  <2> QED BY <2>1, <2>2
<1>6. EntriesAreAttached' /\ FreedIsEmpty' /\ NotificationsWillEnd'
  BY <1>0 DEF NotificationInv, EntriesAreAttached, IsAttached, FreedIsEmpty, NotificationsWillEnd, Listed,
              vars, deviceVars, adapterVars
<1> QED BY <1>3, <1>5, <1>6 DEF NotificationInv

\* A notification is started on a connected device, whose loss will be noticed,
\* with a signal handler that no entry remembers.
LEMMA StartStep ==
    ASSUME DeviceInv, LossIsSignalled, NotificationInv, NEW d \in Devices, NEW uuid \in Uuids, NEW kind \in Kinds,
           connect_signal_to_characteristic_uuid(d, uuid, kind)
    PROVE  NotificationInv'
<1>0. /\ Typed /\ EntriesAreAttached /\ FreedIsEmpty /\ NotificationsWillEnd
      /\ notified \in [Devices -> Seq(Entry)] /\ signals \in [Signals -> SignalRecord]
      /\ UNCHANGED <<vars, notification, indication, pools>>
      /\ Listed(d) /\ d \in heap /\ dev[d].state = "CONNECTED"
  BY ListedFacts DEF NotificationInv, Typed, connect_signal_to_characteristic_uuid, gattlib_connection_is_connected,
                     gattlib_connection_is_valid, Listed, DeviceInv, TypeOK
<1>p. HandlersHavePools'
  BY <1>0 DEF NotificationInv, HandlersHavePools, PoolCalls
<1>1. PICK s \in Signals, k \in Kinds \cup {"battery"} :
         /\ signals[s] = Unattached
         /\ signals' = [signals EXCEPT ![s] = [kind |-> k, dev |-> d, uuid |-> uuid]]
         /\ \/ k \in Kinds /\ notified' = [notified EXCEPT ![d] = Append(@, [uuid |-> uuid, signal |-> s])]
            \/ notified' = notified
  BY DEF connect_signal_to_characteristic_uuid
<1>2. signals' \in [Signals -> SignalRecord]
  <2>1. [kind |-> k, dev |-> d, uuid |-> uuid] \in SignalRecord
    BY <1>1 DEF SignalRecord
  <2> QED BY <1>0, <1>1, <2>1
<1>3. \A e \in Devices : \A i \in DOMAIN notified[e] : notified[e][i] \in Entry
  BY <1>0, ElementOfSeq
<1>4. ASSUME NEW e \in Devices, NEW i \in DOMAIN notified[e]
      PROVE  /\ notified[e][i].signal # s
             /\ signals'[notified[e][i].signal].kind \in Kinds
             /\ signals'[notified[e][i].signal].dev = e
             /\ signals'[notified[e][i].signal].uuid = notified[e][i].uuid
  <2>1. IsAttached(e, notified[e][i]) /\ notified[e][i].signal \in Signals
    BY <1>0, <1>3 DEF EntriesAreAttached, Entry
  <2>2. signals[s].kind \notin Kinds
    BY <1>1 DEF Unattached, Kinds
  <2>3. notified[e][i].signal # s
    BY <2>1, <2>2 DEF IsAttached
  <2>4. signals'[notified[e][i].signal] = signals[notified[e][i].signal]
    BY <1>0, <1>1, <2>1, <2>3
  <2> QED BY <2>1, <2>3, <2>4 DEF IsAttached
<1>5. CASE notified' = notified
  <2>1. EntriesAreAttached'
    BY <1>0, <1>4, <1>5 DEF EntriesAreAttached, IsAttached
  <2>2. Typed' /\ FreedIsEmpty' /\ NotificationsWillEnd'
    BY <1>0, <1>2, <1>5 DEF Typed, FreedIsEmpty, NotificationsWillEnd, Listed, vars, deviceVars, adapterVars
  <2> QED BY <1>p, <2>1, <2>2 DEF NotificationInv
<1>6. CASE k \in Kinds /\ notified' = [notified EXCEPT ![d] = Append(@, [uuid |-> uuid, signal |-> s])]
  <2> DEFINE new == [uuid |-> uuid, signal |-> s]
  <2>1. new \in Entry /\ new.signal = s /\ new.uuid = uuid
    BY DEF Entry
  <2> HIDE DEF new
  <2>2. /\ notified'[d] = Append(notified[d], new)
        /\ \A e \in Devices \ {d} : notified'[e] = notified[e]
    BY <1>0, <1>6 DEF new
  <2>3. PICK n \in Nat : n = Len(notified[d]) /\ DOMAIN notified[d] = 1 .. n
    BY <1>0
  <2>4. /\ notified'[d] \in Seq(Entry) /\ DOMAIN notified'[d] = 1 .. n + 1
        /\ \A i \in 1 .. n : notified'[d][i] = notified[d][i]
        /\ notified'[d][n + 1] = new
    BY <1>0, <2>1, <2>2, <2>3, AppendProperties
  <2>5. notified' \in [Devices -> Seq(Entry)]
    BY <1>0, <1>6, <2>2, <2>4
  <2>6. EntriesAreAttached'
    <3> SUFFICES ASSUME NEW e \in Devices, NEW i \in DOMAIN notified'[e]
                 PROVE  /\ IsAttached(e, notified[e][i])'
                        /\ \A j \in DOMAIN notified'[e] :
                              notified'[e][j].signal = notified'[e][i].signal => j = i
      BY DEF EntriesAreAttached
    <3>1. CASE e # d
      <4>1. notified'[e] = notified[e]
        BY <2>2, <3>1
      <4> QED BY <1>0, <1>4, <4>1 DEF EntriesAreAttached, IsAttached
    <3>2. CASE e = d /\ i \in 1 .. n
      <4>1. notified'[e][i] = notified[e][i]
        BY <2>4, <3>2
      <4>2. IsAttached(e, notified[e][i])'
        BY <1>4, <2>3, <3>2, <4>1 DEF IsAttached
      <4>3. ASSUME NEW j \in 1 .. n + 1, notified'[d][j].signal = notified'[d][i].signal
            PROVE  j = i
        <5>1. j # n + 1
          BY <1>4, <2>1, <2>3, <2>4, <3>2, <4>1, <4>3
        <5>2. j \in 1 .. n
          BY <5>1
        <5>3. notified'[d][j] = notified[d][j]
          BY <2>4, <5>2
        <5> QED BY <1>0, <2>3, <3>2, <4>1, <4>3, <5>2, <5>3 DEF EntriesAreAttached
      <4> QED BY <2>4, <3>2, <4>2, <4>3
    <3>3. CASE e = d /\ i = n + 1
      <4>1. signals'[s] = [kind |-> k, dev |-> d, uuid |-> uuid]
        BY <1>0, <1>1
      <4>2. notified'[e][i].signal = s /\ notified'[e][i].uuid = uuid
        BY <2>1, <2>4, <3>3
      <4>3. IsAttached(e, notified[e][i])'
        BY <1>6, <3>3, <4>1, <4>2 DEF IsAttached
      <4>4. ASSUME NEW j \in 1 .. n + 1, notified'[d][j].signal = s
            PROVE  j = n + 1
        <5>1. j \notin 1 .. n
          BY <1>4, <2>3, <2>4, <4>4
        <5> QED BY <5>1
      <4> QED BY <2>4, <3>3, <4>2, <4>3, <4>4
    <3> QED BY <2>4, <3>1, <3>2, <3>3
  <2>7. Typed' /\ FreedIsEmpty'
    BY <1>0, <1>2, <2>2, <2>5 DEF Typed, FreedIsEmpty, vars, deviceVars
  <2>8. NotificationsWillEnd'
    <3>1. \E x \in Proxies : proxy[x] = [dev |-> d, view |-> "resolved"]
      BY <1>0 DEF LossIsSignalled
    <3>2. UNCHANGED <<devices, heap, proxy>> /\ heap \subseteq Devices
      BY <1>0 DEF vars, deviceVars, adapterVars, DeviceInv, TypeOK
    <3> QED BY <1>0, <2>2, <3>1, <3>2 DEF NotificationsWillEnd, Listed
  <2> QED BY <1>p, <2>6, <2>7, <2>8 DEF NotificationInv
<1> QED BY <1>1, <1>5, <1>6

\* The entry that is stopped leaves the list with its signal handler, and only
\* this one.
LEMMA StopStep ==
    ASSUME DeviceInv, NotificationInv, NEW d \in Devices, NEW uuid \in Uuids,
           disconnect_signal_to_characteristic_uuid(d, uuid)
    PROVE  NotificationInv'
<1>0. /\ Typed /\ EntriesAreAttached /\ FreedIsEmpty /\ NotificationsWillEnd
      /\ notified \in [Devices -> Seq(Entry)] /\ signals \in [Signals -> SignalRecord]
      /\ UNCHANGED <<vars, notification, indication, pools>>
      /\ Listed(d) /\ d \in heap
  BY ListedFacts DEF NotificationInv, Typed, disconnect_signal_to_characteristic_uuid, gattlib_connection_is_connected,
                     gattlib_connection_is_valid, Listed, DeviceInv, TypeOK
<1>p. HandlersHavePools'
  BY <1>0 DEF NotificationInv, HandlersHavePools, PoolCalls
<1>1. PICK i \in DOMAIN notified[d] :
         /\ signals' = Detach({notified[d][i].signal})
         /\ notified' = [notified EXCEPT ![d] = SubSeq(@, 1, i - 1) \o SubSeq(@, i + 1, Len(@))]
  BY DEF disconnect_signal_to_characteristic_uuid
<1>2. PICK s : s = notified[d][i].signal
  OBVIOUS
<1>3. signals' \in [Signals -> SignalRecord] /\ \A t \in Signals \ {s} : signals'[t] = signals[t]
  BY <1>0, <1>1, <1>2 DEF Detach, Unattached, SignalRecord
<1>4. \A e \in Devices : \A j \in DOMAIN notified[e] : notified[e][j] \in Entry
  BY <1>0, ElementOfSeq
<1>5. /\ notified'[d] = SubSeq(notified[d], 1, i - 1) \o SubSeq(notified[d], i + 1, Len(notified[d]))
      /\ \A e \in Devices \ {d} : notified'[e] = notified[e]
  BY <1>0, <1>1
<1>6. /\ notified'[d] \in Seq(Entry)
      /\ \A j \in DOMAIN notified'[d] : /\ j \in Nat
                                        /\ IF j < i THEN j \in DOMAIN notified[d] /\ notified'[d][j] = notified[d][j]
                                           ELSE j + 1 \in DOMAIN notified[d] /\ notified'[d][j] = notified[d][j + 1]
  <2>1. PICK list \in Seq(Entry) : list = notified[d]
    BY <1>0
  <2>2. PICK rest : rest = notified'[d]
    OBVIOUS
  <2>3. rest = SubSeq(list, 1, i - 1) \o SubSeq(list, i + 1, Len(list)) /\ i \in DOMAIN list
    BY <1>5, <2>1, <2>2
  <2>4. rest \in Seq(Entry) /\ AllBut(i, list, rest)
    BY <2>1, <2>3, RemovedEntry
  <2> QED BY <2>1, <2>2, <2>4 DEF AllBut
<1>7. notified' \in [Devices -> Seq(Entry)]
  BY <1>0, <1>1, <1>5, <1>6
<1>i. i \in Nat
  BY <1>0
\* The entries that stay.
<1>8. ASSUME NEW e \in Devices, NEW j \in DOMAIN notified[e], e # d \/ j # i
      PROVE  /\ signals'[notified[e][j].signal].kind \in Kinds
             /\ signals'[notified[e][j].signal].dev = e
             /\ signals'[notified[e][j].signal].uuid = notified[e][j].uuid
  <2>1. IsAttached(e, notified[e][j]) /\ notified[e][j].signal \in Signals
    BY <1>0, <1>4 DEF EntriesAreAttached, Entry
  <2>2. IsAttached(d, notified[d][i])
    BY <1>0 DEF EntriesAreAttached
  <2>3. notified[e][j].signal # s
    BY <1>0, <1>2, <1>8, <2>1, <2>2 DEF EntriesAreAttached, IsAttached
  <2>4. signals'[notified[e][j].signal] = signals[notified[e][j].signal]
    BY <1>3, <2>1, <2>3
  <2> QED BY <2>1, <2>4 DEF IsAttached
<1>9. EntriesAreAttached'
  <2>1. ASSUME NEW e \in Devices \ {d}
        PROVE  \A j \in DOMAIN notified'[e] :
                  /\ IsAttached(e, notified[e][j])'
                  /\ \A k \in DOMAIN notified'[e] : notified'[e][k].signal = notified'[e][j].signal => k = j
    BY <1>0, <1>5, <1>8 DEF EntriesAreAttached, IsAttached
  <2>2. ASSUME NEW j \in DOMAIN notified'[d]
        PROVE  /\ IsAttached(d, notified[d][j])'
               /\ \A k \in DOMAIN notified'[d] : notified'[d][k].signal = notified'[d][j].signal => k = j
    <3> DEFINE Old(k) == IF k < i THEN k ELSE k + 1
    <3>1. \A k \in DOMAIN notified'[d] : /\ Old(k) \in DOMAIN notified[d] /\ Old(k) # i
                                         /\ notified'[d][k] = notified[d][Old(k)]
      BY <1>6, <1>i
    <3>2. \A k \in DOMAIN notified'[d] : Old(k) = Old(j) => k = j
      BY <1>6, <1>i
    <3> HIDE DEF Old
    <3>3. IsAttached(d, notified[d][j])'
      BY <1>8, <3>1 DEF IsAttached
    <3>4. ASSUME NEW k \in DOMAIN notified'[d], notified'[d][k].signal = notified'[d][j].signal
          PROVE  k = j
      <4>1. notified[d][Old(k)].signal = notified[d][Old(j)].signal
        BY <3>1, <3>4
      <4>2. Old(k) = Old(j)
        BY <1>0, <3>1, <4>1 DEF EntriesAreAttached
      <4> QED BY <3>2, <4>2
    <3> QED BY <3>3, <3>4
  <2> QED BY <2>1, <2>2 DEF EntriesAreAttached
<1>10. Typed' /\ FreedIsEmpty'
  BY <1>0, <1>3, <1>5, <1>7 DEF Typed, FreedIsEmpty, vars, deviceVars
<1>11. NotificationsWillEnd'
  <2>1. notified[d] # <<>>
    BY <1>0, <1>i
  <2>2. UNCHANGED <<devices, heap, proxy>> /\ heap \subseteq Devices
    BY <1>0 DEF vars, deviceVars, adapterVars, DeviceInv, TypeOK
  <2> QED BY <1>0, <1>5, <2>1, <2>2 DEF NotificationsWillEnd, Listed
<1> QED BY <1>p, <1>9, <1>10, <1>11 DEF NotificationInv

\* A value is queued or delivered: the pools keep their handlers.
LEMMA ValueStep ==
    ASSUME DeviceInv, NotificationInv,
           \/ \E s \in Signals : OnNotification(s) \/ OnIndication(s)
           \/ \E p \in Pools : Deliver(p)
    PROVE  NotificationInv'
<1>0. /\ Typed /\ HandlersHavePools
      /\ notification \in [Devices -> HandlerRecord] /\ pools \in [Pools -> PoolRecord]
      /\ signals \in [Signals -> SignalRecord]
      /\ UNCHANGED <<vars, notification, indication, notified, signals>>
  BY DEF NotificationInv, Typed, OnNotification, OnIndication, Deliver
<1>1. ASSUME NEW p \in Pools, NEW queue \in Seq(Argument), pools' = [pools EXCEPT ![p].queue = queue]
      PROVE  /\ pools' \in [Pools -> PoolRecord]
             /\ \A q \in Pools : pools'[q].dev = pools[q].dev /\ pools'[q].kind = pools[q].kind
  BY <1>0, <1>1 DEF PoolRecord
<1>2. ASSUME NEW d \in Devices, NEW kind \in Kinds, gattlib_on_gatt_notification(d, kind)
      PROVE  /\ pools' \in [Pools -> PoolRecord]
             /\ \A q \in Pools : pools'[q].dev = pools[q].dev /\ pools'[q].kind = pools[q].kind
  <2>1. PICK p \in Pools : pools' = [pools EXCEPT ![p].queue = Append(pools[p].queue, [dev |-> d, kind |-> kind])]
    <3>1. notification[d].pool # NoPool
      BY <1>2 DEF gattlib_on_gatt_notification
    <3>2. notification[d].pool \in Pools
      BY <1>0, <3>1 DEF HandlerRecord
    <3> QED BY <1>2, <3>2 DEF gattlib_on_gatt_notification
  <2>2. pools[p].queue \in Seq(Argument) /\ [dev |-> d, kind |-> kind] \in Argument
    BY <1>0 DEF PoolRecord, Argument
  <2>3. Append(pools[p].queue, [dev |-> d, kind |-> kind]) \in Seq(Argument)
    BY <2>2, AppendProperties
  <2> QED BY <1>1, <2>1, <2>3
<1>3. /\ pools' \in [Pools -> PoolRecord]
      /\ \A q \in Pools : pools'[q].dev = pools[q].dev /\ pools'[q].kind = pools[q].kind
  <2>1. ASSUME NEW s \in Signals, OnNotification(s)
        PROVE  signals[s].dev \in Devices /\ gattlib_on_gatt_notification(signals[s].dev, "notification")
    BY <2>1 DEF OnNotification, gattlib_connection_is_connected, gattlib_connection_is_valid, DeviceInv, TypeOK
  <2>2. ASSUME NEW s \in Signals, OnIndication(s)
        PROVE  signals[s].dev \in Devices /\ gattlib_on_gatt_notification(signals[s].dev, "indication")
    BY <2>2 DEF OnIndication, DeviceInv, TypeOK
  <2>3. ASSUME NEW p \in Pools, Deliver(p)
        PROVE  /\ pools' \in [Pools -> PoolRecord]
               /\ \A q \in Pools : pools'[q].dev = pools[q].dev /\ pools'[q].kind = pools[q].kind
    <3>1. pools[p].queue \in Seq(Argument) /\ pools[p].queue # <<>>
      BY <1>0, <2>3 DEF Deliver, PoolRecord
    <3>2. Tail(pools[p].queue) \in Seq(Argument)
      BY <3>1
    <3>3. pools' = [pools EXCEPT ![p].queue = Tail(pools[p].queue)]
      BY <2>3 DEF Deliver
    <3> QED BY <1>1, <3>2, <3>3
  <2>4. "notification" \in Kinds /\ "indication" \in Kinds
    BY DEF Kinds
  <2> QED BY <1>2, <2>1, <2>2, <2>3, <2>4
<1>4. Typed' /\ HandlersHavePools'
  <2>1. Typed'
    BY <1>0, <1>3 DEF Typed
  <2>2. ASSUME NEW d \in Devices, NEW h, NEW k, PoolCalls(d, h, k)
        PROVE  h.callback => /\ h.pool \in Pools
                             /\ pools'[h.pool].dev = d
                             /\ pools'[h.pool].kind = k
    BY <1>3, <2>2 DEF PoolCalls
  <2>3. HandlersHavePools'
    <3> SUFFICES ASSUME NEW d \in Devices
                 PROVE  PoolCalls(d, notification[d], "notification")' /\ PoolCalls(d, indication[d], "indication")'
      BY DEF HandlersHavePools
    <3>1. PoolCalls(d, notification[d], "notification") /\ PoolCalls(d, indication[d], "indication")
      BY <1>0 DEF HandlersHavePools
    <3>2. PoolCalls(d, notification[d], "notification")'
      BY <1>0, <2>2, <3>1 DEF PoolCalls
    <3>3. PoolCalls(d, indication[d], "indication")'
      BY <1>0, <2>2, <3>1 DEF PoolCalls
    <3> QED BY <3>2, <3>3
  <2> QED BY <2>1, <2>3
<1>5. EntriesAreAttached' /\ FreedIsEmpty' /\ NotificationsWillEnd'
  BY <1>0 DEF NotificationInv, EntriesAreAttached, IsAttached, FreedIsEmpty, NotificationsWillEnd, Listed,
              vars, deviceVars, adapterVars
<1> QED BY <1>4, <1>5 DEF NotificationInv

\* The loss of a link empties the list of its device, and disconnects the
\* handlers of this list and of no other.
LEMMA LostStep ==
    ASSUME DeviceInv, DeviceInv', NotificationInv, NEW x \in Proxies, ConnectionLost(x)
    PROVE  NotificationInv'
<1>0. /\ Typed /\ HandlersHavePools /\ EntriesAreAttached /\ FreedIsEmpty /\ NotificationsWillEnd
      /\ notified \in [Devices -> Seq(Entry)] /\ signals \in [Signals -> SignalRecord]
      /\ OnDisconnected(x) /\ UNCHANGED <<devices, heap, notification, indication, pools>>
      /\ heap \subseteq Devices
  BY DEF NotificationInv, Typed, ConnectionLost, OnDisconnected, adapterVars, DeviceInv, TypeOK
<1>p. HandlersHavePools'
  BY <1>0 DEF HandlersHavePools, PoolCalls
<1>d. PICK d \in Devices : d = proxy[x].dev
  BY <1>0 DEF OnDisconnected, DeviceInv, TypeOK
<1>1. ASSUME NEW e \in Devices, e # d, Listed(e), notified[e] # <<>>
      PROVE  (\E y \in Proxies : proxy[y] = [dev |-> e, view |-> "resolved"])'
  <2>1. Signalled(e)
    BY <1>0, <1>1, ListedFacts DEF NotificationsWillEnd, Signalled
  <2> QED BY <1>0, <1>d, <1>1, <2>1, SignalOfOthers DEF Signalled
<1>2. CASE ~gattlib_connection_is_valid(d)
  <2>1. UNCHANGED <<signals, notified>>
    BY <1>d, <1>2 DEF ConnectionLost
  <2>2. ~Listed(d)
    BY <1>2, ListedFacts
  <2>3. Typed' /\ EntriesAreAttached' /\ FreedIsEmpty'
    BY <1>0, <2>1 DEF Typed, EntriesAreAttached, IsAttached, FreedIsEmpty
  <2>4. NotificationsWillEnd'
    BY <1>0, <1>1, <2>1, <2>2 DEF NotificationsWillEnd, Listed
  <2> QED BY <1>p, <2>3, <2>4 DEF NotificationInv
<1>3. CASE gattlib_connection_is_valid(d)
  <2>1. /\ signals' = Detach(SignalsOf(notified[d]))
        /\ notified' = [e \in Devices |-> IF e \in heap THEN [notified EXCEPT ![d] = <<>>][e] ELSE <<>>]
    BY <1>0, <1>d, <1>3 DEF ConnectionLost, disconnect_all_notifications, Retained
  <2>2. notified'[d] = <<>> /\ \A e \in Devices \ {d} : notified'[e] = notified[e]
    BY <1>0, <2>1 DEF FreedIsEmpty
  <2>3. signals' \in [Signals -> SignalRecord]
    BY <1>0, <2>1 DEF Detach, Unattached, SignalRecord
  <2>4. notified' \in [Devices -> Seq(Entry)]
    BY <1>0, <2>1, <2>2
  <2>5. ASSUME NEW e \in Devices \ {d}, NEW i \in DOMAIN notified[e]
        PROVE  signals'[notified[e][i].signal] = signals[notified[e][i].signal]
    <3>1. notified[e][i].signal \in Signals
      <4>1. notified[e][i] \in Entry
        BY <1>0, ElementOfSeq
      <4> QED BY <4>1 DEF Entry
    <3>2. signals[notified[e][i].signal].dev = e
      BY <1>0 DEF EntriesAreAttached, IsAttached
    <3>3. \A j \in DOMAIN notified[d] : signals[notified[d][j].signal].dev = d
      BY <1>0 DEF EntriesAreAttached, IsAttached
    <3>4. notified[e][i].signal \notin SignalsOf(notified[d])
      BY <3>2, <3>3 DEF SignalsOf
    <3> QED BY <2>1, <3>1, <3>4 DEF Detach
  <2>6. DOMAIN notified'[d] = {}
    BY <2>2
  <2>7. EntriesAreAttached'
    <3>1. ASSUME NEW e \in Devices \ {d}
          PROVE  \A i \in DOMAIN notified'[e] :
                    /\ IsAttached(e, notified[e][i])'
                    /\ \A j \in DOMAIN notified'[e] : notified'[e][j].signal = notified'[e][i].signal => j = i
      <4>1. notified'[e] = notified[e]
        BY <2>2
      <4>2. ASSUME NEW i \in DOMAIN notified[e]
            PROVE  /\ signals'[notified[e][i].signal].kind \in Kinds
                   /\ signals'[notified[e][i].signal].dev = e
                   /\ signals'[notified[e][i].signal].uuid = notified[e][i].uuid
                   /\ \A j \in DOMAIN notified[e] : notified[e][j].signal = notified[e][i].signal => j = i
        BY <1>0, <2>5 DEF EntriesAreAttached, IsAttached
      <4> QED BY <4>1, <4>2 DEF IsAttached
    <3> QED BY <2>6, <3>1 DEF EntriesAreAttached
  <2>8. Typed' /\ FreedIsEmpty'
    BY <1>0, <2>2, <2>3, <2>4 DEF Typed, FreedIsEmpty
  <2>9. NotificationsWillEnd'
    BY <1>0, <1>1, <2>2 DEF NotificationsWillEnd, Listed
  <2> QED BY <1>p, <2>7, <2>8, <2>9 DEF NotificationInv
<1> QED BY <1>2, <1>3

\* Another step of the devices: memory that is freed forgets its handlers and
\* its entries, and a device that has entries is still waited for.
LEMMA OtherStepInv ==
    ASSUME DeviceInv, DeviceInv', NotificationInv, OtherStep
    PROVE  NotificationInv'
<1>0. /\ Typed /\ HandlersHavePools /\ EntriesAreAttached /\ FreedIsEmpty /\ NotificationsWillEnd
      /\ UNCHANGED <<signals, pools>>
      /\ heap \subseteq Devices /\ heap' \subseteq Devices
  BY DEF NotificationInv, OtherStep, DeviceInv, TypeOK
<1>1. \A d \in Devices :
         /\ notification'[d] = IF d \in heap' THEN notification[d] ELSE NoHandler
         /\ indication'[d] = IF d \in heap' THEN indication[d] ELSE NoHandler
         /\ notified'[d] = IF d \in heap' THEN notified[d] ELSE <<>>
  BY DEF OtherStep, Retained
<1>2. Typed'
  <2>1. NoHandler \in HandlerRecord /\ <<>> \in Seq(Entry)
    BY DEF NoHandler, HandlerRecord
  <2> QED BY <1>0, <2>1 DEF Typed, OtherStep, Retained
<1>3. HandlersHavePools'
  BY <1>0, <1>1 DEF HandlersHavePools, PoolCalls, NoHandler
<1>4. EntriesAreAttached'
  <2>1. \A d \in Devices : notified'[d] = notified[d] \/ DOMAIN notified'[d] = {}
    BY <1>1
  <2> QED BY <1>0, <2>1 DEF EntriesAreAttached, IsAttached
<1>5. FreedIsEmpty'
  BY <1>1 DEF FreedIsEmpty
<1>6. NotificationsWillEnd'
  <2> SUFFICES ASSUME NEW d \in heap', Listed(d)', notified'[d] # <<>>
               PROVE  Signalled(d)'
    BY DEF NotificationsWillEnd, Signalled
  <2>1. d \in heap /\ notified[d] # <<>>
    BY <1>0, <1>1 DEF FreedIsEmpty
  <2>2. NoLoss /\ Next
    BY DEF OtherStep, ConnectionStep, NoLoss, Next, ConnectNext
  <2>3. Listed(d)
    BY <2>1, <2>2, ListedBefore
  <2>4. Signalled(d)
    BY <1>0, <2>1, <2>3 DEF NotificationsWillEnd, Signalled
  <2> QED BY <2>2, <2>3, <2>4, SignalKept
<1> QED BY <1>2, <1>3, <1>4, <1>5, <1>6 DEF NotificationInv

\* Every step preserves the invariant of the notifications.
LEMMA NotificationStep ==
    ASSUME DeviceInv, DeviceInv', LossIsSignalled, NotificationInv,
           [NotificationNext]_<<vars, notificationVars>>
    PROVE  NotificationInv'
<1>1. CASE UNCHANGED <<vars, notificationVars>>
  BY <1>1 DEF NotificationInv, Typed, HandlersHavePools, PoolCalls, EntriesAreAttached, IsAttached, FreedIsEmpty,
              NotificationsWillEnd, Listed, vars, deviceVars, adapterVars, notificationVars
<1> QED BY <1>1, RegisterStep, StartStep, StopStep, ValueStep, LostStep, OtherStepInv DEF NotificationNext

-----------------------------------------------------------------------------
(* The theorems.                                                           *)

\* The notifications run on the devices as they are: every behaviour of
\* Notification is, of the variables of GattlibDevice, one of this module.
THEOREM ImplementsDevices == NotificationSpec => Spec
<1>1. NotificationInit => Init
  BY DEF NotificationInit
<1> QED BY <1>1, DeviceSteps, PTL DEF NotificationSpec, Spec

\* The invariant of the notifications holds in every behaviour, for any number of
\* devices, characteristics, signal handlers and pools.
THEOREM NotificationInvariance == NotificationSpec => []NotificationInv
<1>1. NotificationInit => NotificationInv
  <2> SUFFICES ASSUME NotificationInit PROVE NotificationInv
    OBVIOUS
  <2>1. Typed
    BY DEF NotificationInit, Typed, NoHandler, HandlerRecord, Unattached, SignalRecord, PoolRecord, Kinds
  <2>2. \A d \in Devices : notified[d] = <<>> /\ DOMAIN notified[d] = {}
    BY DEF NotificationInit
  <2>3. HandlersHavePools
    BY DEF NotificationInit, HandlersHavePools, PoolCalls, NoHandler
  <2>4. EntriesAreAttached /\ FreedIsEmpty /\ NotificationsWillEnd
    BY <2>2 DEF EntriesAreAttached, FreedIsEmpty, NotificationsWillEnd, NotificationInit, Init
  <2> QED BY <2>1, <2>3, <2>4 DEF NotificationInv
<1>2. /\ DeviceInv /\ DeviceInv' /\ LossIsSignalled /\ NotificationInv
      /\ [NotificationNext]_<<vars, notificationVars>>
      => NotificationInv'
  BY NotificationStep
<1> QED BY <1>1, <1>2, DevicesHold, PTL DEF NotificationSpec

\* A handler that is set has a pool, whose thread calls this handler and no
\* other, although pools outlive their connections and the memory of devices.
THEOREM HandlersAreCalled == NotificationSpec => []NotificationTypeOK
<1>1. DeviceInv /\ NotificationInv => NotificationTypeOK
  <2> SUFFICES ASSUME DeviceInv, NotificationInv PROVE NotificationTypeOK
    OBVIOUS
  <2>1. heap \subseteq Devices /\ NoPool \notin Pools
    BY NotificationAssumption DEF DeviceInv, TypeOK
  <2> QED BY <2>1 DEF NotificationInv, Typed, HandlersHavePools, PoolCalls, NotificationTypeOK
<1> QED BY <1>1, DevicesHold, NotificationInvariance, PTL

\* A connection remembers signal handlers that are attached, to itself, each in
\* one entry: a stop and a loss disconnect no handler twice, and none of another
\* connection.
THEOREM EntriesStayAttached == NotificationSpec => []NotifiedAreAttached
<1>1. DeviceInv /\ NotificationInv => NotifiedAreAttached
  <2> SUFFICES ASSUME DeviceInv, NotificationInv PROVE NotifiedAreAttached
    OBVIOUS
  <2>1. heap \subseteq Devices
    BY DEF DeviceInv, TypeOK
  <2> QED BY <2>1 DEF NotificationInv, EntriesAreAttached, IsAttached, NotifiedAreAttached
<1> QED BY <1>1, DevicesHold, NotificationInvariance, PTL

\* The loss of the link, which stops its notifications, will be seen by the
\* handler of a connection that has started some.
THEOREM LossStopsNotifications == NotificationSpec => []NotificationsWillEnd
<1>1. NotificationInv => NotificationsWillEnd
  BY DEF NotificationInv
<1> QED BY <1>1, NotificationInvariance, PTL

=============================================================================
