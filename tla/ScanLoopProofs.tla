---------------------------- MODULE ScanLoopProofs ----------------------------
(***************************************************************************)
(* What ScanLoop says of the scans of an adapter, proved for every number  *)
(* of threads of the application and of scans.                             *)
(*                                                                         *)
(* The discipline of the mutexes is inductive once one says where a thread *)
(* may go after a wait or a broadcast (AfterOK).  The properties of the    *)
(* scan need one more fact: from the reset of is_scanning to the broadcast *)
(* the thread that disables a scan owns m_gattlib_mutex, and nobody sets   *)
(* the flag again behind it (DisablerIsAlone).                             *)
(***************************************************************************)
EXTENDS ScanLoop, TLAPS

\* Where a thread goes after a broadcast, and after a wait.
AfterOK ==
    /\ after \in [Procs -> {"idle", "end", "done", "ref"}]
    /\ \A p \in Procs : pc[p] \in {"wait_lock", "wait_check", "waiting"} => after[p] \in {"idle", "end"}

LockInv == TypeOK /\ AfterOK

\* The flag is reset while a thread goes from its StopDiscovery to its broadcast.
DisablerIsAlone == \A p \in Procs \ {MainLoop} : pc[p] = "signal" => ~is_scanning

\* The scan whose thread exists has a timeout when every scan has one.
LoopHasTimeout == Timeouts = {TRUE} => \A l \in Loops : pc[l] # "none" => ble_scan_timeout

\* A loop thread that has not yet decided to leave.
Watches(l) == pc[l] \in {"start", "wait_lock", "wait_check", "waiting"}

ScanInv == LockInv /\ DisablerIsAlone /\ LoopHasTimeout

-----------------------------------------------------------------------------
(* The mutexes.                                                             *)

\* The conjuncts of TypeOK that type the variables, and the discipline.
Types ==
    /\ gattlib_mutex \in Procs \cup {Nobody}
    /\ signal_mutex \in Procs \cup {Nobody}
    /\ valid \in BOOLEAN
    /\ is_scanning \in BOOLEAN
    /\ ble_scan_timeout \in BOOLEAN
    /\ timeout_id \in Loops \cup {NoTimer}
    /\ timers \subseteq Loops
    /\ firing \in Loops \cup {NoTimer}
    /\ discovering \in BOOLEAN
    /\ handler \in BOOLEAN
    /\ pc \in [Procs -> Pc]

OwnerKnown(p) ==
    /\ pc[p] \in {"signal", "ref"} <=> gattlib_mutex = p
    /\ pc[p] = "wait_check" <=> signal_mutex = p

WaitAfter(p) == pc[p] \in {"wait_lock", "wait_check", "waiting"} => after[p] \in {"idle", "end"}

AfterTypes == after \in [Procs -> {"idle", "end", "done", "ref"}]

\* LockInv, regrouped thread by thread.
LEMMA LockParts == LockInv <=> Types /\ AfterTypes /\ \A p \in Procs : OwnerKnown(p) /\ WaitAfter(p)
<1>1. AfterTypes => after \in [Procs -> Pc]
    BY DEF AfterTypes, Pc
<1> QED
    BY <1>1 DEF LockInv, TypeOK, AfterOK, Types, OwnerKnown, WaitAfter, AfterTypes

LEMMA LockPartsNext ==
    Types' /\ AfterTypes' /\ (\A p \in Procs : OwnerKnown(p)' /\ WaitAfter(p)') => LockInv'
<1>1. (Types /\ AfterTypes /\ \A p \in Procs : OwnerKnown(p) /\ WaitAfter(p))' => LockInv'
    BY LockParts, PTL
<1> QED
    BY <1>1

LEMMA ProcsDistinct ==
    /\ Nobody \notin Procs
    /\ MainLoop \in Procs /\ Apps \subseteq Procs /\ Loops \subseteq Procs
    /\ NoTimer \notin Loops /\ MainLoop \notin Apps /\ MainLoop \notin Loops
BY ScanAssumption DEF Procs

\* A step of p that moves p only, from a place where it owns no mutex to another.
LEMMA QuietMove ==
    ASSUME LockInv, NEW p \in Procs, NEW next \in Pc,
           pc[p] \notin {"signal", "ref", "wait_check"},
           next \notin {"signal", "ref", "wait_check"},
           pc' = [pc EXCEPT ![p] = next], UNCHANGED locks,
           \/ after' = after /\ (next \in {"wait_lock", "waiting"} => after[p] \in {"idle", "end"})
           \/ \E a \in {"idle", "end"} : after' = [after EXCEPT ![p] = a]
    PROVE  /\ AfterTypes' /\ pc' \in [Procs -> Pc]
           /\ \A q \in Procs : OwnerKnown(q)' /\ WaitAfter(q)'
<1>1. Types /\ AfterTypes /\ \A q \in Procs : OwnerKnown(q) /\ WaitAfter(q)
    BY LockParts
<1>2. AfterTypes' /\ pc' \in [Procs -> Pc]
    BY <1>1 DEF Types, AfterTypes
<1>3. ASSUME NEW q \in Procs PROVE OwnerKnown(q)' /\ WaitAfter(q)'
    <2>1. CASE q = p
        BY <1>1, <2>1 DEF Types, AfterTypes, OwnerKnown, WaitAfter, locks
    <2>2. CASE q # p
        <3>1. pc'[q] = pc[q] /\ after'[q] = after[q]
            BY <1>1, <2>2 DEF Types, AfterTypes
        <3> QED
            BY <1>1, <3>1 DEF OwnerKnown, WaitAfter, locks
    <2> QED
        BY <2>1, <2>2
<1> QED
    BY <1>2, <1>3

\* A broadcast by p, which owns m_gattlib_mutex, wakes threads that own nothing.
LEMMA BroadcastMove ==
    ASSUME LockInv, NEW p \in Procs, pc[p] = "signal", signal_mutex' = signal_mutex,
           NEW next \in {"idle", "end", "done", "ref"},
           pc' = Broadcast(p, next), gattlib_mutex' = OwnerAt(p, next), after' = after
    PROVE  /\ AfterTypes' /\ pc' \in [Procs -> Pc] /\ gattlib_mutex' \in Procs \cup {Nobody}
           /\ \A q \in Procs : OwnerKnown(q)' /\ WaitAfter(q)'
           /\ \A q \in Procs : pc'[q] # "waiting"
<1>1. Types /\ AfterTypes /\ \A q \in Procs : OwnerKnown(q) /\ WaitAfter(q)
    BY LockParts
<1>2. AfterTypes' /\ pc' \in [Procs -> Pc] /\ gattlib_mutex' \in Procs \cup {Nobody}
    BY <1>1 DEF Types, AfterTypes, Broadcast, Pc, OwnerAt
<1>3. gattlib_mutex = p
    BY <1>1 DEF OwnerKnown
<1>4. ASSUME NEW q \in Procs PROVE OwnerKnown(q)' /\ WaitAfter(q)' /\ pc'[q] # "waiting"
    <2>1. CASE q = p
        BY <1>1, <2>1, ProcsDistinct DEF Types, OwnerKnown, WaitAfter, Broadcast, OwnerAt
    <2>2. CASE q # p
        <3>1. pc'[q] = IF pc[q] = "waiting" THEN "wait_lock" ELSE pc[q]
            BY <2>2 DEF Broadcast
        <3>2. gattlib_mutex # q /\ gattlib_mutex' # q
            BY <1>3, <2>2, ProcsDistinct DEF OwnerAt
        <3> QED
            BY <1>1, <3>1, <3>2 DEF OwnerKnown, WaitAfter
    <2> QED
        BY <2>1, <2>2
<1> QED
    BY <1>2, <1>4

\* The critical section of gattlib_adapter_scan_disable by a thread that owns
\* no mutex.
LEMMA DisableMove ==
    ASSUME LockInv, NEW p \in Procs, NEW next \in {"idle", "done", "ref"},
           pc[p] \in {"idle", "end"}, gattlib_adapter_scan_disable(p, next)
    PROVE  LockInv'
<1>1. Types /\ AfterTypes /\ \A q \in Procs : OwnerKnown(q) /\ WaitAfter(q)
    BY LockParts
<1>2. gattlib_mutex = Nobody /\ signal_mutex' = signal_mutex
    BY DEF gattlib_adapter_scan_disable
<1>3. /\ valid' \in BOOLEAN /\ is_scanning' \in BOOLEAN /\ ble_scan_timeout' \in BOOLEAN
      /\ timeout_id' \in Loops \cup {NoTimer} /\ timers' \subseteq Loops
      /\ firing' \in Loops \cup {NoTimer} /\ discovering' \in BOOLEAN /\ handler' \in BOOLEAN
    BY <1>1 DEF gattlib_adapter_scan_disable, Types
<1>4. PICK place \in {next, "signal"} :
        /\ pc' = [pc EXCEPT ![p] = place]
        /\ gattlib_mutex' = IF place \in {"signal", "ref"} THEN p ELSE Nobody
        /\ after' = after \/ after' = [after EXCEPT ![p] = next]
    <2>1. CASE pc' = [pc EXCEPT ![p] = next] /\ gattlib_mutex' = OwnerAt(p, next) /\ after' = after
        <3>1. gattlib_mutex' = IF next \in {"signal", "ref"} THEN p ELSE Nobody
            BY <2>1 DEF OwnerAt
        <3> QED
            BY <2>1, <3>1
    <2>2. CASE /\ pc' = [pc EXCEPT ![p] = "signal"] /\ gattlib_mutex' = p
               /\ after' = [after EXCEPT ![p] = next]
        BY <2>2
    <2> QED
        BY <2>1, <2>2, Zenon DEF gattlib_adapter_scan_disable
<1>5. place \in Pc /\ place \notin {"wait_lock", "wait_check", "waiting"}
    BY DEF Pc
<1>6. AfterTypes' /\ pc' \in [Procs -> Pc] /\ gattlib_mutex' \in Procs \cup {Nobody}
    BY <1>1, <1>4, <1>5 DEF Types, AfterTypes
<1>7. ASSUME NEW q \in Procs PROVE OwnerKnown(q)' /\ WaitAfter(q)'
    <2>1. CASE q = p
        <3>1. pc'[q] = place
            BY <1>1, <1>4, <2>1 DEF Types
        <3> QED
            BY <1>1, <1>2, <1>4, <1>5, <2>1, <3>1, ProcsDistinct DEF OwnerKnown, WaitAfter
    <2>2. CASE q # p
        <3>1. pc'[q] = pc[q] /\ after'[q] = after[q]
            BY <1>1, <1>4, <2>2 DEF Types, AfterTypes
        <3> QED
            BY <1>1, <1>2, <1>4, <2>2, <3>1, ProcsDistinct DEF OwnerKnown, WaitAfter
    <2> QED
        BY <2>1, <2>2
<1> QED
    BY <1>1, <1>2, <1>3, <1>6, <1>7, LockPartsNext DEF Types

-----------------------------------------------------------------------------
(* Every action keeps the discipline.                                       *)

\* What is left to show of an action that QuietMove covers.
LEMMA QuietStep ==
    ASSUME LockInv, UNCHANGED locks,
           valid' \in BOOLEAN, is_scanning' \in BOOLEAN, ble_scan_timeout' \in BOOLEAN,
           timeout_id' \in Loops \cup {NoTimer}, timers' \subseteq Loops,
           firing' \in Loops \cup {NoTimer}, discovering' \in BOOLEAN, handler' \in BOOLEAN,
           AfterTypes', pc' \in [Procs -> Pc], \A q \in Procs : OwnerKnown(q)' /\ WaitAfter(q)'
    PROVE  LockInv'
<1>1. Types
    BY LockParts
<1> QED
    BY <1>1, LockPartsNext DEF Types, locks

LEMMA ScanEnableLocks ==
    ASSUME LockInv, NEW u \in Apps, NEW blocking \in BOOLEAN, NEW timeout \in BOOLEAN,
           ScanEnable(u, blocking, timeout)
    PROVE  LockInv'
<1>1. Types /\ AfterTypes /\ \A q \in Procs : OwnerKnown(q) /\ WaitAfter(q)
    BY LockParts
<1>2. /\ valid' \in BOOLEAN /\ is_scanning' \in BOOLEAN /\ ble_scan_timeout' \in BOOLEAN
      /\ timeout_id' \in Loops \cup {NoTimer} /\ timers' \subseteq Loops
      /\ firing' \in Loops \cup {NoTimer} /\ discovering' \in BOOLEAN /\ handler' \in BOOLEAN
    BY <1>1 DEF ScanEnable, Types
<1>3. UNCHANGED locks /\ pc[u] = "idle" /\ u \in Procs
    BY ProcsDistinct DEF ScanEnable
<1>4. CASE UNCHANGED <<pc, after>>
    BY <1>1, <1>2, <1>3, <1>4, LockPartsNext DEF Types, AfterTypes, OwnerKnown, WaitAfter, locks
<1>5. CASE \E l \in Loops :
              /\ pc[l] = "none"
              /\ pc' = [pc EXCEPT ![l] = "start", ![u] = IF blocking THEN "wait_lock" ELSE "idle"]
              /\ after' = [after EXCEPT ![u] = IF blocking THEN "end" ELSE @]
    <2>1. PICK l \in Loops :
              /\ pc[l] = "none"
              /\ pc' = [pc EXCEPT ![l] = "start", ![u] = IF blocking THEN "wait_lock" ELSE "idle"]
              /\ after' = [after EXCEPT ![u] = IF blocking THEN "end" ELSE @]
        BY <1>5
    <2>2. l \in Procs /\ l # u
        BY <1>3, <2>1, ProcsDistinct
    <2>3. pc' \in [Procs -> Pc] /\ AfterTypes'
        BY <1>1, <1>3, <2>1, <2>2 DEF Types, AfterTypes, Pc
    <2>4. ASSUME NEW q \in Procs PROVE OwnerKnown(q)' /\ WaitAfter(q)'
        <3>1. CASE q = u
            BY <1>1, <1>3, <2>1, <2>2, <3>1 DEF Types, AfterTypes, OwnerKnown, WaitAfter, locks
        <3>2. CASE q = l
            BY <1>1, <1>3, <2>1, <2>2, <3>2 DEF Types, AfterTypes, OwnerKnown, WaitAfter, locks
        <3>3. CASE q # u /\ q # l
            <4>1. pc'[q] = pc[q] /\ after'[q] = after[q]
                BY <1>1, <1>3, <2>1, <2>2, <3>3 DEF Types, AfterTypes
            <4> QED
                BY <1>1, <1>3, <4>1 DEF OwnerKnown, WaitAfter, locks
        <3> QED
            BY <3>1, <3>2, <3>3
    <2> QED
        BY <1>2, <1>3, <2>3, <2>4, QuietStep
<1> QED
    BY <1>4, <1>5, Zenon DEF ScanEnable

LEMMA AppLocks ==
    ASSUME LockInv, AppNext
    PROVE  LockInv'
<1>1. Types /\ AfterTypes /\ \A q \in Procs : OwnerKnown(q) /\ WaitAfter(q)
    BY LockParts
<1>2. ASSUME NEW u \in Apps, EnableReturn(u) PROVE LockInv'
    <2>1. u \in Procs /\ "idle" \in Pc
        BY ProcsDistinct DEF Pc
    <2>2. /\ AfterTypes' /\ pc' \in [Procs -> Pc]
          /\ \A q \in Procs : OwnerKnown(q)' /\ WaitAfter(q)'
        BY <1>2, <2>1, QuietMove DEF EnableReturn
    <2> QED
        BY <1>1, <1>2, <2>2, QuietStep DEF EnableReturn, Types, scan
<1>3. ASSUME NEW u \in Apps, ScanDisable(u) PROVE LockInv'
    BY <1>3, DisableMove, ProcsDistinct DEF ScanDisable
<1>4. ASSUME NEW u \in Apps, WaitScanStopped(u) PROVE LockInv'
    <2>1. u \in Procs /\ "wait_lock" \in Pc
        BY ProcsDistinct DEF Pc
    <2>2. /\ AfterTypes' /\ pc' \in [Procs -> Pc]
          /\ \A q \in Procs : OwnerKnown(q)' /\ WaitAfter(q)'
        BY <1>4, <2>1, QuietMove DEF WaitScanStopped
    <2> QED
        BY <1>1, <1>4, <2>2, QuietStep DEF WaitScanStopped, Types, scan
<1>5. ASSUME NEW u \in Apps, AdapterClose(u) PROVE LockInv'
    <2>1. CASE gattlib_adapter_scan_disable(u, "ref")
        BY <1>5, <2>1, DisableMove, ProcsDistinct DEF AdapterClose
    <2>2. CASE valid' = FALSE /\ UNCHANGED <<locks, scan, timers, firing, discovering, pc, after>>
        BY <1>1, <2>2, LockPartsNext DEF Types, AfterTypes, OwnerKnown, WaitAfter, locks, scan
    <2> QED
        BY <1>5, <2>1, <2>2, Zenon DEF AdapterClose
<1>6. ASSUME NEW u \in Apps, NEW timeout \in Timeouts, NEW blocking \in BOOLEAN,
             ScanEnable(u, blocking, timeout)
      PROVE  LockInv'
    BY <1>6, ScanEnableLocks, ScanAssumption
<1> QED
    BY <1>2, <1>3, <1>4, <1>5, <1>6 DEF AppNext

LEMMA WaitLocks ==
    ASSUME LockInv, WaitNext
    PROVE  LockInv'
<1>1. Types /\ AfterTypes /\ \A q \in Procs : OwnerKnown(q) /\ WaitAfter(q)
    BY LockParts
<1>2. ASSUME NEW p \in Procs, WaitLock(p) PROVE LockInv'
    <2>1. pc' \in [Procs -> Pc] /\ AfterTypes'
        BY <1>1, <1>2 DEF WaitLock, Types, AfterTypes, Pc
    <2>2. ASSUME NEW q \in Procs PROVE OwnerKnown(q)' /\ WaitAfter(q)'
        BY <1>1, <1>2, ProcsDistinct DEF WaitLock, Types, OwnerKnown, WaitAfter
    <2> QED
        BY <1>1, <1>2, <2>1, <2>2, LockPartsNext DEF WaitLock, Types, scan
<1>3. ASSUME NEW p \in Procs, WaitCheck(p) PROVE LockInv'
    <2>1. PICK next \in {"waiting", "idle", "end"} : pc' = [pc EXCEPT ![p] = next]
        BY <1>1, <1>3 DEF WaitCheck, WaitAfter
    <2>2. pc' \in [Procs -> Pc] /\ AfterTypes'
        BY <1>1, <1>3, <2>1 DEF WaitCheck, Types, AfterTypes, Pc
    <2>3. ASSUME NEW q \in Procs PROVE OwnerKnown(q)' /\ WaitAfter(q)'
        BY <1>1, <1>3, <2>1, ProcsDistinct DEF WaitCheck, Types, OwnerKnown, WaitAfter
    <2> QED
        BY <1>1, <1>3, <2>2, <2>3, LockPartsNext DEF WaitCheck, Types, scan
<1>4. ASSUME NEW p \in Procs, WakeSpuriously(p) PROVE LockInv'
    <2>1. "wait_lock" \in Pc /\ after[p] \in {"idle", "end"}
        BY <1>1, <1>4 DEF Pc, WakeSpuriously, WaitAfter
    <2>2. /\ AfterTypes' /\ pc' \in [Procs -> Pc]
          /\ \A q \in Procs : OwnerKnown(q)' /\ WaitAfter(q)'
        BY <1>4, <2>1, QuietMove DEF WakeSpuriously
    <2> QED
        BY <1>1, <1>4, <2>2, QuietStep DEF WakeSpuriously, Types, scan
<1>5. ASSUME NEW p \in Procs, DisableSignal(p) PROVE LockInv'
    <2>1. after[p] \in {"idle", "end", "done", "ref"}
        BY <1>1 DEF AfterTypes
    <2>2. /\ AfterTypes' /\ pc' \in [Procs -> Pc] /\ gattlib_mutex' \in Procs \cup {Nobody}
          /\ \A q \in Procs : OwnerKnown(q)' /\ WaitAfter(q)'
        BY <1>5, <2>1, BroadcastMove DEF DisableSignal
    <2> QED
        BY <1>1, <1>5, <2>2, LockPartsNext DEF DisableSignal, Types
<1> QED
    BY <1>2, <1>3, <1>4, <1>5 DEF WaitNext

LEMMA LoopLocks ==
    ASSUME LockInv, LoopNext
    PROVE  LockInv'
<1>1. Types /\ AfterTypes /\ \A q \in Procs : OwnerKnown(q) /\ WaitAfter(q)
    BY LockParts
<1>2. ASSUME NEW l \in Loops, LoopStart(l) PROVE LockInv'
    <2>1. l \in Procs /\ "wait_lock" \in Pc /\ "done" \in Pc
        BY ProcsDistinct DEF Pc
    <2>2. PICK next \in {"done", "wait_lock"} :
            /\ pc' = [pc EXCEPT ![l] = next]
            /\ \/ next = "done" /\ after' = after
               \/ after' = [after EXCEPT ![l] = "end"]
        BY <1>2 DEF LoopStart
    <2>3. /\ AfterTypes' /\ pc' \in [Procs -> Pc]
          /\ \A q \in Procs : OwnerKnown(q)' /\ WaitAfter(q)'
        BY <1>2, <2>1, <2>2, QuietMove DEF LoopStart
    <2>4. is_scanning' \in BOOLEAN /\ timers' \subseteq Loops /\ timeout_id' \in Loops \cup {NoTimer}
        BY <1>1, <1>2 DEF LoopStart, Types
    <2> QED
        BY <1>1, <1>2, <2>3, <2>4, QuietStep DEF LoopStart, Types
<1>3. ASSUME NEW l \in Loops, LoopEnd(l) PROVE LockInv'
    <2>1. CASE gattlib_adapter_scan_disable(l, "done")
        BY <1>3, <2>1, DisableMove, ProcsDistinct DEF LoopEnd
    <2>2. CASE /\ pc' = [pc EXCEPT ![l] = "done"]
               /\ UNCHANGED <<locks, valid, scan, timers, firing, discovering, after>>
        <3>1. l \in Procs /\ "done" \in Pc
            BY ProcsDistinct DEF Pc
        <3>2. /\ AfterTypes' /\ pc' \in [Procs -> Pc]
              /\ \A q \in Procs : OwnerKnown(q)' /\ WaitAfter(q)'
            BY <1>3, <2>2, <3>1, QuietMove DEF LoopEnd
        <3> QED
            BY <1>1, <2>2, <3>2, QuietStep DEF Types, scan
    <2> QED
        BY <1>3, <2>1, <2>2, Zenon DEF LoopEnd
<1> QED
    BY <1>2, <1>3 DEF LoopNext

LEMMA MainLocks ==
    ASSUME LockInv, MainNext
    PROVE  LockInv'
<1>1. Types /\ AfterTypes /\ \A q \in Procs : OwnerKnown(q) /\ WaitAfter(q)
    BY LockParts
<1>2. CASE TimerExpires
    <2>1. /\ AfterTypes' /\ pc' \in [Procs -> Pc]
          /\ \A q \in Procs : OwnerKnown(q)' /\ WaitAfter(q)'
        <3>1. MainLoop \in Procs /\ "timeout" \in Pc
            BY ProcsDistinct DEF Pc
        <3> QED
            BY <1>2, <3>1, QuietMove DEF TimerExpires
    <2> QED
        BY <1>1, <1>2, <2>1, QuietStep DEF TimerExpires, Types, scan
<1>3. CASE Timeout
    <2>1. CASE pc' = [pc EXCEPT ![MainLoop] = "idle"] /\ gattlib_mutex' = gattlib_mutex
        <3>1. MainLoop \in Procs /\ "idle" \in Pc
            BY ProcsDistinct DEF Pc
        <3>2. /\ AfterTypes' /\ pc' \in [Procs -> Pc]
              /\ \A q \in Procs : OwnerKnown(q)' /\ WaitAfter(q)'
            BY <1>3, <2>1, <3>1, QuietMove DEF Timeout, locks
        <3>3. timers' \subseteq Loops /\ timeout_id' \in Loops \cup {NoTimer}
              /\ firing' \in Loops \cup {NoTimer}
            BY <1>1, <1>3 DEF Timeout, Types
        <3> QED
            BY <1>1, <1>3, <2>1, <3>2, <3>3, QuietStep DEF Timeout, Types, locks
    <2>2. CASE /\ pc' = [pc EXCEPT ![MainLoop] = "signal"] /\ gattlib_mutex' = MainLoop
               /\ UNCHANGED <<timers, firing, timeout_id>>
        <3>1. pc' \in [Procs -> Pc] /\ AfterTypes'
            BY <1>1, <1>3, <2>2 DEF Timeout, Types, AfterTypes, Pc
        <3>2. ASSUME NEW q \in Procs PROVE OwnerKnown(q)' /\ WaitAfter(q)'
            BY <1>1, <1>3, <2>2, ProcsDistinct DEF Timeout, Types, OwnerKnown, WaitAfter
        <3> QED
            BY <1>1, <1>3, <2>2, <3>1, <3>2, LockPartsNext, ProcsDistinct DEF Timeout, Types
    <2> QED
        BY <1>3, <2>1, <2>2, Zenon DEF Timeout
<1>4. CASE TimeoutSignal
    <2>1. gattlib_mutex' = OwnerAt(MainLoop, "idle")
        BY <1>4 DEF TimeoutSignal, OwnerAt
    <2>2. /\ AfterTypes' /\ pc' \in [Procs -> Pc] /\ gattlib_mutex' \in Procs \cup {Nobody}
          /\ \A q \in Procs : OwnerKnown(q)' /\ WaitAfter(q)'
        BY <1>4, <2>1, BroadcastMove, ProcsDistinct DEF TimeoutSignal
    <2> QED
        BY <1>1, <1>4, <2>2, LockPartsNext DEF TimeoutSignal, Types
<1> QED
    BY <1>2, <1>3, <1>4 DEF MainNext

LEMMA LockStep == LockInv /\ [Next]_vars => LockInv'
<1> SUFFICES ASSUME LockInv, [Next]_vars PROVE LockInv'
    OBVIOUS
<1>1. CASE UNCHANGED vars
    BY <1>1 DEF vars, locks, scan, LockInv, TypeOK, AfterOK
<1> QED
    BY <1>1, AppLocks, WaitLocks, LoopLocks, MainLocks DEF Next

LEMMA LockInit == Init => LockInv
<1> SUFFICES ASSUME Init PROVE LockInv
    OBVIOUS
<1>1. \A p \in Procs : pc[p] \in {"none", "idle"}
    BY DEF Init
<1>2. Types /\ AfterTypes
    BY <1>1 DEF Init, Types, AfterTypes, Pc
<1>3. \A q \in Procs : OwnerKnown(q) /\ WaitAfter(q)
    BY <1>1, ProcsDistinct DEF Init, OwnerKnown, WaitAfter
<1> QED
    BY <1>2, <1>3, LockParts

LEMMA LockInvariant == Spec => []LockInv
BY LockInit, LockStep, PTL DEF Spec

\* m_gattlib_mutex and the mutex of the signal are each owned by the one thread
\* that says so, and released on every path, whatever fails.
THEOREM MutexDiscipline == Spec => []TypeOK
<1>1. LockInv => TypeOK
    BY DEF LockInv
<1> QED
    BY <1>1, LockInvariant, PTL

-----------------------------------------------------------------------------
(* What a step does to the scan: one of the forms below.                    *)

KeepsScan == UNCHANGED <<valid, is_scanning, ble_scan_timeout, timeout_id, timers>>

WaitPlaces == {"wait_lock", "wait_check", "waiting"}

\* A thread moves and the scan does not change.  It begins to sleep, or it
\* leaves its wait, according to what it has just read.
QuietForm ==
    /\ KeepsScan
    /\ \E p \in Procs, to \in Pc :
          /\ pc' = [pc EXCEPT ![p] = to]
          /\ pc[p] \notin {"none", "start", "signal"} /\ to \notin {"none", "start"}
          /\ to = "signal" => p = MainLoop
          /\ to = "waiting" => valid /\ is_scanning
          /\ pc[p] \in WaitPlaces /\ valid /\ is_scanning => to \in WaitPlaces

\* A scan begins: its thread exists.
EnableForm ==
    /\ gattlib_mutex = Nobody
    /\ ble_scan_timeout' \in Timeouts /\ timeout_id' = NoTimer
    /\ valid' = valid /\ timers' = timers
    /\ \E u \in Apps, l \in Loops, to \in {"idle", "wait_lock"} :
          pc[u] = "idle" /\ pc[l] = "none" /\ pc' = [pc EXCEPT ![l] = "start", ![u] = to]

\* It could not begin.
EnableFailsForm ==
    /\ gattlib_mutex = Nobody
    /\ ble_scan_timeout' \in Timeouts /\ timeout_id' = NoTimer
    /\ valid' = valid /\ timers' = timers /\ pc' = pc
    /\ \/ "start" \in Failures /\ is_scanning' = FALSE
       \/ "thread" \in Failures

\* A scan is disabled, and its threads are not yet told.
DisableForm ==
    /\ is_scanning' = FALSE
    /\ UNCHANGED <<valid, ble_scan_timeout, timeout_id, timers>>
    /\ \E p \in Procs : pc[p] \in {"idle", "end"} /\ pc' = [pc EXCEPT ![p] = "signal"]

CloseForm ==
    /\ "close" \in Calls
    /\ valid' = FALSE
    /\ UNCHANGED <<is_scanning, ble_scan_timeout, timeout_id, timers, pc>>

\* The early return of the timeout.
TimeoutForm ==
    /\ ~(valid /\ is_scanning)
    /\ timeout_id' = IF valid THEN NoTimer ELSE timeout_id
    /\ UNCHANGED <<valid, is_scanning, ble_scan_timeout>>
    /\ pc[MainLoop] = "timeout" /\ pc' = [pc EXCEPT ![MainLoop] = "idle"]

\* gattlib_adapter_scan_disable is quiet or disables.
LEMMA DisableForms ==
    ASSUME LockInv, NEW p \in Procs, pc[p] \in {"idle", "end"}, NEW next \in {"idle", "done", "ref"},
           gattlib_adapter_scan_disable(p, next)
    PROVE  QuietForm \/ DisableForm
<1>1. CASE pc' = [pc EXCEPT ![p] = next] /\ UNCHANGED is_scanning
    <2>1. next \in Pc /\ next \notin {"none", "start", "signal", "waiting"}
        BY DEF Pc
    <2> QED
        BY <1>1, <2>1 DEF gattlib_adapter_scan_disable, QuietForm, KeepsScan, WaitPlaces
<1>2. CASE pc' = [pc EXCEPT ![p] = "signal"] /\ is_scanning' = FALSE
    BY <1>2 DEF gattlib_adapter_scan_disable, DisableForm
<1> QED
    BY <1>1, <1>2, Zenon DEF gattlib_adapter_scan_disable

LEMMA AppForms ==
    ASSUME LockInv, AppNext
    PROVE  QuietForm \/ EnableForm \/ EnableFailsForm \/ DisableForm \/ CloseForm
<1>1. ASSUME NEW u \in Apps, NEW timeout \in Timeouts, NEW blocking \in BOOLEAN,
             ScanEnable(u, blocking, timeout)
      PROVE  EnableForm \/ EnableFailsForm
    <2>1. CASE \E l \in Loops :
                  /\ pc[l] = "none"
                  /\ pc' = [pc EXCEPT ![l] = "start",
                                      ![u] = IF blocking THEN "wait_lock" ELSE "idle"]
        <3>1. (IF blocking THEN "wait_lock" ELSE "idle") \in {"idle", "wait_lock"}
            OBVIOUS
        <3> QED
            BY <1>1, <2>1, <3>1 DEF ScanEnable, EnableForm
    <2>2. CASE "start" \in Failures /\ is_scanning' = FALSE /\ UNCHANGED <<pc, after>>
        BY <1>1, <2>2 DEF ScanEnable, EnableFailsForm
    <2>3. CASE "thread" \in Failures /\ UNCHANGED <<pc, after>>
        BY <1>1, <2>3 DEF ScanEnable, EnableFailsForm
    <2> QED
        BY <1>1, <2>1, <2>2, <2>3 DEF ScanEnable
<1>2. ASSUME NEW u \in Apps, EnableReturn(u) PROVE QuietForm
    <2>1. u \in Procs /\ "idle" \in Pc
        BY ProcsDistinct DEF Pc
    <2> QED
        BY <1>2, <2>1 DEF EnableReturn, QuietForm, KeepsScan, scan, WaitPlaces
<1>3. ASSUME NEW u \in Apps, ScanDisable(u) PROVE QuietForm \/ DisableForm
    BY <1>3, DisableForms, ProcsDistinct DEF ScanDisable
<1>4. ASSUME NEW u \in Apps, WaitScanStopped(u) PROVE QuietForm
    <2>1. u \in Procs /\ "wait_lock" \in Pc
        BY ProcsDistinct DEF Pc
    <2> QED
        BY <1>4, <2>1 DEF WaitScanStopped, QuietForm, KeepsScan, scan, WaitPlaces
<1>5. ASSUME NEW u \in Apps, "close" \in Calls, AdapterClose(u)
      PROVE  QuietForm \/ DisableForm \/ CloseForm
    <2>1. CASE gattlib_adapter_scan_disable(u, "ref")
        BY <1>5, <2>1, DisableForms, ProcsDistinct DEF AdapterClose
    <2>2. CASE valid' = FALSE /\ UNCHANGED <<locks, scan, timers, firing, discovering, pc, after>>
        BY <1>5, <2>2 DEF CloseForm, scan
    <2> QED
        BY <1>5, <2>1, <2>2, Zenon DEF AdapterClose
<1> QED
    BY <1>1, <1>2, <1>3, <1>4, <1>5 DEF AppNext

LEMMA OtherForms ==
    ASSUME LockInv, WaitNext \/ LoopNext \/ MainNext
    PROVE  \/ QuietForm \/ DisableForm \/ TimeoutForm
           \/ TimeoutSignal
           \/ \E p \in Procs : DisableSignal(p)
           \/ \E l \in Loops : LoopStart(l)
<1>1. ASSUME NEW p \in Procs, WaitLock(p) PROVE QuietForm
    <2>1. "wait_check" \in Pc
        BY DEF Pc
    <2> QED
        BY <1>1, <2>1 DEF WaitLock, QuietForm, KeepsScan, scan, WaitPlaces
<1>2. ASSUME NEW p \in Procs, WaitCheck(p) PROVE QuietForm
    <2>1. after[p] \in {"idle", "end"} /\ {"waiting", "idle", "end"} \subseteq Pc
        BY <1>2 DEF WaitCheck, LockInv, AfterOK, Pc
    <2>2. PICK to \in Pc : to = IF valid /\ is_scanning THEN "waiting" ELSE after[p]
        BY <2>1
    <2> QED
        BY <1>2, <2>1, <2>2 DEF WaitCheck, QuietForm, KeepsScan, scan, WaitPlaces
<1>3. ASSUME NEW p \in Procs, WakeSpuriously(p) PROVE QuietForm
    <2>1. "wait_lock" \in Pc
        BY DEF Pc
    <2> QED
        BY <1>3, <2>1 DEF WakeSpuriously, QuietForm, KeepsScan, scan, WaitPlaces
<1>4. ASSUME NEW l \in Loops, LoopEnd(l) PROVE QuietForm \/ DisableForm
    <2>1. CASE gattlib_adapter_scan_disable(l, "done")
        BY <1>4, <2>1, DisableForms, ProcsDistinct DEF LoopEnd
    <2>2. CASE /\ pc' = [pc EXCEPT ![l] = "done"]
               /\ UNCHANGED <<locks, valid, scan, timers, firing, discovering, after>>
        <3>1. l \in Procs /\ "done" \in Pc
            BY ProcsDistinct DEF Pc
        <3> QED
            BY <1>4, <2>2, <3>1 DEF LoopEnd, QuietForm, KeepsScan, scan, WaitPlaces
    <2> QED
        BY <1>4, <2>1, <2>2, Zenon DEF LoopEnd
<1>5. CASE TimerExpires
    <2>1. MainLoop \in Procs /\ "timeout" \in Pc
        BY ProcsDistinct DEF Pc
    <2> QED
        BY <1>5, <2>1 DEF TimerExpires, QuietForm, KeepsScan, scan, WaitPlaces
<1>6. CASE Timeout
    <2>1. CASE /\ pc' = [pc EXCEPT ![MainLoop] = "signal"]
               /\ UNCHANGED <<timers, firing, timeout_id>>
        <3>1. MainLoop \in Procs /\ "signal" \in Pc
            BY ProcsDistinct DEF Pc
        <3> QED
            BY <1>6, <2>1, <3>1 DEF Timeout, QuietForm, KeepsScan, WaitPlaces
    <2>2. CASE /\ ~(valid /\ is_scanning)
               /\ timeout_id' = IF valid THEN NoTimer ELSE timeout_id
               /\ pc' = [pc EXCEPT ![MainLoop] = "idle"]
        BY <1>6, <2>2 DEF Timeout, TimeoutForm
    <2> QED
        BY <1>6, <2>1, <2>2, Zenon DEF Timeout
<1> QED
    BY <1>1, <1>2, <1>3, <1>4, <1>5, <1>6 DEF WaitNext, LoopNext, MainNext

LEMMA ScanForms ==
    ASSUME LockInv, [Next]_vars
    PROVE  \/ UNCHANGED vars
           \/ QuietForm \/ EnableForm \/ EnableFailsForm \/ DisableForm \/ CloseForm \/ TimeoutForm
           \/ TimeoutSignal
           \/ \E p \in Procs : DisableSignal(p)
           \/ \E l \in Loops : LoopStart(l)
BY AppForms, OtherForms DEF Next

-----------------------------------------------------------------------------
(* The facts that the properties of the scan rest on.                       *)

\* A broadcast moves nobody else than its thread and those that sleep.
LEMMA SignalMoves ==
    ASSUME LockInv, TimeoutSignal \/ \E p \in Procs : DisableSignal(p)
    PROVE  /\ pc' \in [Procs -> Pc]
           /\ \A q \in Procs : pc'[q] # "waiting"
           /\ \A q \in Procs : pc[q] \notin {"signal", "waiting"} => pc'[q] = pc[q]
           /\ \A q \in Procs : pc[q] = "waiting" => pc'[q] = "wait_lock"
           /\ \A q \in Procs : pc'[q] # "signal"
<1>1. PICK p \in Procs, next \in {"idle", "end", "done", "ref"} :
         /\ pc[p] = "signal" /\ signal_mutex' = signal_mutex /\ after' = after
         /\ pc' = Broadcast(p, next) /\ gattlib_mutex' = OwnerAt(p, next)
    <2>1. CASE TimeoutSignal
        BY <2>1, ProcsDistinct DEF TimeoutSignal, OwnerAt
    <2>2. ASSUME NEW p \in Procs, DisableSignal(p)
          PROVE  /\ after[p] \in {"idle", "end", "done", "ref"}
                 /\ pc[p] = "signal" /\ signal_mutex' = signal_mutex /\ after' = after
                 /\ pc' = Broadcast(p, after[p]) /\ gattlib_mutex' = OwnerAt(p, after[p])
        BY <2>2 DEF DisableSignal, LockInv, AfterOK
    <2> QED
        BY <2>1, <2>2
<1>2. pc' \in [Procs -> Pc] /\ \A q \in Procs : pc'[q] # "waiting"
    BY <1>1, BroadcastMove
<1>3. \A q \in Procs : q # p => pc[q] # "signal"
    BY <1>1 DEF LockInv, TypeOK
<1> QED
    BY <1>1, <1>2, <1>3 DEF Broadcast

\* Whoever owns m_gattlib_mutex is about to broadcast or closes the adapter.
LEMMA NobodySignals ==
    ASSUME LockInv, gattlib_mutex = Nobody, NEW p \in Procs
    PROVE  pc[p] # "signal"
BY ProcsDistinct DEF LockInv, TypeOK

LEMMA DisablerStep ==
    ASSUME LockInv, DisablerIsAlone, [Next]_vars
    PROVE  DisablerIsAlone'
<1>1. pc \in [Procs -> Pc]
    BY DEF LockInv, TypeOK
<1> SUFFICES ASSUME NEW p \in Procs \ {MainLoop}, pc'[p] = "signal" PROVE ~is_scanning'
    BY DEF DisablerIsAlone
<1>2. CASE UNCHANGED vars
    BY <1>2 DEF vars, scan, DisablerIsAlone
<1>3. CASE QuietForm
    BY <1>1, <1>3 DEF QuietForm, KeepsScan, DisablerIsAlone
<1>4. CASE EnableForm
    BY <1>1, <1>4, NobodySignals DEF EnableForm
<1>5. CASE EnableFailsForm
    BY <1>5, NobodySignals DEF EnableFailsForm
<1>6. CASE DisableForm
    BY <1>6 DEF DisableForm
<1>7. CASE CloseForm
    BY <1>7 DEF CloseForm, DisablerIsAlone
<1>8. CASE TimeoutForm
    BY <1>1, <1>8 DEF TimeoutForm, DisablerIsAlone
<1>9. CASE TimeoutSignal \/ \E q \in Procs : DisableSignal(q)
    BY <1>9, SignalMoves
<1>10. CASE \E l \in Loops : LoopStart(l)
    BY <1>1, <1>10, NobodySignals DEF LoopStart
<1> QED
    BY <1>2, <1>3, <1>4, <1>5, <1>6, <1>7, <1>8, <1>9, <1>10, ScanForms

LEMMA LoopTimeoutStep ==
    ASSUME LockInv, LoopHasTimeout, [Next]_vars
    PROVE  LoopHasTimeout'
<1>1. pc \in [Procs -> Pc] /\ Loops \subseteq Procs
    BY ProcsDistinct DEF LockInv, TypeOK
<1> SUFFICES ASSUME Timeouts = {TRUE}, NEW l \in Loops, pc'[l] # "none" PROVE ble_scan_timeout'
    BY DEF LoopHasTimeout
<1>2. CASE UNCHANGED vars
    BY <1>2 DEF vars, scan, LoopHasTimeout
<1>3. CASE QuietForm
    BY <1>1, <1>3 DEF QuietForm, KeepsScan, LoopHasTimeout
<1>4. CASE EnableForm \/ EnableFailsForm
    BY <1>4 DEF EnableForm, EnableFailsForm
<1>5. CASE DisableForm
    BY <1>1, <1>5 DEF DisableForm, LoopHasTimeout
<1>6. CASE CloseForm
    BY <1>6 DEF CloseForm, LoopHasTimeout
<1>7. CASE TimeoutForm
    BY <1>1, <1>7, ProcsDistinct DEF TimeoutForm, LoopHasTimeout
<1>8. CASE TimeoutSignal \/ \E q \in Procs : DisableSignal(q)
    <2>1. pc[l] # "none" /\ ble_scan_timeout' = ble_scan_timeout
        BY <1>1, <1>8, SignalMoves DEF TimeoutSignal, DisableSignal
    <2> QED
        BY <2>1 DEF LoopHasTimeout
<1>9. CASE \E k \in Loops : LoopStart(k)
    BY <1>1, <1>9 DEF LoopStart, LoopHasTimeout
<1> QED
    BY <1>2, <1>3, <1>4, <1>5, <1>6, <1>7, <1>8, <1>9, ScanForms

LEMMA ScanInvariant == Spec => []ScanInv
<1>1. Init => DisablerIsAlone /\ LoopHasTimeout
    BY ProcsDistinct DEF Init, DisablerIsAlone, LoopHasTimeout
<1>2. ScanInv /\ [Next]_vars => (DisablerIsAlone /\ LoopHasTimeout)'
    BY DisablerStep, LoopTimeoutStep DEF ScanInv
<1>3. ScanInv <=> LockInv /\ DisablerIsAlone /\ LoopHasTimeout
    BY DEF ScanInv
<1> QED
    BY <1>1, <1>2, <1>3, LockInit, LockStep, PTL DEF Spec

-----------------------------------------------------------------------------
(* The id of the timeout.                                                   *)

LEMMA TimeoutIdStep ==
    ASSUME LockInv, TimeoutIdLive, [Next]_vars
    PROVE  TimeoutIdLive'
<1>1. valid \in BOOLEAN /\ timeout_id \in Loops \cup {NoTimer} /\ timers \subseteq Loops
    BY DEF LockInv, TypeOK
<1> USE DEF TimeoutIdLive
<1>2. CASE UNCHANGED vars
    BY <1>2 DEF vars, scan
<1>3. CASE QuietForm \/ EnableForm \/ EnableFailsForm \/ DisableForm \/ CloseForm
    <2>1. \/ ~valid' \/ timeout_id' = NoTimer
          \/ valid' = valid /\ timeout_id' = timeout_id /\ timers' = timers
        BY <1>3, Zenon DEF QuietForm, KeepsScan, EnableForm, EnableFailsForm, DisableForm, CloseForm
    <2>2. CASE ~valid' \/ timeout_id' = NoTimer
        BY <2>2
    <2>3. CASE valid' = valid /\ timeout_id' = timeout_id /\ timers' = timers
        BY <2>3
    <2> QED
        BY <2>1, <2>2, <2>3, Zenon
<1>4. CASE TimeoutForm
    BY <1>4 DEF TimeoutForm
<1>5. CASE TimeoutSignal \/ \E p \in Procs : DisableSignal(p)
    BY <1>5 DEF TimeoutSignal, DisableSignal
<1>6. CASE \E l \in Loops : LoopStart(l)
    BY <1>1, <1>6 DEF LoopStart
<1> QED
    BY <1>2, <1>3, <1>4, <1>5, <1>6, ScanForms

\* g_source_remove is called on 0 or on a source that exists, whatever fails and
\* however the scans, their disables and their timeouts overlap.
THEOREM TimeoutIdIsLive == Spec => []TimeoutIdLive
<1>1. Init => TimeoutIdLive
    BY DEF Init, TimeoutIdLive
<1>2. LockInv /\ TimeoutIdLive /\ [Next]_vars => TimeoutIdLive'
    BY TimeoutIdStep
<1> QED
    BY <1>1, <1>2, LockInvariant, PTL DEF Spec

-----------------------------------------------------------------------------
(* The thread of a scan.                                                    *)

LEMMA WatchedStep ==
    ASSUME "thread" \notin Failures, ScanInv, ScanIsWatched, [Next]_vars
    PROVE  ScanIsWatched'
<1>1. LockInv /\ pc \in [Procs -> Pc] /\ Loops \subseteq Procs
    BY ProcsDistinct DEF ScanInv, LockInv, TypeOK
<1> SUFFICES ASSUME valid', is_scanning' PROVE \E l \in Loops : Watches(l)'
    BY DEF ScanIsWatched, Watches
<1>2. valid /\ is_scanning => \E l \in Loops : Watches(l)
    BY DEF ScanIsWatched, Watches
<1>3. CASE UNCHANGED vars
    BY <1>2, <1>3 DEF vars, scan, Watches
<1>4. CASE QuietForm
    <2>1. PICK p \in Procs, to \in Pc :
            /\ pc' = [pc EXCEPT ![p] = to]
            /\ pc[p] # "start"
            /\ pc[p] \in WaitPlaces /\ valid /\ is_scanning => to \in WaitPlaces
        BY <1>4 DEF QuietForm
    <2>2. valid /\ is_scanning
        BY <1>4 DEF QuietForm, KeepsScan
    <2>3. PICK l \in Loops : Watches(l)
        BY <1>2, <2>2
    <2> QED
        BY <1>1, <2>1, <2>2, <2>3 DEF Watches, WaitPlaces
<1>5. CASE EnableForm
    BY <1>1, <1>5, ProcsDistinct, ScanAssumption DEF EnableForm, Watches
<1>6. CASE EnableFailsForm \/ DisableForm \/ CloseForm \/ TimeoutForm
    BY <1>6 DEF EnableFailsForm, DisableForm, CloseForm, TimeoutForm
<1>7. CASE TimeoutSignal
    BY <1>7 DEF TimeoutSignal
<1>8. CASE \E p \in Procs : DisableSignal(p)
    BY <1>8, ProcsDistinct DEF DisableSignal, ScanInv, DisablerIsAlone
<1>9. CASE \E l \in Loops : LoopStart(l)
    BY <1>1, <1>9 DEF LoopStart, Watches
<1> QED
    BY <1>1, <1>3, <1>4, <1>5, <1>6, <1>7, <1>8, <1>9, ScanForms

\* While it is in progress a scan has a thread that will find its end, when
\* every scan got its thread; a start or a stop that fails changes nothing.
THEOREM ScansAreWatched ==
    ASSUME "thread" \notin Failures
    PROVE  Spec => []ScanIsWatched
<1>1. Init => ScanIsWatched
    BY DEF Init, ScanIsWatched
<1>2. ScanInv /\ ScanIsWatched /\ [Next]_vars => ScanIsWatched'
    BY WatchedStep
<1> QED
    BY <1>1, <1>2, ScanInvariant, PTL DEF Spec

-----------------------------------------------------------------------------
(* The timeout of a scan.                                                   *)

LEMMA ArmedStep ==
    ASSUME "thread" \notin Failures, ScanInv, TimeoutArmed, [Next]_vars
    PROVE  TimeoutArmed'
<1>1. LockInv /\ pc \in [Procs -> Pc] /\ Loops \subseteq Procs
    BY ProcsDistinct DEF ScanInv, LockInv, TypeOK
<1> SUFFICES ASSUME valid', is_scanning', Timeouts = {TRUE}
             PROVE  timers' # {} \/ \E l \in Loops : pc'[l] = "start"
    BY DEF TimeoutArmed
<1>2. valid /\ is_scanning => timers # {} \/ \E l \in Loops : pc[l] = "start"
    BY DEF TimeoutArmed
<1>3. CASE UNCHANGED vars
    BY <1>2, <1>3 DEF vars, scan
<1>4. CASE QuietForm
    BY <1>1, <1>2, <1>4 DEF QuietForm, KeepsScan
<1>5. CASE EnableForm
    BY <1>1, <1>5, ScanAssumption DEF EnableForm
<1>6. CASE EnableFailsForm \/ DisableForm \/ CloseForm \/ TimeoutForm
    BY <1>6 DEF EnableFailsForm, DisableForm, CloseForm, TimeoutForm
<1>7. CASE TimeoutSignal
    BY <1>7 DEF TimeoutSignal
<1>8. CASE \E p \in Procs : DisableSignal(p)
    BY <1>8, ProcsDistinct DEF DisableSignal, ScanInv, DisablerIsAlone
<1>9. CASE \E l \in Loops : LoopStart(l)
    BY <1>9 DEF LoopStart, ScanInv, LoopHasTimeout
<1> QED
    BY <1>1, <1>3, <1>4, <1>5, <1>6, <1>7, <1>8, <1>9, ScanForms

\* No sequence of disables, restarts and late timeouts leaves a scan that
\* nothing will end, when every scan has a timeout and got its thread.
THEOREM TimeoutsAreArmed ==
    ASSUME "thread" \notin Failures
    PROVE  Spec => []TimeoutArmed
<1>1. Init => TimeoutArmed
    BY DEF Init, TimeoutArmed
<1>2. ScanInv /\ TimeoutArmed /\ [Next]_vars => TimeoutArmed'
    BY ArmedStep
<1> QED
    BY <1>1, <1>2, ScanInvariant, PTL DEF Spec

-----------------------------------------------------------------------------
(* The threads that wait for the end of a scan.                             *)

\* The adapter is not closed under a thread that waits.
StaysOpen == "close" \notin Calls => valid

LEMMA OpenStep ==
    ASSUME LockInv, StaysOpen, [Next]_vars
    PROVE  StaysOpen'
<1> SUFFICES ASSUME "close" \notin Calls, valid PROVE valid'
    BY DEF StaysOpen
<1>1. CASE UNCHANGED vars
    BY <1>1 DEF vars
<1>2. CASE \/ QuietForm \/ EnableForm \/ EnableFailsForm \/ DisableForm \/ CloseForm \/ TimeoutForm
    BY <1>2 DEF QuietForm, KeepsScan, EnableForm, EnableFailsForm, DisableForm, CloseForm, TimeoutForm
<1>3. CASE TimeoutSignal \/ \E p \in Procs : DisableSignal(p)
    BY <1>3 DEF TimeoutSignal, DisableSignal
<1>4. CASE \E l \in Loops : LoopStart(l)
    BY <1>4 DEF LoopStart
<1> QED
    BY <1>1, <1>2, <1>3, <1>4, ScanForms

LEMMA WokenStep ==
    ASSUME Failures \subseteq {"stop"}, "close" \notin Calls,
           LockInv, StaysOpen, WaitersWillBeWoken, [Next]_vars
    PROVE  WaitersWillBeWoken'
<1>1. /\ valid /\ pc \in [Procs -> Pc] /\ Loops \subseteq Procs
      /\ Loops \cap Apps = {} /\ MainLoop \notin Loops
    BY ScanAssumption, ProcsDistinct DEF LockInv, TypeOK, StaysOpen
<1>2. valid'
    BY OpenStep DEF StaysOpen
<1> SUFFICES ASSUME NEW p \in Procs, pc'[p] = "waiting"
             PROVE  is_scanning' \/ \E q \in Procs : pc'[q] \in {"signal", "start"}
    BY <1>2 DEF WaitersWillBeWoken
<1>3. pc[p] = "waiting" => is_scanning \/ \E q \in Procs : pc[q] \in {"signal", "start"}
    BY DEF WaitersWillBeWoken
<1>4. CASE UNCHANGED vars
    BY <1>3, <1>4 DEF vars, scan
<1>5. CASE QuietForm
    BY <1>1, <1>3, <1>5 DEF QuietForm, KeepsScan
<1>6. CASE EnableForm
    BY <1>1, <1>6 DEF EnableForm
<1>7. CASE EnableFailsForm \/ CloseForm
    BY <1>7 DEF EnableFailsForm, CloseForm
<1>8. CASE DisableForm
    BY <1>1, <1>8 DEF DisableForm
<1>9. CASE TimeoutForm
    BY <1>1, <1>3, <1>9 DEF TimeoutForm
<1>10. CASE TimeoutSignal \/ \E q \in Procs : DisableSignal(q)
    BY <1>10, SignalMoves
<1>11. CASE \E l \in Loops : LoopStart(l)
    BY <1>1, <1>11 DEF LoopStart
<1> QED
    BY <1>4, <1>5, <1>6, <1>7, <1>8, <1>9, <1>10, <1>11, ScanForms

\* Nobody sleeps through the end of a scan, however the starts and the stops
\* interleave, when every start succeeds and the adapter is not closed.
THEOREM WaitersAreWoken ==
    ASSUME Failures \subseteq {"stop"}, "close" \notin Calls
    PROVE  Spec => []WaitersWillBeWoken
<1>1. Init => WaitersWillBeWoken /\ StaysOpen
    BY DEF Init, WaitersWillBeWoken, StaysOpen
<1>2. LockInv /\ StaysOpen /\ [Next]_vars => StaysOpen'
    BY OpenStep
<1>3. LockInv /\ StaysOpen /\ WaitersWillBeWoken /\ [Next]_vars => WaitersWillBeWoken'
    BY WokenStep
<1> QED
    BY <1>1, <1>2, <1>3, LockInvariant, PTL DEF Spec
=============================================================================
