------------------------------ MODULE ScanLoop ------------------------------
(***************************************************************************)
(* The scan of an adapter: dbus/gattlib_adapter.c, lines 302-743.          *)
(*                                                                         *)
(* A scan is started by an application thread, which may block until it    *)
(* ends, watched by a thread of its own (_ble_scan_loop_thread), and ended *)
(* by a timeout of the main loop or by gattlib_adapter_scan_disable.  They *)
(* share the flag is_scanning, protected by m_gattlib_mutex, and a         *)
(* condition variable, protected by the mutex of m_gattlib_signal.  The    *)
(* two mutexes are modelled one acquisition at a time.                     *)
(*                                                                         *)
(* One adapter is followed, from its opening to the free of its memory.    *)
(* The object manager's signals and the devices are in GattlibDevice.      *)
(***************************************************************************)
EXTENDS Integers, FiniteSets

CONSTANTS
    Apps,       \* threads of the application
    Loops,      \* the scan loop threads that may be created, one per scan
    MainLoop,   \* the thread of the GLib main loop
    Calls,      \* the functions the application calls in this instance
    Timeouts,   \* whether the scans of this instance have a timeout (TRUE)
    Failures,   \* calls that may fail in this instance; "stop" also covers a cached
                \* property Discovering that is behind that of BlueZ
    Spurious,   \* TRUE: g_cond_wait may return without a broadcast
    Nobody, NoTimer

CallKinds == {"blocking", "non_blocking", "disable", "wait", "close"}

FailureKinds == {"start", "stop", "thread"}

ASSUME ScanAssumption ==
    /\ Calls \subseteq CallKinds
    /\ Timeouts \subseteq BOOLEAN
    /\ Failures \subseteq FailureKinds
    /\ Spurious \in BOOLEAN
    /\ Apps \cap Loops = {}
    /\ MainLoop \notin Apps \cup Loops
    /\ Nobody \notin Apps \cup Loops \cup {MainLoop}
    /\ NoTimer \notin Loops

VARIABLES
    gattlib_mutex,     \* the owner of m_gattlib_mutex
    signal_mutex,      \* the owner of m_gattlib_signal.mutex
    valid,             \* the adapter is in m_adapter_list
    is_scanning,       \* ble_scan.is_scanning
    ble_scan_timeout,  \* ble_scan.ble_scan_timeout is positive
    timeout_id,        \* ble_scan.ble_scan_timeout_id: the loop that armed it
    timers,            \* the sources of _stop_scan_on_timeout in the main loop
    firing,            \* the source the main loop is dispatching
    discovering,       \* the property Discovering of the BlueZ adapter
    handler,           \* discovered_device_callback is set
    pc,                \* where each thread is
    after              \* where a thread goes after its wait or its broadcast

locks == <<gattlib_mutex, signal_mutex>>
scan  == <<is_scanning, ble_scan_timeout, timeout_id, handler>>
vars  == <<locks, valid, scan, timers, firing, discovering, pc, after>>

Procs == Apps \cup Loops \cup {MainLoop}

\* "signal": owns m_gattlib_mutex and is about to take m_gattlib_signal.mutex;
\* "wait_check": owns m_gattlib_signal.mutex and is about to call
\* gattlib_adapter_is_scanning; "ref": owns m_gattlib_mutex and evaluates
\* g_thread_ref(scan_loop_thread), beyond which the program is not followed.
Pc == {"none", "idle", "start", "wait_lock", "wait_check", "waiting", "end",
       "timeout", "signal", "ref", "done"}

Init ==
    /\ gattlib_mutex = Nobody
    /\ signal_mutex = Nobody
    /\ valid = TRUE
    /\ is_scanning = FALSE
    /\ ble_scan_timeout = FALSE
    /\ timeout_id = NoTimer
    /\ timers = {}
    /\ firing = NoTimer
    /\ discovering = FALSE
    /\ handler = FALSE
    /\ pc = [p \in Procs |-> IF p \in Loops THEN "none" ELSE "idle"]
    /\ after = [p \in Procs |-> "idle"]

-----------------------------------------------------------------------------
(* Waiting for the end of a scan: _wait_scan_loop_stop_scanning, and the    *)
(* same loop inside gattlib_adapter_scan_enable_with_filter.                *)

\* g_mutex_lock, at the start of the wait and when g_cond_wait returns.
WaitLock(p) ==
    /\ pc[p] = "wait_lock"
    /\ signal_mutex = Nobody
    /\ signal_mutex' = p
    /\ pc' = [pc EXCEPT ![p] = "wait_check"]
    /\ UNCHANGED <<gattlib_mutex, valid, scan, timers, firing, discovering, after>>

\* gattlib_adapter_is_scanning takes m_gattlib_mutex while the caller owns the
\* mutex of the condition.  g_cond_wait releases the latter.
WaitCheck(p) ==
    /\ pc[p] = "wait_check"
    /\ gattlib_mutex = Nobody
    /\ signal_mutex' = Nobody
    /\ pc' = [pc EXCEPT ![p] = IF valid /\ is_scanning THEN "waiting" ELSE after[p]]
    /\ UNCHANGED <<gattlib_mutex, valid, scan, timers, firing, discovering, after>>

\* Faulty wait that tests the flag once instead of in a loop.
WakeWithoutRecheck(p) ==
    /\ Spurious
    /\ pc[p] = "waiting"
    /\ pc' = [pc EXCEPT ![p] = after[p]]
    /\ UNCHANGED <<locks, valid, scan, timers, firing, discovering, after>>

\* g_cond_wait may return although nobody signalled the condition.
WakeSpuriously(p) ==
    /\ Spurious
    /\ pc[p] = "waiting"
    /\ pc' = [pc EXCEPT ![p] = "wait_lock"]
    /\ UNCHANGED <<locks, valid, scan, timers, firing, discovering, after>>

\* Faulty broadcast that wakes nobody.
SilentBroadcast(p, next) == [pc EXCEPT ![p] = next]

\* g_cond_broadcast by p, which goes on at 'next'.
Broadcast(p, next) ==
    [q \in Procs |-> IF q = p THEN next
                     ELSE IF pc[q] = "waiting" THEN "wait_lock" ELSE pc[q]]

-----------------------------------------------------------------------------
(* gattlib_adapter_scan_disable.                                            *)

\* The owner of the recursive m_gattlib_mutex when p returns from the call: the
\* function that closes an adapter owns it once more, the others do not.
OwnerAt(p, next) == IF next = "ref" THEN p ELSE Nobody

\* Faulty disable that leaves the flag to the scan loop thread.
DisableKeepsScanning(p, next) ==
    /\ gattlib_mutex = Nobody
    /\ discovering /\ is_scanning
    /\ discovering' = FALSE
    /\ handler' = FALSE
    /\ gattlib_mutex' = p
    /\ pc' = [pc EXCEPT ![p] = "signal"]
    /\ after' = [after EXCEPT ![p] = next]
    /\ UNCHANGED <<signal_mutex, valid, is_scanning, ble_scan_timeout, timeout_id, timers, firing>>

\* The call up to the lock of m_gattlib_signal.mutex, by p, which goes on at
\* 'next'.  StopDiscovery may fail because BlueZ does not discover, which ends
\* the call, or for another reason, which is ignored.  The property Discovering
\* that is tested is a copy in the proxy of the adapter, updated when the main
\* loop runs: one that is still FALSE ends the call too, one that is still TRUE
\* leads to the first of these failures.
gattlib_adapter_scan_disable(p, next) ==
    /\ gattlib_mutex = Nobody
    /\ \/ /\ ~(discovering /\ is_scanning) \/ "stop" \in Failures
          /\ pc' = [pc EXCEPT ![p] = next]
          /\ gattlib_mutex' = OwnerAt(p, next)
          /\ UNCHANGED <<is_scanning, handler, discovering, after>>
       \/ /\ discovering /\ is_scanning
          /\ discovering' \in IF "stop" \in Failures THEN BOOLEAN ELSE {FALSE}
          /\ handler' = FALSE
          /\ is_scanning' = FALSE
          /\ gattlib_mutex' = p
          /\ pc' = [pc EXCEPT ![p] = "signal"]
          /\ after' = [after EXCEPT ![p] = next]
    /\ UNCHANGED <<signal_mutex, valid, ble_scan_timeout, timeout_id, timers, firing>>

\* The broadcast, then g_source_remove of the timeout.
DisableSignal(p) ==
    /\ p # MainLoop
    /\ pc[p] = "signal"
    /\ signal_mutex = Nobody
    /\ pc' = Broadcast(p, after[p])
    /\ timers' = timers \ {timeout_id}
    /\ timeout_id' = NoTimer
    /\ gattlib_mutex' = OwnerAt(p, after[p])
    /\ UNCHANGED <<signal_mutex, valid, is_scanning, ble_scan_timeout, handler, firing, discovering, after>>

-----------------------------------------------------------------------------
(* The application.                                                        *)

\* gattlib_adapter_scan_enable_with_filter (blocking) and its non-blocking form:
\* the structure ble_scan is cleared whatever it holds, StartDiscovery is
\* called, then the thread is created.
ScanEnable(u, blocking, timeout) ==
    /\ pc[u] = "idle"
    /\ gattlib_mutex = Nobody
    /\ valid
    /\ ble_scan_timeout' = timeout
    /\ timeout_id' = NoTimer
    /\ handler' = TRUE
    /\ \/ /\ "start" \in Failures
          /\ is_scanning' = FALSE
          /\ UNCHANGED <<discovering, pc, after>>
       \/ /\ "thread" \in Failures
          /\ is_scanning' = blocking
          /\ discovering' = TRUE
          /\ UNCHANGED <<pc, after>>
       \/ /\ is_scanning' = blocking
          /\ discovering' = TRUE
          /\ \E l \in Loops :
                /\ pc[l] = "none"
                /\ pc' = [pc EXCEPT ![l] = "start", ![u] = IF blocking THEN "wait_lock" ELSE "idle"]
                /\ after' = [after EXCEPT ![u] = IF blocking THEN "end" ELSE @]
    /\ UNCHANGED <<locks, valid, timers, firing>>

\* The end of a blocking scan: m_gattlib_mutex is taken again to return.
EnableReturn(u) ==
    /\ pc[u] = "end"
    /\ gattlib_mutex = Nobody
    /\ pc' = [pc EXCEPT ![u] = "idle"]
    /\ UNCHANGED <<locks, valid, scan, timers, firing, discovering, after>>

\* A call of gattlib_adapter_scan_disable.
ScanDisable(u) ==
    /\ pc[u] = "idle"
    /\ valid
    /\ gattlib_adapter_scan_disable(u, "idle")

\* gattlib_adapter_wait_scan_stopped
WaitScanStopped(u) ==
    /\ pc[u] = "idle"
    /\ pc' = [pc EXCEPT ![u] = "wait_lock"]
    /\ after' = [after EXCEPT ![u] = "idle"]
    /\ UNCHANGED <<locks, valid, scan, timers, firing, discovering>>

\* gattlib_adapter_close, by the last user of the adapter.  While it scans,
\* the scan is disabled and a reference to its thread is taken.
AdapterClose(u) ==
    /\ pc[u] = "idle"
    /\ gattlib_mutex = Nobody
    /\ valid
    /\ \/ /\ ~is_scanning
          /\ valid' = FALSE
          /\ UNCHANGED <<locks, scan, timers, firing, discovering, pc, after>>
       \/ /\ is_scanning
          /\ gattlib_adapter_scan_disable(u, "ref")

-----------------------------------------------------------------------------
(* _ble_scan_loop_thread                                                   *)

\* First critical section: the flag is set again and the timeout armed.
LoopStart(l) ==
    /\ pc[l] = "start"
    /\ gattlib_mutex = Nobody
    /\ \/ /\ ~valid
          /\ pc' = [pc EXCEPT ![l] = "done"]
          /\ UNCHANGED <<is_scanning, timers, timeout_id, after>>
       \/ /\ valid
          /\ is_scanning' = TRUE
          /\ IF ble_scan_timeout
             THEN timers' = timers \cup {l} /\ timeout_id' = l
             ELSE UNCHANGED <<timers, timeout_id>>
          /\ pc' = [pc EXCEPT ![l] = "wait_lock"]
          /\ after' = [after EXCEPT ![l] = "end"]
    /\ UNCHANGED <<locks, valid, ble_scan_timeout, handler, firing, discovering>>

\* Last critical section: whatever ended the wait, the scan is disabled.
LoopEnd(l) ==
    /\ pc[l] = "end"
    /\ \/ /\ valid
          /\ gattlib_adapter_scan_disable(l, "done")
       \/ /\ ~valid
          /\ gattlib_mutex = Nobody
          /\ pc' = [pc EXCEPT ![l] = "done"]
          /\ UNCHANGED <<locks, valid, scan, timers, firing, discovering, after>>

-----------------------------------------------------------------------------
(* _stop_scan_on_timeout, in the main loop                                 *)

\* The main loop dispatches a timeout.
TimerExpires ==
    /\ pc[MainLoop] = "idle"
    /\ firing' \in timers
    /\ pc' = [pc EXCEPT ![MainLoop] = "timeout"]
    /\ UNCHANGED <<locks, valid, scan, timers, discovering, after>>

\* Faulty timeout whose early return does not release the mutex.
TimeoutKeepsMutex ==
    /\ pc[MainLoop] = "timeout"
    /\ gattlib_mutex = Nobody
    /\ gattlib_mutex' = MainLoop
    /\ \/ /\ valid /\ is_scanning
          /\ pc' = [pc EXCEPT ![MainLoop] = "signal"]
          /\ UNCHANGED <<timers, firing>>
       \/ /\ ~(valid /\ is_scanning)
          /\ pc' = [pc EXCEPT ![MainLoop] = "idle"]
          /\ timers' = timers \ {firing}
          /\ firing' = NoTimer
    /\ UNCHANGED <<signal_mutex, valid, scan, discovering, after>>

\* The callback up to the lock of m_gattlib_signal.mutex; returning FALSE
\* destroys the source.
Timeout ==
    /\ pc[MainLoop] = "timeout"
    /\ gattlib_mutex = Nobody
    /\ \/ /\ valid /\ is_scanning
          /\ gattlib_mutex' = MainLoop
          /\ pc' = [pc EXCEPT ![MainLoop] = "signal"]
          /\ UNCHANGED <<timers, firing, timeout_id>>
       \/ /\ ~(valid /\ is_scanning)
          /\ timeout_id' = IF valid THEN NoTimer ELSE timeout_id
          /\ pc' = [pc EXCEPT ![MainLoop] = "idle"]
          /\ timers' = timers \ {firing}
          /\ firing' = NoTimer
          /\ UNCHANGED gattlib_mutex
    /\ UNCHANGED <<signal_mutex, valid, is_scanning, ble_scan_timeout, handler, discovering, after>>

\* Faulty timeout that keeps its id in the adapter.
TimeoutSignalKeepsId ==
    /\ pc[MainLoop] = "signal"
    /\ signal_mutex = Nobody
    /\ is_scanning' = FALSE
    /\ pc' = Broadcast(MainLoop, "idle")
    /\ timers' = timers \ {firing}
    /\ firing' = NoTimer
    /\ gattlib_mutex' = Nobody
    /\ UNCHANGED <<signal_mutex, valid, timeout_id, ble_scan_timeout, handler, discovering, after>>

\* The flag is cleared and the waiting threads are woken; neither BlueZ nor the
\* discovery callback is told.
TimeoutSignal ==
    /\ pc[MainLoop] = "signal"
    /\ signal_mutex = Nobody
    /\ is_scanning' = FALSE
    /\ timeout_id' = NoTimer
    /\ pc' = Broadcast(MainLoop, "idle")
    /\ timers' = timers \ {firing}
    /\ firing' = NoTimer
    /\ gattlib_mutex' = Nobody
    /\ UNCHANGED <<signal_mutex, valid, ble_scan_timeout, handler, discovering, after>>

-----------------------------------------------------------------------------
AppNext ==
    \E u \in Apps :
        \/ "blocking" \in Calls /\ \E timeout \in Timeouts : ScanEnable(u, TRUE, timeout)
        \/ "non_blocking" \in Calls /\ \E timeout \in Timeouts : ScanEnable(u, FALSE, timeout)
        \/ "disable" \in Calls /\ ScanDisable(u)
        \/ "wait" \in Calls /\ WaitScanStopped(u)
        \/ "close" \in Calls /\ AdapterClose(u)
        \/ EnableReturn(u)

WaitNext ==
    \E p \in Procs : \/ WaitLock(p)
                     \/ WaitCheck(p)
                     \/ WakeSpuriously(p)
                     \/ DisableSignal(p)

LoopNext == \E l \in Loops : LoopStart(l) \/ LoopEnd(l)

MainNext == TimerExpires \/ Timeout \/ TimeoutSignal

Next == AppNext \/ WaitNext \/ LoopNext \/ MainNext

Spec == Init /\ [][Next]_vars

-----------------------------------------------------------------------------
(* Properties.                                                             *)

\* Types, and the discipline of the two mutexes: m_gattlib_mutex is owned
\* across an action only by the thread that is about to broadcast or closes a
\* scanning adapter, and m_gattlib_signal.mutex by the one that is about to
\* read is_scanning; both are released on every path.
TypeOK ==
    /\ gattlib_mutex \in Procs \cup {Nobody}
    /\ signal_mutex \in Procs \cup {Nobody}
    /\ valid \in BOOLEAN
    /\ is_scanning \in BOOLEAN
    /\ ble_scan_timeout \in BOOLEAN
    /\ timeout_id \in Loops \cup {NoTimer}
    /\ timers \subseteq Loops
    /\ firing \in Loops \cup {NoTimer}
    /\ discovering \in BOOLEAN
    /\ handler \in BOOLEAN
    /\ pc \in [Procs -> Pc]
    /\ after \in [Procs -> Pc]
    /\ \A p \in Procs : pc[p] \in {"signal", "ref"} <=> gattlib_mutex = p
    /\ \A p \in Procs : pc[p] = "wait_check" <=> signal_mutex = p

\* Nobody sleeps through the end of a scan: when a thread waits on the
\* condition, the scan goes on or a broadcast is on its way, however the starts
\* and stops of several scans interleave.
WaitersWillBeWoken ==
    (\E p \in Procs : pc[p] = "waiting") =>
        \/ valid /\ is_scanning
        \/ \E q \in Procs : pc[q] \in {"signal", "start"}

\* A scan in progress has a loop thread that has not yet decided to leave: the
\* object manager's signals of a scan are disconnected in the end, even when
\* the thread of an earlier scan is still there.
ScanIsWatched ==
    valid /\ is_scanning =>
        \E l \in Loops : pc[l] \in {"start", "wait_lock", "wait_check", "waiting"}

\* Every scan with a timeout will be stopped by one: no sequence of disables,
\* restarts and late timeouts leaves a scan in progress that nothing will end.
TimeoutArmed ==
    valid /\ is_scanning /\ Timeouts = {TRUE} =>
        timers # {} \/ \E l \in Loops : pc[l] = "start"

\* ble_scan_timeout_id is 0 or the id of an existing source, possibly the one
\* being dispatched: g_source_remove is never called on a source that is gone.
TimeoutIdLive == valid /\ timeout_id # NoTimer => timeout_id \in timers

-----------------------------------------------------------------------------
(* Liveness: threads are scheduled, the main loop runs and dispatches its   *)
(* timeouts.  A thread keeps m_gattlib_mutex or the mutex of the signal for *)
(* one step, so that weak fairness gives each to the threads that ask.      *)

\* One thread owns m_gattlib_mutex and wants that of the signal, another owns
\* that of the signal and wants m_gattlib_mutex.
LockInversion ==
    \E p, q \in Procs : pc[p] = "signal" /\ pc[q] = "wait_check"

ProcStep(p) ==
    \/ WaitLock(p) \/ WaitCheck(p) \/ DisableSignal(p)
    \/ p \in Loops /\ (LoopStart(p) \/ LoopEnd(p))
    \/ p \in Apps /\ EnableReturn(p)

FairSpec ==
    /\ Spec
    /\ \A p \in Procs : WF_vars(ProcStep(p))
    /\ WF_vars(MainNext)


-----------------------------------------------------------------------------
(* What the repository says of scans and the code does not do.             *)

\* dbus/gattlib_adapter.c, gattlib_adapter_wait_scan_stopped: waiting for the
\* end of a scan is free of races; the two mutexes cannot block each other.
NoLockInversion == ~LockInversion

\* dbus/gattlib_adapter.c, _ble_scan_loop_thread: the discovery is stopped when
\* the thread of the scan ends.
DiscoveryStopped ==
    [][\A l \in Loops : valid /\ pc[l] = "end" /\ pc'[l] = "done" => ~discovering']_vars

\* include/gattlib.h, gattlib_adapter_scan_enable_with_filter: a scan that was
\* disabled is over; only the application starts another one.
DisabledScanStaysOff ==
    [][\A l \in Loops : pc[l] = "start" /\ pc'[l] = "wait_lock" => is_scanning]_vars

\* include/gattlib.h, gattlib_adapter_scan_enable_with_filter: a scan lasts
\* until its timeout or a call to gattlib_adapter_scan_disable, and is not
\* ended by the loop thread of an earlier scan.
EndedByTimeoutOrDisable ==
    [][\A l \in Loops : pc[l] = "end" /\ pc'[l] = "signal" => ~is_scanning]_vars

\* dbus/gattlib_adapter.c, gattlib_adapter_close: a scan that is stopped by the
\* close has a thread to take a reference to; scan_loop_thread was reset to
\* NULL in the critical section that created the thread.
CloseFindsThread == \A u \in Apps : pc[u] # "ref"

=============================================================================
