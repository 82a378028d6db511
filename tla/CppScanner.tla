----------------------------- MODULE CppScanner -----------------------------
(***************************************************************************)
(* The C++ scanner: cpp/src/gattlib_scanner_impl.cpp.                      *)
(*                                                                         *)
(* scan() allocates a context, starts a monitor thread that looks for an   *)
(* abort, blocks in the library's scan, waits for the state of the context *)
(* and shuts down, which deletes the context.  abort() and the destructor  *)
(* come from other threads, discoveries from threads of the library, which *)
(* are handed the context as user_data.  What they share is m_scanning and *)
(* m_abort, atomic, and the context, whose mutex protects each access to   *)
(* its state but not its life.                                             *)
(*                                                                         *)
(* The library is reduced to what the scanner sees of it; ScanLoop and     *)
(* GattlibDevice have its own state.  An access to a deleted context is    *)
(* undefined: here it changes nothing, or the context that has been        *)
(* allocated in the same place since.                                      *)
(***************************************************************************)
EXTENDS Integers, FiniteSets

CONSTANTS
    Scanners,   \* the threads that call scan()
    Aborters,   \* the threads that call abort() or the destructor
    Threads,    \* the library's threads of the discovery callback
    Contexts,   \* memory places of the ScanContexts
    OwnLoop,    \* TRUE: constructed with its own loop manager
    Failures,   \* what may fail in this instance
    NoContext, Nobody

FailureKinds == {"enable", "start_discovery", "scan_thread"}

ASSUME ScannerAssumption ==
    /\ OwnLoop \in BOOLEAN
    /\ Failures \subseteq FailureKinds
    /\ NoContext \notin Contexts
    /\ Nobody \notin Scanners

VARIABLES
    m_scanning,
    m_abort,
    m_shutdownMutex,
    destroyed,    \* the destructor has returned from abort()
    context,      \* the contexts, allocated or not
    scan,         \* what each thread is doing in scan()
    monitor,      \* the monitor of its scan
    aborting,     \* the threads inside abort()
    overwritten,  \* history: a device matched during the shutdown of its scan
    loopRunning,  \* the main loop that the library needs is running
    library,      \* the scan of the adapter
    thread        \* the threads of the discovery callback

scanner == <<m_scanning, m_abort, m_shutdownMutex, destroyed>>
external == <<loopRunning, library, thread>>
vars == <<scanner, context, scan, monitor, aborting, overwritten, external>>

ScanState == {"SCANNING", "FAILED", "SUCCEEDED", "ABORTED", "SHUTTING_DOWN"}

\* enum ScanState, and "deleted" for a place that holds no context.
ContextState == ScanState \cup {"deleted"}

Final == {"FAILED", "SUCCEEDED", "ABORTED"}

ScanPc == {"idle", "checked", "set", "enable", "library", "failed", "wait",
           "shutdown", "disable", "stopping", "cleanup", "reset", "unlock",
           "unwind", "return"}

\* 'catching': in the handler of an exception; 'found' and 'asked', history: a
\* device that matches was reported to this scan, abort() was called during it.
ScanRecord == [pc : ScanPc, context : Contexts \cup {NoContext}, catching : BOOLEAN,
               found : BOOLEAN, asked : BOOLEAN,
               code : {"none", "SUCCESS", "TIMEOUT", "UNEXPECTED", "DEVICE_ERROR", "ERROR", "thrown"}]

\* Between the store of SHUTTING_DOWN and the test of cleanup().
ShuttingDown == {"disable", "stopping", "cleanup"}

IdleScan == [pc |-> "idle", context |-> NoContext, catching |-> FALSE,
             found |-> FALSE, asked |-> FALSE, code |-> "none"]

\* "poll": about to read m_scanning; "check": m_abort; "lock": to lock the context.
MonitorPc == {"done", "poll", "check", "lock"}

\* The library's scan: in progress or not, the callback it holds with its
\* user_data, and its signals: those a loop thread watches, to disconnect them,
\* and those left attached by a scan that failed to start.
LibraryRecord == [scanning : BOOLEAN, handler : BOOLEAN,
                  user_data : Contexts \cup {NoContext}, watched : BOOLEAN, left : BOOLEAN]

Init ==
    /\ m_scanning = FALSE
    /\ m_abort = FALSE
    /\ m_shutdownMutex = Nobody
    /\ destroyed = FALSE
    /\ context = [c \in Contexts |-> "deleted"]
    /\ scan = [u \in Scanners |-> IdleScan]
    /\ monitor = [u \in Scanners |-> "done"]
    /\ aborting = [v \in Aborters |-> "no"]
    /\ overwritten = FALSE
    /\ loopRunning = TRUE
    /\ library = [scanning |-> FALSE, handler |-> FALSE, user_data |-> NoContext, watched |-> FALSE, left |-> FALSE]
    /\ thread = [t \in Threads |-> "none"]

-----------------------------------------------------------------------------
At(u, pc) == scan[u].pc = pc

GoTo(u, pc) == scan' = [scan EXCEPT ![u].pc = pc]

\* Storing a state in a context, which may have been deleted.
Store(c, state) ==
    context' = IF context[c] = "deleted" THEN context ELSE [context EXCEPT ![c] = state]

\* The end of scan(); an exception that leaves it loses the code.
Leave(u, code) == scan' = [scan EXCEPT ![u] = [IdleScan EXCEPT !.code = code]]

\* What follows the call of shutdown(): the handler throws again.
AfterShutdown(u) == IF scan[u].catching THEN Leave(u, "thrown") ELSE GoTo(u, "return")

\* An exception inside scan(): from the try block the stack is unwound, which
\* waits for the monitor, from the handler it leaves the function.
Throw(u) == IF scan[u].catching THEN Leave(u, "thrown") ELSE GoTo(u, "unwind")

-----------------------------------------------------------------------------
(* scan()                                                                   *)

\* Otherwise the call returns GATTLIB_BUSY and changes nothing.  The application
\* does not call scan() once the destructor has begun.
ScanCheck(u) ==
    /\ At(u, "idle")
    /\ ~destroyed
    /\ \A v \in Aborters : aborting[v] # "destructor"
    /\ ~m_scanning
    /\ scan' = [scan EXCEPT ![u] = [IdleScan EXCEPT !.pc = "checked"]]
    /\ UNCHANGED <<scanner, context, monitor, aborting, overwritten, external>>

\* The context is allocated and the monitor started, before m_scanning is set.
ScanBegin(u) ==
    /\ At(u, "checked")
    /\ \E c \in Contexts :
          /\ context[c] = "deleted"
          /\ context' = [context EXCEPT ![c] = "SCANNING"]
          /\ scan' = [scan EXCEPT ![u].pc = "set", ![u].context = c]
    /\ monitor' = [monitor EXCEPT ![u] = "poll"]
    /\ UNCHANGED <<scanner, aborting, overwritten, external>>

ScanSet(u) ==
    /\ At(u, "set")
    /\ m_scanning' = TRUE
    /\ GoTo(u, "enable")
    /\ UNCHANGED <<m_abort, m_shutdownMutex, destroyed, context, monitor, aborting, overwritten, external>>

\* gattlib_adapter_scan_enable up to its wait, or its failure: before anything
\* is changed, when StartDiscovery fails, with the callback in place, or when
\* the thread that would end the scan cannot be created.
ScanEnable(u) ==
    LET attached == [library EXCEPT !.handler = TRUE, !.user_data = scan[u].context] IN
    /\ At(u, "enable")
    /\ \/ /\ library' = [attached EXCEPT !.scanning = TRUE, !.watched = TRUE]
          /\ GoTo(u, "library")
       \/ /\ "start_discovery" \in Failures
          /\ library' = [attached EXCEPT !.scanning = FALSE, !.left = TRUE]
          /\ GoTo(u, "failed")
       \/ /\ "scan_thread" \in Failures
          /\ library' = [attached EXCEPT !.scanning = TRUE, !.left = TRUE]
          /\ GoTo(u, "failed")
       \/ /\ "enable" \in Failures
          /\ GoTo(u, "failed")
          /\ UNCHANGED library
    /\ UNCHANGED <<scanner, context, monitor, aborting, overwritten, loopRunning, thread>>

ScanFailed(u) ==
    /\ At(u, "failed")
    /\ Store(scan[u].context, "FAILED")
    /\ scan' = [scan EXCEPT ![u].pc = "shutdown", ![u].code = "ERROR"]
    /\ UNCHANGED <<scanner, monitor, aborting, overwritten, external>>

\* The library's call returns once its scan has ended.
ScanReturned(u) ==
    /\ At(u, "library")
    /\ ~library.scanning
    /\ GoTo(u, "wait")
    /\ UNCHANGED <<scanner, context, monitor, aborting, overwritten, external>>

\* Faulty end of the wait that answers the state itself instead of a code.
ScanWaitReturnsState(u) ==
    /\ At(u, "wait")
    /\ scan' = [scan EXCEPT ![u].pc = "shutdown", ![u].code = context[scan[u].context]]
    /\ UNCHANGED <<scanner, context, monitor, aborting, overwritten, external>>

\* wait_for, with a timeout of its own.
ScanWait(u) ==
    LET state == context[scan[u].context] IN
    /\ At(u, "wait")
    /\ scan' = [scan EXCEPT ![u].pc = "shutdown",
                            ![u].code = CASE state = "SUCCEEDED" -> "SUCCESS"
                                          [] state = "ABORTED"   -> "UNEXPECTED"
                                          [] state = "FAILED"    -> "DEVICE_ERROR"
                                          [] OTHER               -> "TIMEOUT"]
    /\ UNCHANGED <<scanner, context, monitor, aborting, overwritten, external>>

\* The monitor's future is waited for at the end of the try block.
ScanReturn(u) ==
    /\ At(u, "return")
    /\ monitor[u] = "done"
    /\ Leave(u, scan[u].code)
    /\ UNCHANGED <<scanner, context, monitor, aborting, overwritten, external>>

\* So is it when an exception unwinds the stack, before the handler runs.
ScanCatch(u) ==
    /\ At(u, "unwind")
    /\ monitor[u] = "done"
    /\ scan' = [scan EXCEPT ![u].pc = "shutdown", ![u].catching = TRUE]
    /\ UNCHANGED <<scanner, context, monitor, aborting, overwritten, external>>

-----------------------------------------------------------------------------
(* shutdown() and cleanup()                                                 *)

\* The state is tested with the mutex of the context, then stored with
\* m_shutdownMutex, which is held to the end of the call.
Shutdown(u) ==
    LET c == scan[u].context IN
    /\ At(u, "shutdown")
    /\ \/ /\ context[c] = "SHUTTING_DOWN"
          /\ AfterShutdown(u)
          /\ UNCHANGED <<context, m_shutdownMutex>>
       \/ /\ context[c] # "SHUTTING_DOWN"
          /\ m_shutdownMutex = Nobody
          /\ Store(c, "SHUTTING_DOWN")
          /\ \/ /\ m_scanning
                /\ m_shutdownMutex' = u
                /\ GoTo(u, "disable")
             \/ /\ ~m_scanning
                /\ Throw(u)
                /\ UNCHANGED m_shutdownMutex
    /\ UNCHANGED <<m_scanning, m_abort, destroyed, monitor, aborting, overwritten, external>>

\* gattlib_adapter_scan_disable skips a scan that has ended, with its callback.
ShutdownDisable(u) ==
    /\ At(u, "disable")
    /\ library' = IF library.scanning THEN [library EXCEPT !.scanning = FALSE, !.handler = FALSE]
                  ELSE library
    /\ GoTo(u, "stopping")
    /\ UNCHANGED <<scanner, context, monitor, aborting, overwritten, loopRunning, thread>>

\* gattlib_adapter_wait_scan_stopped, then the stop of the scanner's own loop.
ShutdownWait(u) ==
    /\ At(u, "stopping")
    /\ ~library.scanning
    /\ loopRunning' = (loopRunning /\ ~OwnLoop)
    /\ GoTo(u, "cleanup")
    /\ UNCHANGED <<scanner, context, monitor, aborting, overwritten, library, thread>>

\* Faulty cleanup that gives the context up instead of deleting it.
CleanupKeepsContext(u) ==
    /\ At(u, "cleanup")
    /\ GoTo(u, "reset")
    /\ UNCHANGED <<scanner, context, monitor, aborting, overwritten, external>>

\* cleanup() throws when the state was changed since, and deletes otherwise.
ShutdownCleanup(u) ==
    LET c == scan[u].context IN
    /\ At(u, "cleanup")
    /\ \/ /\ context[c] = "SHUTTING_DOWN"
          /\ context' = [context EXCEPT ![c] = "deleted"]
          /\ GoTo(u, "reset")
          /\ UNCHANGED m_shutdownMutex
       \/ /\ context[c] # "SHUTTING_DOWN"
          /\ m_shutdownMutex' = Nobody
          /\ Throw(u)
          /\ UNCHANGED context
    /\ UNCHANGED <<m_scanning, m_abort, destroyed, monitor, aborting, overwritten, external>>

\* Faulty end of the shutdown that forgets the flag.
ResetKeepsFlag(u) ==
    /\ At(u, "reset")
    /\ GoTo(u, "unlock")
    /\ UNCHANGED <<scanner, context, monitor, aborting, overwritten, external>>

ShutdownReset(u) ==
    /\ At(u, "reset")
    /\ m_scanning' = FALSE
    /\ GoTo(u, "unlock")
    /\ UNCHANGED <<m_abort, m_shutdownMutex, destroyed, context, monitor, aborting, overwritten, external>>

ShutdownUnlock(u) ==
    /\ At(u, "unlock")
    /\ m_shutdownMutex' = Nobody
    /\ AfterShutdown(u)
    /\ UNCHANGED <<m_scanning, m_abort, destroyed, context, monitor, aborting, overwritten, external>>

-----------------------------------------------------------------------------
(* The monitor of a scan                                                    *)

\* Faulty monitor that looks for an abort whatever m_scanning is.
MonitorIgnoresFlag(u) ==
    /\ monitor[u] = "poll"
    /\ monitor' = [monitor EXCEPT ![u] = "check"]
    /\ UNCHANGED <<scanner, context, scan, aborting, overwritten, external>>

MonitorPoll(u) ==
    /\ monitor[u] = "poll"
    /\ monitor' = [monitor EXCEPT ![u] = IF m_scanning THEN "check" ELSE "done"]
    /\ UNCHANGED <<scanner, context, scan, aborting, overwritten, external>>

MonitorCheck(u) ==
    /\ monitor[u] = "check"
    /\ monitor' = [monitor EXCEPT ![u] = IF m_abort THEN "lock" ELSE "poll"]
    /\ UNCHANGED <<scanner, context, scan, aborting, overwritten, external>>

MonitorAbort(u) ==
    /\ monitor[u] = "lock"
    /\ Store(scan[u].context, "ABORTED")
    /\ monitor' = [monitor EXCEPT ![u] = "done"]
    /\ UNCHANGED <<scanner, scan, aborting, overwritten, external>>

-----------------------------------------------------------------------------
(* abort() and the destructor                                               *)

\* Otherwise the call returns at once.  m_abort is never cleared.
Abort(v) ==
    /\ aborting[v] = "no"
    /\ ~destroyed
    /\ m_scanning
    /\ m_abort' = TRUE
    /\ aborting' \in {[aborting EXCEPT ![v] = kind] : kind \in {"abort", "destructor"}}
    /\ scan' = [u \in Scanners |-> IF At(u, "idle") THEN scan[u] ELSE [scan[u] EXCEPT !.asked = TRUE]]
    /\ UNCHANGED <<m_scanning, m_shutdownMutex, destroyed, context, monitor, overwritten, external>>

\* abort() polls m_scanning.
AbortReturn(v) ==
    /\ aborting[v] # "no"
    /\ ~m_scanning
    /\ destroyed' = (destroyed \/ aborting[v] = "destructor")
    /\ aborting' = [aborting EXCEPT ![v] = "no"]
    /\ UNCHANGED <<m_scanning, m_abort, m_shutdownMutex, context, scan, monitor, overwritten, external>>

\* The destructor of a scanner that is not scanning.
Destroy(v) ==
    /\ aborting[v] = "no"
    /\ ~destroyed
    /\ ~m_scanning
    /\ \A u \in Scanners : At(u, "idle")
    /\ destroyed' = TRUE
    /\ UNCHANGED <<m_scanning, m_abort, m_shutdownMutex, context, scan, monitor, aborting, overwritten, external>>

\* A scanner is constructed in its place, with the loop started; a construction
\* that fails throws and leaves no scanner.
Construct ==
    /\ destroyed
    /\ \A u \in Scanners : At(u, "idle")
    /\ \A v \in Aborters : aborting[v] = "no"
    /\ destroyed' = FALSE
    /\ m_scanning' = FALSE
    /\ m_abort' = FALSE
    /\ loopRunning' = TRUE
    /\ UNCHANGED <<m_shutdownMutex, context, scan, monitor, aborting, overwritten, library, thread>>

-----------------------------------------------------------------------------
(* The library                                                              *)

\* The timeout of its scan, dispatched by the main loop.
LibraryTimeout ==
    /\ library.scanning /\ library.watched
    /\ loopRunning
    /\ library' = [library EXCEPT !.scanning = FALSE]
    /\ UNCHANGED <<scanner, context, scan, monitor, aborting, overwritten, loopRunning, thread>>

\* The loop thread disconnects the signals of a scan that ended.
LibraryDetach ==
    /\ ~library.scanning
    /\ library.watched
    /\ library' = [library EXCEPT !.watched = FALSE]
    /\ UNCHANGED <<scanner, context, scan, monitor, aborting, overwritten, loopRunning, thread>>

\* gattlib_on_discovered_device creates a thread for each device.
Discover(t) ==
    /\ thread[t] = "none"
    /\ library.watched \/ library.left
    /\ library.handler
    /\ loopRunning
    /\ thread' = [thread EXCEPT ![t] = "start"]
    /\ UNCHANGED <<scanner, context, scan, monitor, aborting, overwritten, loopRunning, library>>

\* _gattlib_discovered_device_thread tests the callback...
DiscoverLock(t) ==
    /\ thread[t] = "start"
    /\ thread' = [thread EXCEPT ![t] = IF library.handler THEN "call" ELSE "none"]
    /\ UNCHANGED <<scanner, context, scan, monitor, aborting, overwritten, loopRunning, library>>

\* Faulty callback that takes any device for the one that was looked for.
AnyDeviceSucceeds(t) ==
    /\ thread[t] = "call"
    /\ Store(library.user_data, "SUCCEEDED")
    /\ thread' = [thread EXCEPT ![t] = "none"]
    /\ UNCHANGED <<scanner, scan, monitor, aborting, overwritten, loopRunning, library>>

\* ... and calls onScanDiscovery with the user_data of that moment.  The library
\* always gives it an adapter; a callback of the application is not followed.
OnScanDiscovery(t) ==
    LET c == library.user_data
        owners == {u \in Scanners : scan[u].context = c}
    IN  /\ thread[t] = "call"
        /\ \/ /\ Store(c, "SUCCEEDED")
              /\ scan' = [u \in Scanners |-> IF u \in owners THEN [scan[u] EXCEPT !.found = TRUE] ELSE scan[u]]
              /\ overwritten' = (overwritten \/ \E u \in owners : scan[u].pc \in ShuttingDown)
           \/ UNCHANGED <<context, scan, overwritten>>
        /\ thread' = [thread EXCEPT ![t] = "none"]
        /\ UNCHANGED <<scanner, monitor, aborting, loopRunning, library>>

-----------------------------------------------------------------------------
ScanStep(u) ==
    \/ ScanBegin(u) \/ ScanSet(u) \/ ScanEnable(u) \/ ScanFailed(u) \/ ScanReturned(u)
    \/ ScanWait(u) \/ ScanReturn(u) \/ ScanCatch(u) \/ Shutdown(u) \/ ShutdownDisable(u)
    \/ ShutdownWait(u) \/ ShutdownCleanup(u) \/ ShutdownReset(u) \/ ShutdownUnlock(u)

MonitorStep(u) == MonitorPoll(u) \/ MonitorCheck(u) \/ MonitorAbort(u)

ThreadStep(t) == DiscoverLock(t) \/ OnScanDiscovery(t)

Next ==
    \/ \E u \in Scanners : ScanCheck(u) \/ ScanStep(u) \/ MonitorStep(u)
    \/ \E v \in Aborters : Abort(v) \/ AbortReturn(v) \/ Destroy(v)
    \/ Construct
    \/ LibraryTimeout \/ LibraryDetach
    \/ \E t \in Threads : Discover(t) \/ ThreadStep(t)

Spec == Init /\ [][Next]_vars

\* Threads are scheduled, and the timeout of the library fires while its main
\* loop runs.  Nothing is assumed of the application or of the devices.
FairSpec ==
    /\ Spec
    /\ \A u \in Scanners : WF_vars(ScanStep(u)) /\ WF_vars(MonitorStep(u))
    /\ \A t \in Threads : WF_vars(ThreadStep(t))
    /\ WF_vars(LibraryTimeout)

-----------------------------------------------------------------------------
(* Properties.                                                             *)

TypeOK ==
    /\ m_scanning \in BOOLEAN
    /\ m_abort \in BOOLEAN
    /\ m_shutdownMutex \in Scanners \cup {Nobody}
    /\ destroyed \in BOOLEAN
    /\ context \in [Contexts -> ContextState]
    /\ scan \in [Scanners -> ScanRecord]
    /\ monitor \in [Scanners -> MonitorPc]
    /\ aborting \in [Aborters -> {"no", "abort", "destructor"}]
    /\ overwritten \in BOOLEAN
    /\ loopRunning \in BOOLEAN
    /\ library \in LibraryRecord
    /\ thread \in [Threads -> {"none", "start", "call"}]

\* A scan that no device has disturbed in its shutdown clears m_scanning: while
\* the flag is set a thread that will clear it is in scan().  Otherwise every
\* later scan() would answer GATTLIB_BUSY and abort() would wait for ever.
FlagHasScan ==
    m_scanning => overwritten \/ \E u \in Scanners : scan[u].pc \notin {"idle", "checked", "set", "unlock", "return"}

\* "ScanContext is owned by this function and must be deleted before returning"
\* (gattlib_scanner_impl.cpp:128), through the failures of the library and the
\* exceptions of the shutdown, unless a device has disturbed it.
NoContextLeft ==
    \A c \in Contexts : context[c] # "deleted" =>
        overwritten \/ \E u \in Scanners : scan[u].context = c /\ scan[u].pc \notin {"reset", "unlock", "return"}

\* scan() answers GATTLIB_SUCCESS only when a device that matches was reported
\* to this scan, although late threads call the callback with the user_data of
\* whichever scan there is.
FoundIfSuccess == \A u \in Scanners : scan[u].code = "SUCCESS" /\ ~At(u, "idle") => scan[u].found

\* Unless a device disturbs a shutdown, scan() returns: the main loop brings the
\* timeout, the monitor sees the flag cleared or the abort, and the wait of the
\* stack's unwinding for the monitor ends.  That the library's own scan ends with
\* its timeout is the fairness of LibraryTimeout, and the main loop must be the
\* application's: a scanner with a loop of its own (OwnLoop) stops it after its
\* first scan, and nothing ends the second.
ScanReturns == \A u \in Scanners : ~At(u, "idle") ~> At(u, "idle") \/ overwritten

-----------------------------------------------------------------------------
(* What the repository says of the scanner, which the code does not do.    *)

\* The context lives as long as a monitor or a callback may use it: "Shared flag
\* to safely stop callbacks" (gattlib_scanner_impl.hpp:227).
MonitorContextAlive ==
    \A u \in Scanners : monitor[u] = "lock" => context[scan[u].context] # "deleted"

LateCallbackContextAlive ==
    \A t \in Threads : thread[t] = "call" => context[library.user_data] # "deleted"

\* "Only abort if it's scanning otherwise it means it's shutting down"
\* (gattlib_scanner_impl.cpp:143): the monitor does not disturb the shutdown.
NoThrow == \A u \in Scanners : scan[u].code # "thrown" /\ ~scan[u].catching

\* "This method safely interrupts an ongoing scan" (gattlib_scanner.hpp:132): a
\* scan during which abort() was not called is not aborted.
AbortedWhenAsked == \A u \in Scanners : scan[u].code = "UNEXPECTED" /\ ~At(u, "idle") => scan[u].asked

\* "Cannot start a new scan while one is in progress" (ConcurrentScansTest,
\* gattlib_scan_tests.cpp:259).
OneScan == \A u, w \in Scanners : At(u, "library") /\ At(w, "library") => u = w

\* "Proper cleanup on destruction" (gattlib_scanner.hpp:35): abort(), in the
\* destructor, waits for the scan in progress.
DestroyedUnused == destroyed => \A u \in Scanners : ~At(u, "idle") => At(u, "return") /\ monitor[u] = "done"
=============================================================================
