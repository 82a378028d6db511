-------------------------- MODULE CppScannerProofs --------------------------
(***************************************************************************)
(* What CppScanner says of the C++ scanner, proved for every number of     *)
(* threads of the library, of threads that abort and of contexts.          *)
(*                                                                         *)
(* That a success was a discovery holds for any number of threads inside   *)
(* scan().  That the flag and the contexts are given back holds for one:    *)
(* m_scanning is tested before it is set, two scans that start at once     *)
(* clear the flag for each other, and the monitor of one may then abort    *)
(* the context of the other.                                               *)
(***************************************************************************)
EXTENDS CppScanner, TLAPS

-----------------------------------------------------------------------------
(* A success was a discovery.                                               *)

\* Where scan() has a context and has not yet answered.
Waiting == {"set", "enable", "library", "failed", "wait"}

\* The context holds SUCCEEDED, and scan() answers so, after a device was found.
FoundAt(u) ==
    /\ scan[u].context \in Contexts /\ context[scan[u].context] = "SUCCEEDED" => scan[u].found
    /\ scan[u].pc # "idle" /\ scan[u].code = "SUCCESS" => scan[u].found
    /\ scan[u].pc = "checked" => scan[u].code = "none"
    /\ scan[u].pc \in Waiting => scan[u].context \in Contexts

FoundInv == \A u \in Scanners : FoundAt(u)

-----------------------------------------------------------------------------
(* One thread in scan().                                                    *)

OneScanner == \E u : Scanners = {u}

\* Where scan() has set m_scanning and shutdown() has not cleared it.
Scanning == {"enable", "library", "failed", "wait", "unwind", "shutdown", "disable", "stopping",
             "cleanup", "reset"}

\* Where the context of the scan exists.
Holding == (Scanning \ {"reset"}) \cup {"set"}

FlagInv(u) ==
    /\ scan[u].pc \in Scanning => m_scanning
    /\ m_scanning => overwritten \/ scan[u].pc \in Scanning

\* SHUTTING_DOWN is what shutdown() stores, and cleanup() deletes.
ContextInv(u) ==
    /\ scan[u].pc \in {"idle", "checked"} => scan[u].context = NoContext
    /\ scan[u].pc \in Holding =>
          /\ scan[u].context \in Contexts
          /\ context[scan[u].context] # "deleted"
          /\ context[scan[u].context] = "SHUTTING_DOWN" => scan[u].pc \in ShuttingDown

\* The handler of an exception runs after the monitor, so that only a device can
\* disturb the second shutdown.
CatchInv(u) ==
    scan[u].catching =>
        /\ monitor[u] = "done"
        /\ scan[u].pc \in ShuttingDown \cup {"shutdown", "reset", "unlock"}
        /\ scan[u].pc \in ShuttingDown => overwritten \/ context[scan[u].context] = "SHUTTING_DOWN"

LeftInv(u) ==
    \A c \in Contexts : context[c] # "deleted" =>
        overwritten \/ (scan[u].context = c /\ scan[u].pc \in Holding)

ScanInv(u) == FlagInv(u) /\ ContextInv(u) /\ CatchInv(u) /\ LeftInv(u)

-----------------------------------------------------------------------------
(* Types.                                                                   *)

LEMMA IdleTyped == IdleScan \in ScanRecord
BY DEF IdleScan, ScanRecord, ScanPc

LEMMA StoreTyped ==
    ASSUME context \in [Contexts -> ContextState], NEW c, NEW state \in ContextState, Store(c, state)
    PROVE  context' \in [Contexts -> ContextState]
BY DEF Store

LEMMA GoToTyped ==
    ASSUME scan \in [Scanners -> ScanRecord], NEW u \in Scanners, NEW pc \in ScanPc, GoTo(u, pc)
    PROVE  scan' \in [Scanners -> ScanRecord]
BY DEF GoTo, ScanRecord

Codes == {"none", "SUCCESS", "TIMEOUT", "UNEXPECTED", "DEVICE_ERROR", "ERROR", "thrown"}

LEMMA LeaveTyped ==
    ASSUME scan \in [Scanners -> ScanRecord], NEW u \in Scanners, NEW code \in Codes, Leave(u, code)
    PROVE  scan' \in [Scanners -> ScanRecord]
BY DEF Leave, IdleScan, ScanRecord, ScanPc, Codes

LEMMA AfterTyped ==
    ASSUME scan \in [Scanners -> ScanRecord], NEW u \in Scanners, AfterShutdown(u) \/ Throw(u)
    PROVE  scan' \in [Scanners -> ScanRecord]
<1>1. "thrown" \in Codes /\ "return" \in ScanPc /\ "unwind" \in ScanPc
    BY DEF Codes, ScanPc
<1> QED
    BY <1>1, LeaveTyped, GoToTyped DEF AfterShutdown, Throw

LEMMA ScanTyped ==
    ASSUME TypeOK, NEW u \in Scanners, ScanCheck(u) \/ ScanStep(u)
    PROVE  TypeOK'
<1>1. /\ scan[u] \in ScanRecord
      /\ \A pc \in ScanPc : GoTo(u, pc) => scan' \in [Scanners -> ScanRecord]
      /\ {"checked", "set", "enable", "library", "failed", "wait", "shutdown", "disable", "stopping",
          "cleanup", "reset", "unlock", "return"} \subseteq ScanPc
    BY GoToTyped DEF TypeOK, ScanPc
<1> USE DEF TypeOK, scanner, external
<1>2. CASE ScanCheck(u)
    <2>1. [IdleScan EXCEPT !.pc = "checked"] \in ScanRecord
        BY DEF IdleScan, ScanRecord, ScanPc
    <2> QED
        BY <1>2, <2>1 DEF ScanCheck
<1>3. CASE ScanBegin(u)
    <2>1. scan' \in [Scanners -> ScanRecord]
        <3>1. PICK c \in Contexts : scan' = [scan EXCEPT ![u].pc = "set", ![u].context = c]
            BY <1>3 DEF ScanBegin
        <3>2. [scan[u] EXCEPT !.pc = "set", !.context = c] \in ScanRecord
            BY <1>1 DEF ScanRecord
        <3>3. scan' = [scan EXCEPT ![u] = [scan[u] EXCEPT !.pc = "set", !.context = c]]
            BY <3>1
        <3> QED
            BY <3>2, <3>3
    <2>2. context' \in [Contexts -> ContextState] /\ monitor' \in [Scanners -> MonitorPc]
        BY <1>3 DEF ScanBegin, ContextState, ScanState, MonitorPc
    <2> QED
        BY <1>3, <2>1, <2>2 DEF ScanBegin
<1>4. CASE ScanSet(u)
    BY <1>1, <1>4 DEF ScanSet
<1>5. CASE ScanEnable(u)
    <2>1. library' \in LibraryRecord
        BY <1>1, <1>5 DEF ScanEnable, LibraryRecord, ScanRecord
    <2>2. scan' \in [Scanners -> ScanRecord]
        BY <1>1, <1>5 DEF ScanEnable
    <2> QED
        BY <1>5, <2>1, <2>2 DEF ScanEnable
<1>6. CASE ScanFailed(u)
    <2>1. scan' \in [Scanners -> ScanRecord]
        BY <1>1, <1>6 DEF ScanFailed, ScanRecord
    <2>2. context' \in [Contexts -> ContextState]
        BY <1>6, StoreTyped DEF ScanFailed, ContextState, ScanState
    <2> QED
        BY <1>6, <2>1, <2>2 DEF ScanFailed
<1>7. CASE ScanReturned(u)
    BY <1>1, <1>7 DEF ScanReturned
<1>8. CASE ScanWait(u)
    <2>1. scan' \in [Scanners -> ScanRecord]
        BY <1>1, <1>8 DEF ScanWait, ScanRecord
    <2> QED
        BY <1>8, <2>1 DEF ScanWait
<1>9. CASE ScanReturn(u)
    <2>1. scan[u].code \in Codes
        BY <1>1 DEF ScanRecord, Codes
    <2> QED
        BY <1>9, <2>1, LeaveTyped DEF ScanReturn
<1>10. CASE ScanCatch(u)
    <2>1. scan' \in [Scanners -> ScanRecord]
        BY <1>1, <1>10 DEF ScanCatch, ScanRecord
    <2> QED
        BY <1>10, <2>1 DEF ScanCatch
<1>11. CASE Shutdown(u)
    <2>1. scan' \in [Scanners -> ScanRecord]
        BY <1>1, <1>11, AfterTyped DEF Shutdown
    <2>2. context' \in [Contexts -> ContextState]
        BY <1>11, StoreTyped DEF Shutdown, ContextState, ScanState
    <2> QED
        BY <1>11, <2>1, <2>2 DEF Shutdown
<1>12. CASE ShutdownDisable(u)
    <2>1. library' \in LibraryRecord
        BY <1>12 DEF ShutdownDisable, LibraryRecord
    <2> QED
        BY <1>1, <1>12, <2>1 DEF ShutdownDisable
<1>13. CASE ShutdownWait(u)
    BY <1>1, <1>13 DEF ShutdownWait
<1>14. CASE ShutdownCleanup(u)
    <2>1. scan' \in [Scanners -> ScanRecord]
        BY <1>1, <1>14, AfterTyped DEF ShutdownCleanup
    <2>2. context' \in [Contexts -> ContextState]
        BY <1>14 DEF ShutdownCleanup, ContextState
    <2> QED
        BY <1>14, <2>1, <2>2 DEF ShutdownCleanup
<1>15. CASE ShutdownReset(u)
    BY <1>1, <1>15 DEF ShutdownReset
<1>16. CASE ShutdownUnlock(u)
    BY <1>16, AfterTyped DEF ShutdownUnlock
<1> QED
    BY <1>2, <1>3, <1>4, <1>5, <1>6, <1>7, <1>8, <1>9, <1>10, <1>11, <1>12, <1>13, <1>14, <1>15, <1>16
    DEF ScanStep

LEMMA OtherTyped ==
    ASSUME TypeOK,
           \/ \E u \in Scanners : MonitorStep(u)
           \/ \E v \in Aborters : Abort(v) \/ AbortReturn(v) \/ Destroy(v)
           \/ Construct \/ LibraryTimeout \/ LibraryDetach
           \/ \E t \in Threads : Discover(t) \/ ThreadStep(t)
    PROVE  TypeOK'
<1> USE DEF TypeOK, scanner, external
<1>1. ASSUME NEW u \in Scanners, MonitorStep(u) PROVE TypeOK'
    <2>1. monitor' \in [Scanners -> MonitorPc]
        BY <1>1 DEF MonitorStep, MonitorPoll, MonitorCheck, MonitorAbort, MonitorPc
    <2>2. context' \in [Contexts -> ContextState]
        BY <1>1, StoreTyped DEF MonitorStep, MonitorPoll, MonitorCheck, MonitorAbort, ContextState, ScanState
    <2> QED
        BY <1>1, <2>1, <2>2 DEF MonitorStep, MonitorPoll, MonitorCheck, MonitorAbort
<1>2. ASSUME NEW v \in Aborters, Abort(v) PROVE TypeOK'
    <2>1. scan' \in [Scanners -> ScanRecord]
        BY <1>2 DEF Abort, ScanRecord
    <2>2. aborting' \in [Aborters -> {"no", "abort", "destructor"}]
        BY <1>2 DEF Abort
    <2> QED
        BY <1>2, <2>1, <2>2 DEF Abort
<1>3. ASSUME NEW v \in Aborters, AbortReturn(v) \/ Destroy(v) PROVE TypeOK'
    BY <1>3 DEF AbortReturn, Destroy
<1>4. CASE Construct
    BY <1>4 DEF Construct
<1>5. CASE LibraryTimeout \/ LibraryDetach
    <2>1. library' \in LibraryRecord
        BY <1>5 DEF LibraryTimeout, LibraryDetach, LibraryRecord
    <2> QED
        BY <1>5, <2>1 DEF LibraryTimeout, LibraryDetach
<1>6. ASSUME NEW t \in Threads, Discover(t) \/ DiscoverLock(t) PROVE TypeOK'
    BY <1>6 DEF Discover, DiscoverLock
<1>7. ASSUME NEW t \in Threads, OnScanDiscovery(t) PROVE TypeOK'
    <2>1. scan' \in [Scanners -> ScanRecord]
        <3>1. \A w \in Scanners : scan[w] \in ScanRecord /\ [scan[w] EXCEPT !.found = TRUE] \in ScanRecord
            BY DEF ScanRecord
        <3> QED
            BY <1>7, <3>1 DEF OnScanDiscovery
    <2>2. context' \in [Contexts -> ContextState]
        BY <1>7, StoreTyped DEF OnScanDiscovery, ContextState, ScanState
    <2>3. overwritten' \in BOOLEAN
        BY <1>7 DEF OnScanDiscovery
    <2> QED
        BY <1>7, <2>1, <2>2, <2>3 DEF OnScanDiscovery
<1> QED
    BY <1>1, <1>2, <1>3, <1>4, <1>5, <1>6, <1>7 DEF ThreadStep

LEMMA StepTyped == TypeOK /\ [Next]_vars => TypeOK'
<1> SUFFICES ASSUME TypeOK, [Next]_vars PROVE TypeOK'
    OBVIOUS
<1>1. CASE UNCHANGED vars
    BY <1>1 DEF vars, scanner, external, TypeOK
<1> QED
    BY <1>1, ScanTyped, OtherTyped DEF Next

LEMMA InitTyped == Init => TypeOK
<1> SUFFICES ASSUME Init PROVE TypeOK
    OBVIOUS
<1>1. library \in LibraryRecord
    BY DEF Init, LibraryRecord
<1>2. scan \in [Scanners -> ScanRecord] /\ monitor \in [Scanners -> MonitorPc]
    BY IdleTyped DEF Init, MonitorPc
<1> QED
    BY <1>1, <1>2 DEF Init, TypeOK, ContextState

\* The states of the scanner, of its contexts and of the library are what the
\* code can hold, whatever calls the callback late.
THEOREM Typed == Spec => []TypeOK
BY InitTyped, StepTyped, PTL DEF Spec

-----------------------------------------------------------------------------
(* What the steps do to the contexts and to the scans.                      *)

LEMMA Stored ==
    ASSUME context \in [Contexts -> ContextState], NEW c, NEW state, Store(c, state)
    PROVE  /\ \A d \in Contexts : context'[d] = context[d] \/ (d = c /\ context'[d] = state)
           /\ state # "deleted" => \A d \in Contexts : context'[d] = "deleted" <=> context[d] = "deleted"
           /\ \A d \in Contexts : d = c /\ context[d] # "deleted" => context'[d] = state
BY DEF Store

\* A step of u leaves the others alone.
LEMMA GoToMoves ==
    ASSUME scan \in [Scanners -> ScanRecord], NEW u \in Scanners, NEW pc, GoTo(u, pc)
    PROVE  /\ scan'[u].pc = pc /\ scan'[u].context = scan[u].context
           /\ scan'[u].code = scan[u].code /\ scan'[u].found = scan[u].found
           /\ scan'[u].catching = scan[u].catching
           /\ \A w \in Scanners \ {u} : scan'[w] = scan[w]
BY DEF GoTo, ScanRecord

LEMMA LeaveMoves ==
    ASSUME scan \in [Scanners -> ScanRecord], NEW u \in Scanners, NEW code, Leave(u, code)
    PROVE  /\ scan'[u].pc = "idle" /\ scan'[u].context = NoContext /\ ~scan'[u].catching
           /\ \A w \in Scanners \ {u} : scan'[w] = scan[w]
BY DEF Leave, IdleScan

\* The end of a shutdown: the exception leaves scan() from the handler, and
\* otherwise scan() goes on, to its return or to the unwinding of the stack.
LEMMA EndMoves ==
    ASSUME scan \in [Scanners -> ScanRecord], NEW u \in Scanners, AfterShutdown(u) \/ Throw(u)
    PROVE  /\ \/ scan[u].catching /\ Leave(u, "thrown")
              \/ ~scan[u].catching /\ AfterShutdown(u) /\ GoTo(u, "return")
              \/ ~scan[u].catching /\ Throw(u) /\ GoTo(u, "unwind")
           /\ \A w \in Scanners \ {u} : scan'[w] = scan[w]
           /\ \/ scan'[u].pc = "idle" /\ scan'[u].context = NoContext
              \/ /\ scan'[u].pc \in {"return", "unwind"} /\ scan'[u].context = scan[u].context
                 /\ scan'[u].code = scan[u].code /\ scan'[u].found = scan[u].found
<1>1. \/ scan[u].catching /\ Leave(u, "thrown")
      \/ ~scan[u].catching /\ AfterShutdown(u) /\ GoTo(u, "return")
      \/ ~scan[u].catching /\ Throw(u) /\ GoTo(u, "unwind")
    BY DEF AfterShutdown, Throw
<1> QED
    BY <1>1, GoToMoves, LeaveMoves

-----------------------------------------------------------------------------
(* A success was a discovery.                                               *)

NoNewSuccess == \A c \in Contexts : context'[c] = "SUCCEEDED" => context[c] = "SUCCEEDED"

\* A scan that keeps its context and its code, or is over.
LEMMA FoundKept ==
    ASSUME NEW w \in Scanners, FoundAt(w), NoNewSuccess,
           \/ scan'[w] = scan[w]
           \/ scan'[w].pc = "idle" /\ scan'[w].context = NoContext
           \/ /\ scan'[w].context = scan[w].context /\ scan'[w].found = scan[w].found
              /\ scan'[w].code = scan[w].code
              /\ scan[w].pc # "idle" /\ scan'[w].pc # "checked"
              /\ scan'[w].pc \in Waiting => scan[w].pc \in Waiting
    PROVE  FoundAt(w)'
BY ScannerAssumption DEF FoundAt, NoNewSuccess, Waiting

LEMMA ScanFound ==
    ASSUME TypeOK, FoundInv, NEW u \in Scanners, ScanCheck(u) \/ ScanStep(u)
    PROVE  FoundInv'
<1>1. /\ scan \in [Scanners -> ScanRecord] /\ context \in [Contexts -> ContextState]
      /\ \A w \in Scanners : FoundAt(w)
    BY DEF TypeOK, FoundInv
<1>2. ASSUME NoNewSuccess, FoundAt(u)', \A w \in Scanners \ {u} : scan'[w] = scan[w] PROVE FoundInv'
    <2>1. ASSUME NEW w \in Scanners \ {u} PROVE FoundAt(w)'
        BY <1>1, <1>2, <2>1, FoundKept
    <2> QED
        BY <1>2, <2>1 DEF FoundInv
<1>3. ASSUME NoNewSuccess, NEW pc \in ScanPc \ {"idle", "checked"}, GoTo(u, pc), ~At(u, "idle"),
             pc \in Waiting => scan[u].pc \in Waiting
      PROVE  FoundInv'
    <2>1. FoundAt(u)'
        BY <1>1, <1>3, GoToMoves, FoundKept DEF At
    <2> QED
        BY <1>1, <1>2, <1>3, <2>1, GoToMoves
<1>4. ASSUME NoNewSuccess, AfterShutdown(u) \/ Throw(u), ~At(u, "idle") PROVE FoundInv'
    <2>1. FoundAt(u)'
        BY <1>1, <1>4, EndMoves, FoundKept DEF At, Waiting
    <2> QED
        BY <1>1, <1>2, <1>4, <2>1, EndMoves
<1>5. context' = context => NoNewSuccess
    BY DEF NoNewSuccess
<1>6. CASE ScanCheck(u)
    <2>1. /\ scan'[u] = [IdleScan EXCEPT !.pc = "checked"] /\ NoNewSuccess
          /\ \A w \in Scanners \ {u} : scan'[w] = scan[w]
        BY <1>1, <1>5, <1>6 DEF ScanCheck
    <2>2. FoundAt(u)'
        BY <2>1, ScannerAssumption DEF IdleScan, FoundAt, Waiting
    <2> QED
        BY <1>2, <2>1, <2>2
<1>7. CASE ScanBegin(u)
    <2>1. PICK c \in Contexts : /\ context' = [context EXCEPT ![c] = "SCANNING"]
                                /\ scan' = [scan EXCEPT ![u].pc = "set", ![u].context = c]
        BY <1>7 DEF ScanBegin
    <2>2. /\ scan'[u].pc = "set" /\ scan'[u].context = c /\ scan'[u].code = scan[u].code
          /\ \A w \in Scanners \ {u} : scan'[w] = scan[w]
        BY <1>1, <2>1 DEF ScanRecord
    <2>3. NoNewSuccess /\ context'[c] = "SCANNING"
        BY <1>1, <2>1 DEF NoNewSuccess
    <2>4. scan[u].code = "none"
        BY <1>1, <1>7 DEF ScanBegin, At, FoundAt
    <2>5. FoundAt(u)'
        BY <2>2, <2>3, <2>4 DEF FoundAt, Waiting
    <2> QED
        BY <1>2, <2>2, <2>3, <2>5
<1>8. CASE ScanSet(u) \/ ScanReturned(u) \/ ShutdownDisable(u) \/ ShutdownWait(u) \/ ShutdownReset(u)
    <2>1. PICK pc \in {"enable", "wait", "stopping", "cleanup", "unlock"} :
            /\ GoTo(u, pc) /\ context' = context /\ ~At(u, "idle")
            /\ pc \in {"enable", "wait"} => At(u, "set") \/ At(u, "library")
        BY <1>8 DEF ScanSet, ScanReturned, ShutdownDisable, ShutdownWait, ShutdownReset, At
    <2>2. pc \in ScanPc \ {"idle", "checked"} /\ (pc \in Waiting => scan[u].pc \in Waiting)
        BY <2>1 DEF ScanPc, Waiting, At
    <2> QED
        BY <1>3, <1>5, <2>1, <2>2
<1>9. CASE ScanEnable(u)
    <2>1. PICK pc \in {"library", "failed"} : GoTo(u, pc) /\ context' = context /\ At(u, "enable")
        BY <1>9 DEF ScanEnable
    <2>2. pc \in ScanPc \ {"idle", "checked"} /\ (pc \in Waiting => scan[u].pc \in Waiting) /\ ~At(u, "idle")
        BY <2>1 DEF ScanPc, Waiting, At
    <2> QED
        BY <1>3, <1>5, <2>1, <2>2
<1>10. CASE ScanFailed(u)
    <2>1. /\ scan'[u].pc = "shutdown" /\ scan'[u].code = "ERROR" /\ scan'[u].context = scan[u].context
          /\ scan'[u].found = scan[u].found
          /\ \A w \in Scanners \ {u} : scan'[w] = scan[w]
        BY <1>1, <1>10 DEF ScanFailed, ScanRecord
    <2>2. NoNewSuccess
        BY <1>1, <1>10, Stored DEF ScanFailed, NoNewSuccess
    <2>3. FoundAt(u)'
        BY <1>1, <2>1, <2>2 DEF FoundAt, NoNewSuccess, Waiting
    <2> QED
        BY <1>2, <2>1, <2>2, <2>3
<1>11. CASE ScanWait(u)
    <2>1. /\ scan'[u].pc = "shutdown" /\ scan'[u].context = scan[u].context
          /\ scan'[u].found = scan[u].found
          /\ scan'[u].code = "SUCCESS" => context[scan[u].context] = "SUCCEEDED"
          /\ \A w \in Scanners \ {u} : scan'[w] = scan[w]
        BY <1>1, <1>11 DEF ScanWait, ScanRecord
    <2>2. NoNewSuccess /\ context' = context /\ scan[u].context \in Contexts
        BY <1>1, <1>5, <1>11 DEF ScanWait, FoundAt, At, Waiting
    <2>3. FoundAt(u)'
        BY <1>1, <2>1, <2>2 DEF FoundAt, Waiting
    <2> QED
        BY <1>2, <2>1, <2>2, <2>3
<1>12. CASE ScanReturn(u)
    <2>1. NoNewSuccess /\ Leave(u, scan[u].code)
        BY <1>5, <1>12 DEF ScanReturn
    <2>2. FoundAt(u)'
        BY <1>1, <2>1, LeaveMoves, FoundKept
    <2> QED
        BY <1>1, <1>2, <2>1, <2>2, LeaveMoves
<1>13. CASE ScanCatch(u)
    <2>1. /\ scan'[u].pc = "shutdown" /\ scan'[u].context = scan[u].context
          /\ scan'[u].found = scan[u].found /\ scan'[u].code = scan[u].code
          /\ \A w \in Scanners \ {u} : scan'[w] = scan[w]
        BY <1>1, <1>13 DEF ScanCatch, ScanRecord
    <2>2. NoNewSuccess /\ scan[u].pc = "unwind"
        BY <1>5, <1>13 DEF ScanCatch, At
    <2>3. FoundAt(u)'
        BY <1>1, <2>1, <2>2, FoundKept DEF Waiting
    <2> QED
        BY <1>2, <2>1, <2>2, <2>3
<1>14. CASE Shutdown(u)
    <2>1. NoNewSuccess /\ ~At(u, "idle")
        <3>1. ~At(u, "idle") /\ (context' = context \/ Store(scan[u].context, "SHUTTING_DOWN"))
            BY <1>14 DEF Shutdown, At
        <3> QED
            BY <1>1, <1>5, <3>1, Stored DEF NoNewSuccess
    <2>2. AfterShutdown(u) \/ Throw(u) \/ GoTo(u, "disable")
        BY <1>14 DEF Shutdown
    <2> QED
        BY <1>3, <1>4, <2>1, <2>2 DEF ScanPc, Waiting
<1>15. CASE ShutdownCleanup(u)
    <2>1. NoNewSuccess /\ ~At(u, "idle")
        BY <1>1, <1>15 DEF ShutdownCleanup, At, NoNewSuccess
    <2>2. Throw(u) \/ GoTo(u, "reset")
        BY <1>15 DEF ShutdownCleanup
    <2> QED
        BY <1>3, <1>4, <2>1, <2>2 DEF ScanPc, Waiting
<1>16. CASE ShutdownUnlock(u)
    BY <1>4, <1>5, <1>16 DEF ShutdownUnlock, At
<1> QED
    BY <1>6, <1>7, <1>8, <1>9, <1>10, <1>11, <1>12, <1>13, <1>14, <1>15, <1>16 DEF ScanStep

LEMMA OtherFound ==
    ASSUME TypeOK, FoundInv,
           \/ \E u \in Scanners : MonitorStep(u)
           \/ \E v \in Aborters : Abort(v) \/ AbortReturn(v) \/ Destroy(v)
           \/ Construct \/ LibraryTimeout \/ LibraryDetach
           \/ \E t \in Threads : Discover(t) \/ ThreadStep(t)
    PROVE  FoundInv'
<1>1. scan \in [Scanners -> ScanRecord] /\ context \in [Contexts -> ContextState]
    BY DEF TypeOK
<1>2. ASSUME NoNewSuccess, scan' = scan PROVE FoundInv'
    BY <1>2, FoundKept DEF FoundInv
<1>3. ASSUME NEW u \in Scanners, MonitorStep(u) PROVE FoundInv'
    <2>1. scan' = scan /\ (context' = context \/ Store(scan[u].context, "ABORTED"))
        BY <1>3 DEF MonitorStep, MonitorPoll, MonitorCheck, MonitorAbort
    <2>2. NoNewSuccess
        BY <1>1, <2>1, Stored DEF NoNewSuccess
    <2> QED
        BY <1>2, <2>1, <2>2
<1>4. ASSUME NEW v \in Aborters, Abort(v) PROVE FoundInv'
    <2>1. \A w \in Scanners : /\ scan'[w].pc = scan[w].pc /\ scan'[w].code = scan[w].code
                              /\ scan'[w].context = scan[w].context /\ scan'[w].found = scan[w].found
        BY <1>1, <1>4 DEF Abort, ScanRecord
    <2>2. context' = context
        BY <1>4 DEF Abort
    <2> QED
        BY <2>1, <2>2 DEF FoundInv, FoundAt
<1>5. ASSUME context' = context, scan' = scan PROVE FoundInv'
    BY <1>2, <1>5 DEF NoNewSuccess
<1>6. ASSUME NEW t \in Threads, OnScanDiscovery(t) PROVE FoundInv'
    <2>1. CASE UNCHANGED <<context, scan, overwritten>>
        BY <1>5, <2>1
    <2>2. ASSUME NEW c, c = library.user_data, Store(c, "SUCCEEDED"),
                 scan' = [u \in Scanners |-> IF u \in {w \in Scanners : scan[w].context = c}
                                             THEN [scan[u] EXCEPT !.found = TRUE] ELSE scan[u]]
          PROVE  FoundInv'
        <3>1. \A w \in Scanners : /\ scan'[w].pc = scan[w].pc /\ scan'[w].code = scan[w].code
                                  /\ scan'[w].context = scan[w].context
                                  /\ scan'[w].found <=> (scan[w].found \/ scan[w].context = c)
            BY <1>1, <2>2 DEF ScanRecord
        <3>2. \A d \in Contexts : context'[d] = context[d] \/ d = c
            BY <1>1, <2>2, Stored
        <3> QED
            BY <3>1, <3>2 DEF FoundInv, FoundAt
    <2> QED
        BY <1>6, <2>1, <2>2 DEF OnScanDiscovery
<1> QED
    BY <1>3, <1>4, <1>5, <1>6 DEF AbortReturn, Destroy, Construct, LibraryTimeout, LibraryDetach,
        Discover, ThreadStep, DiscoverLock

\* scan() answers GATTLIB_SUCCESS only after a device that matches was reported to
\* this scan, for any number of threads in scan(), and of late callbacks.
THEOREM SuccessWasFound == Spec => []FoundIfSuccess
<1>1. Init => FoundInv
    BY ScannerAssumption DEF Init, FoundInv, FoundAt, IdleScan, Waiting
<1>2. TypeOK /\ FoundInv /\ [Next]_vars => FoundInv'
    <2> SUFFICES ASSUME TypeOK, FoundInv, [Next]_vars PROVE FoundInv'
        OBVIOUS
    <2>1. CASE UNCHANGED vars
        BY <2>1 DEF vars, FoundInv, FoundAt
    <2> QED
        BY <2>1, ScanFound, OtherFound DEF Next
<1>3. FoundInv => FoundIfSuccess
    BY DEF FoundInv, FoundAt, FoundIfSuccess, At
<1> QED
    BY <1>1, <1>2, <1>3, Typed, PTL DEF Spec

-----------------------------------------------------------------------------
(* The flag and the contexts of the only scan.                              *)

\* A step inside scan() that keeps the flag and the contexts.
LEMMA OnwardHeld ==
    ASSUME NEW u, ScanInv(u), UNCHANGED <<m_scanning, context, monitor, overwritten>>,
           scan'[u].context = scan[u].context, scan'[u].catching = scan[u].catching,
           scan[u].pc \in Holding \cap Scanning, scan'[u].pc \in Holding \cap Scanning,
           \/ scan[u].pc \in ShuttingDown /\ scan'[u].pc \in ShuttingDown
           \/ scan[u].pc \notin ShuttingDown \cup {"shutdown"} /\ scan'[u].pc \notin ShuttingDown
    PROVE  ScanInv(u)'
BY DEF ScanInv, FlagInv, ContextInv, CatchInv, LeftInv, ShuttingDown, Holding, Scanning

\* The end of scan().
LEMMA LeaveHeld ==
    ASSUME TypeOK, NEW u \in Scanners, ScanInv(u), NEW code, Leave(u, code),
           UNCHANGED <<m_scanning, context, monitor, overwritten>>,
           overwritten \/ scan[u].pc \in {"unlock", "return"}
    PROVE  ScanInv(u)'
<1>1. scan'[u].pc = "idle" /\ scan'[u].context = NoContext /\ ~scan'[u].catching
    BY LeaveMoves DEF TypeOK
<1> QED
    BY <1>1 DEF ScanInv, FlagInv, ContextInv, CatchInv, LeftInv, Scanning, Holding

LEMMA ScanHeld ==
    ASSUME TypeOK, NEW u \in Scanners, ScanInv(u), ScanCheck(u) \/ ScanStep(u)
    PROVE  ScanInv(u)'
<1>1. /\ scan \in [Scanners -> ScanRecord] /\ context \in [Contexts -> ContextState]
      /\ monitor \in [Scanners -> MonitorPc]
      /\ FlagInv(u) /\ ContextInv(u) /\ CatchInv(u) /\ LeftInv(u)
    BY DEF TypeOK, ScanInv
<1> USE DEF scanner
<1>2. CASE ScanCheck(u)
    <2>1. /\ scan'[u].pc = "checked" /\ scan'[u].context = NoContext /\ ~scan'[u].catching
          /\ UNCHANGED <<m_scanning, context, monitor, overwritten>> /\ scan[u].pc = "idle"
        BY <1>1, <1>2 DEF ScanCheck, IdleScan, At
    <2> QED
        BY <1>1, <2>1 DEF ScanInv, FlagInv, ContextInv, CatchInv, LeftInv, Scanning, Holding
<1>3. CASE ScanBegin(u)
    <2>1. PICK c \in Contexts : /\ context[c] = "deleted" /\ context' = [context EXCEPT ![c] = "SCANNING"]
                                /\ scan' = [scan EXCEPT ![u].pc = "set", ![u].context = c]
        BY <1>3 DEF ScanBegin
    <2>2. /\ scan'[u].pc = "set" /\ scan'[u].context = c /\ scan'[u].catching = scan[u].catching
          /\ UNCHANGED <<m_scanning, overwritten>> /\ scan[u].pc = "checked"
        BY <1>1, <1>3, <2>1 DEF ScanBegin, At, ScanRecord
    <2>3. context'[c] = "SCANNING" /\ \A d \in Contexts \ {c} : context'[d] = context[d]
        BY <1>1, <2>1
    <2>4. ~scan[u].catching /\ scan[u].context = NoContext
        BY <1>1, <2>2 DEF CatchInv, ContextInv, ShuttingDown
    <2>5. FlagInv(u)' /\ CatchInv(u)'
        BY <1>1, <2>2, <2>4 DEF FlagInv, CatchInv, Scanning
    <2>6. ContextInv(u)'
        BY <2>2, <2>3 DEF ContextInv
    <2>7. LeftInv(u)'
        BY <1>1, <2>2, <2>3, <2>4, ScannerAssumption DEF LeftInv, Holding
    <2> QED
        BY <2>5, <2>6, <2>7 DEF ScanInv
<1>4. CASE ScanSet(u)
    <2>1. /\ scan'[u].pc = "enable" /\ scan'[u].context = scan[u].context
          /\ scan'[u].catching = scan[u].catching /\ scan[u].pc = "set" /\ m_scanning'
          /\ UNCHANGED <<context, monitor, overwritten>>
        BY <1>1, <1>4, GoToMoves DEF ScanSet, At
    <2> QED
        BY <1>1, <2>1 DEF ScanInv, FlagInv, ContextInv, CatchInv, LeftInv, Scanning, Holding, ShuttingDown
<1>5. CASE ScanEnable(u)
    <2>1. /\ scan'[u].pc \in {"library", "failed"} /\ scan'[u].context = scan[u].context
          /\ scan'[u].catching = scan[u].catching /\ scan[u].pc = "enable"
          /\ UNCHANGED <<m_scanning, context, monitor, overwritten>>
        BY <1>1, <1>5, GoToMoves DEF ScanEnable, At
    <2> QED
        BY <2>1, OnwardHeld DEF Holding, Scanning, ShuttingDown
<1>6. CASE ScanFailed(u)
    <2>1. /\ scan'[u].pc = "shutdown" /\ scan'[u].context = scan[u].context
          /\ scan'[u].catching = scan[u].catching /\ scan[u].pc = "failed"
          /\ UNCHANGED <<m_scanning, monitor, overwritten>>
        BY <1>1, <1>6 DEF ScanFailed, At, ScanRecord
    <2>2. /\ \A d \in Contexts : context'[d] = "deleted" <=> context[d] = "deleted"
          /\ scan[u].context \in Contexts /\ context[scan[u].context] # "deleted"
        BY <1>1, <1>6, <2>1, Stored DEF ScanFailed, ContextInv, Holding, Scanning
    <2>3. context'[scan[u].context] = "FAILED"
        BY <1>1, <1>6, <2>2, Stored DEF ScanFailed
    <2> QED
        BY <1>1, <2>1, <2>2, <2>3
        DEF ScanInv, FlagInv, ContextInv, CatchInv, LeftInv, Scanning, Holding, ShuttingDown
<1>7. CASE ScanReturned(u)
    <2>1. /\ scan'[u].pc = "wait" /\ scan'[u].context = scan[u].context
          /\ scan'[u].catching = scan[u].catching /\ scan[u].pc = "library"
          /\ UNCHANGED <<m_scanning, context, monitor, overwritten>>
        BY <1>1, <1>7, GoToMoves DEF ScanReturned, At
    <2> QED
        BY <2>1, OnwardHeld DEF Holding, Scanning, ShuttingDown
<1>8. CASE ScanWait(u)
    <2>1. /\ scan'[u].pc = "shutdown" /\ scan'[u].context = scan[u].context
          /\ scan'[u].catching = scan[u].catching /\ scan[u].pc = "wait"
          /\ UNCHANGED <<m_scanning, context, monitor, overwritten>>
        BY <1>1, <1>8 DEF ScanWait, At, ScanRecord
    <2> QED
        BY <2>1, OnwardHeld DEF Holding, Scanning, ShuttingDown
<1>9. CASE ScanReturn(u)
    BY <1>9, LeaveHeld DEF ScanReturn, At
<1>10. CASE ScanCatch(u)
    <2>1. /\ scan'[u].pc = "shutdown" /\ scan'[u].context = scan[u].context
          /\ scan'[u].catching /\ scan[u].pc = "unwind" /\ monitor[u] = "done"
          /\ UNCHANGED <<m_scanning, context, monitor, overwritten>>
        BY <1>1, <1>10 DEF ScanCatch, At, ScanRecord
    <2> QED
        BY <1>1, <2>1
        DEF ScanInv, FlagInv, ContextInv, CatchInv, LeftInv, Scanning, Holding, ShuttingDown
<1>11. CASE Shutdown(u)
    <2>1. /\ scan[u].pc = "shutdown" /\ scan[u].context \in Contexts /\ m_scanning
          /\ context[scan[u].context] \notin {"deleted", "SHUTTING_DOWN"}
        BY <1>1, <1>11 DEF Shutdown, At, FlagInv, ContextInv, Holding, Scanning, ShuttingDown
    <2>2. /\ Store(scan[u].context, "SHUTTING_DOWN") /\ GoTo(u, "disable")
          /\ UNCHANGED <<m_scanning, monitor, overwritten>>
        BY <1>11, <2>1 DEF Shutdown
    <2>3. /\ scan'[u].pc = "disable" /\ scan'[u].context = scan[u].context
          /\ scan'[u].catching = scan[u].catching
        BY <1>1, <2>2, GoToMoves
    <2>4. /\ context'[scan[u].context] = "SHUTTING_DOWN"
          /\ \A d \in Contexts : context'[d] = "deleted" <=> context[d] = "deleted"
        BY <1>1, <2>1, <2>2, Stored
    <2> QED
        BY <1>1, <2>1, <2>2, <2>3, <2>4
        DEF ScanInv, FlagInv, ContextInv, CatchInv, LeftInv, Scanning, Holding, ShuttingDown
<1>12. CASE ShutdownDisable(u)
    <2>1. /\ scan'[u].pc = "stopping" /\ scan'[u].context = scan[u].context
          /\ scan'[u].catching = scan[u].catching /\ scan[u].pc = "disable"
          /\ UNCHANGED <<m_scanning, context, monitor, overwritten>>
        BY <1>1, <1>12, GoToMoves DEF ShutdownDisable, At
    <2> QED
        BY <2>1, OnwardHeld DEF Holding, Scanning, ShuttingDown
<1>13. CASE ShutdownWait(u)
    <2>1. /\ scan'[u].pc = "cleanup" /\ scan'[u].context = scan[u].context
          /\ scan'[u].catching = scan[u].catching /\ scan[u].pc = "stopping"
          /\ UNCHANGED <<m_scanning, context, monitor, overwritten>>
        BY <1>1, <1>13, GoToMoves DEF ShutdownWait, At
    <2> QED
        BY <2>1, OnwardHeld DEF Holding, Scanning, ShuttingDown
<1>14. CASE ShutdownCleanup(u)
    <2>1. scan[u].pc = "cleanup" /\ UNCHANGED <<m_scanning, monitor, overwritten>>
        BY <1>14 DEF ShutdownCleanup, At
    <2>2. ASSUME NEW c \in Contexts, c = scan[u].context,
                 context' = [context EXCEPT ![c] = "deleted"], GoTo(u, "reset")
          PROVE  ScanInv(u)'
        <3>1. /\ scan'[u].pc = "reset" /\ scan'[u].context = scan[u].context
              /\ scan'[u].catching = scan[u].catching
            BY <1>1, <2>2, GoToMoves
        <3>2. context'[c] = "deleted" /\ \A d \in Contexts \ {c} : context'[d] = context[d]
            BY <1>1, <2>2
        <3> QED
            BY <1>1, <2>1, <2>2, <3>1, <3>2
            DEF ScanInv, FlagInv, ContextInv, CatchInv, LeftInv, Scanning, Holding, ShuttingDown
    <2>3. ASSUME Throw(u), context' = context, context[scan[u].context] # "SHUTTING_DOWN"
          PROVE  ScanInv(u)'
        <3>1. CASE scan[u].catching
            <4>1. Leave(u, "thrown") /\ overwritten
                BY <1>1, <2>1, <2>3, <3>1 DEF Throw, CatchInv, ShuttingDown
            <4> QED
                BY <2>1, <2>3, <4>1, LeaveHeld
        <3>2. CASE ~scan[u].catching
            <4>1. /\ scan'[u].pc = "unwind" /\ scan'[u].context = scan[u].context /\ ~scan'[u].catching
                BY <1>1, <2>3, <3>2, GoToMoves DEF Throw
            <4> QED
                BY <1>1, <2>1, <2>3, <4>1
                DEF ScanInv, FlagInv, ContextInv, CatchInv, LeftInv, Scanning, Holding, ShuttingDown
        <3> QED
            BY <3>1, <3>2
    <2>4. scan[u].context \in Contexts
        BY <1>1, <2>1 DEF ContextInv, Holding, Scanning
    <2> QED
        BY <1>14, <2>2, <2>3, <2>4 DEF ShutdownCleanup
<1>15. CASE ShutdownReset(u)
    <2>1. /\ scan'[u].pc = "unlock" /\ scan'[u].context = scan[u].context
          /\ scan'[u].catching = scan[u].catching /\ scan[u].pc = "reset" /\ ~m_scanning'
          /\ UNCHANGED <<context, monitor, overwritten>>
        BY <1>1, <1>15, GoToMoves DEF ShutdownReset, At
    <2> QED
        BY <1>1, <2>1
        DEF ScanInv, FlagInv, ContextInv, CatchInv, LeftInv, Scanning, Holding, ShuttingDown
<1>16. CASE ShutdownUnlock(u)
    <2>1. scan[u].pc = "unlock" /\ UNCHANGED <<m_scanning, context, monitor, overwritten>>
        BY <1>16 DEF ShutdownUnlock, At
    <2>2. CASE scan[u].catching
        BY <1>16, <2>1, <2>2, LeaveHeld DEF ShutdownUnlock, AfterShutdown
    <2>3. CASE ~scan[u].catching
        <3>1. /\ scan'[u].pc = "return" /\ scan'[u].context = scan[u].context /\ ~scan'[u].catching
            BY <1>1, <1>16, <2>3, GoToMoves DEF ShutdownUnlock, AfterShutdown
        <3> QED
            BY <1>1, <2>1, <3>1
            DEF ScanInv, FlagInv, ContextInv, CatchInv, LeftInv, Scanning, Holding, ShuttingDown
    <2> QED
        BY <2>2, <2>3
<1> QED
    BY <1>2, <1>3, <1>4, <1>5, <1>6, <1>7, <1>8, <1>9, <1>10, <1>11, <1>12, <1>13, <1>14, <1>15, <1>16
    DEF ScanStep

\* A context may change its state behind the back of scan(), not come or go.
LEMMA DisturbedHeld ==
    ASSUME NEW u, ScanInv(u), UNCHANGED m_scanning,
           scan'[u].pc = scan[u].pc, scan'[u].context = scan[u].context,
           scan'[u].catching = scan[u].catching, scan[u].catching => monitor'[u] = "done",
           \A d \in Contexts : /\ context'[d] = "deleted" <=> context[d] = "deleted"
                               /\ context'[d] = "SHUTTING_DOWN" => context[d] = "SHUTTING_DOWN",
           overwritten => overwritten',
           scan[u].catching /\ scan[u].pc \in ShuttingDown =>
               overwritten' \/ context'[scan[u].context] = context[scan[u].context]
    PROVE  ScanInv(u)'
BY DEF ScanInv, FlagInv, ContextInv, CatchInv, LeftInv

LEMMA OtherHeld ==
    ASSUME TypeOK, NEW u \in Scanners, ScanInv(u),
           \/ MonitorStep(u)
           \/ \E v \in Aborters : Abort(v) \/ AbortReturn(v) \/ Destroy(v)
           \/ Construct \/ LibraryTimeout \/ LibraryDetach
           \/ \E t \in Threads : Discover(t) \/ ThreadStep(t)
    PROVE  ScanInv(u)'
<1>1. /\ scan \in [Scanners -> ScanRecord] /\ context \in [Contexts -> ContextState]
      /\ monitor \in [Scanners -> MonitorPc]
      /\ FlagInv(u) /\ ContextInv(u) /\ CatchInv(u) /\ LeftInv(u)
    BY DEF TypeOK, ScanInv
<1> USE DEF scanner
<1>2. ASSUME UNCHANGED <<m_scanning, context, scan, monitor, overwritten>> PROVE ScanInv(u)'
    <2>1. scan[u].catching => monitor'[u] = "done"
        BY <1>1, <1>2 DEF CatchInv
    <2> QED
        BY <1>2, <2>1, DisturbedHeld
<1>3. CASE MonitorStep(u)
    <2>1. ~scan[u].catching /\ UNCHANGED <<m_scanning, scan, overwritten>>
        BY <1>1, <1>3 DEF MonitorStep, MonitorPoll, MonitorCheck, MonitorAbort, CatchInv
    <2>2. context' = context \/ Store(scan[u].context, "ABORTED")
        BY <1>3 DEF MonitorStep, MonitorPoll, MonitorCheck, MonitorAbort
    <2>3. \A d \in Contexts : /\ context'[d] = "deleted" <=> context[d] = "deleted"
                              /\ context'[d] = "SHUTTING_DOWN" => context[d] = "SHUTTING_DOWN"
        BY <1>1, <2>2, Stored
    <2> QED
        BY <2>1, <2>3, DisturbedHeld
<1>4. ASSUME NEW v \in Aborters, Abort(v) PROVE ScanInv(u)'
    <2>1. /\ scan'[u].pc = scan[u].pc /\ scan'[u].context = scan[u].context
          /\ scan'[u].catching = scan[u].catching
        BY <1>1, <1>4 DEF Abort, ScanRecord
    <2>2. UNCHANGED <<m_scanning, context, monitor, overwritten>>
        BY <1>4 DEF Abort
    <2>3. scan[u].catching => monitor'[u] = "done"
        BY <1>1, <2>2 DEF CatchInv
    <2> QED
        BY <2>1, <2>2, <2>3, DisturbedHeld
<1>5. CASE Construct
    <2>1. ~m_scanning' /\ UNCHANGED <<context, scan, monitor, overwritten>> /\ scan[u].pc = "idle"
        BY <1>5 DEF Construct, At
    <2> QED
        BY <1>1, <2>1 DEF ScanInv, FlagInv, ContextInv, CatchInv, LeftInv, Scanning, Holding
<1>6. ASSUME NEW t \in Threads, OnScanDiscovery(t) PROVE ScanInv(u)'
    <2>1. CASE UNCHANGED <<context, scan, overwritten>>
        BY <1>2, <1>6, <2>1 DEF OnScanDiscovery
    <2>2. ASSUME NEW c, c = library.user_data, Store(c, "SUCCEEDED"), UNCHANGED <<m_scanning, monitor>>,
                 scan' = [v \in Scanners |-> IF v \in {w \in Scanners : scan[w].context = c}
                                             THEN [scan[v] EXCEPT !.found = TRUE] ELSE scan[v]],
                 overwritten' = (overwritten \/ \E w \in {w \in Scanners : scan[w].context = c} :
                                                    scan[w].pc \in ShuttingDown)
          PROVE  ScanInv(u)'
        <3>1. /\ scan'[u].pc = scan[u].pc /\ scan'[u].context = scan[u].context
              /\ scan'[u].catching = scan[u].catching
            BY <1>1, <2>2 DEF ScanRecord
        <3>2. \A d \in Contexts : /\ context'[d] = "deleted" <=> context[d] = "deleted"
                                  /\ context'[d] = "SHUTTING_DOWN" => context[d] = "SHUTTING_DOWN"
                                  /\ context'[d] = context[d] \/ d = c
            BY <1>1, <2>2, Stored
        <3>3. scan[u].pc \in ShuttingDown => scan[u].context \in Contexts
            BY <1>1 DEF ContextInv, ShuttingDown, Holding, Scanning
        <3>4. /\ overwritten => overwritten'
              /\ scan[u].pc \in ShuttingDown =>
                     overwritten' \/ context'[scan[u].context] = context[scan[u].context]
            BY <2>2, <3>2, <3>3
        <3>5. scan[u].catching => monitor'[u] = "done"
            BY <1>1, <2>2 DEF CatchInv
        <3> QED
            BY <2>2, <3>1, <3>2, <3>4, <3>5, DisturbedHeld
    <2> QED
        BY <1>6, <2>1, <2>2 DEF OnScanDiscovery
<1>7. ASSUME NEW v \in Aborters, AbortReturn(v) \/ Destroy(v) PROVE ScanInv(u)'
    BY <1>2, <1>7 DEF AbortReturn, Destroy
<1>8. ASSUME NEW t \in Threads, Discover(t) \/ DiscoverLock(t) PROVE ScanInv(u)'
    BY <1>2, <1>8 DEF Discover, DiscoverLock
<1>9. CASE LibraryTimeout \/ LibraryDetach
    BY <1>2, <1>9 DEF LibraryTimeout, LibraryDetach
<1> QED
    BY <1>3, <1>4, <1>5, <1>6, <1>7, <1>8, <1>9 DEF ThreadStep

LEMMA ScanInvariant ==
    ASSUME NEW u, Scanners = {u}
    PROVE  Spec => []ScanInv(u)
<1>1. Init => ScanInv(u)
    BY DEF Init, IdleScan, ScanInv, FlagInv, ContextInv, CatchInv, LeftInv, Scanning, Holding
<1>2. TypeOK /\ ScanInv(u) /\ [Next]_vars => ScanInv(u)'
    <2> SUFFICES ASSUME TypeOK, ScanInv(u), [Next]_vars PROVE ScanInv(u)'
        OBVIOUS
    <2>1. CASE UNCHANGED vars
        BY <2>1 DEF vars, scanner, ScanInv, FlagInv, ContextInv, CatchInv, LeftInv
    <2> QED
        BY <2>1, ScanHeld, OtherHeld DEF Next
<1> QED
    BY <1>1, <1>2, Typed, PTL DEF Spec

\* With one thread in scan(), and unless a device matched during a shutdown: while
\* m_scanning is set, scan() is where it will clear it.
THEOREM FlagIsCleared ==
    ASSUME OneScanner
    PROVE  Spec => []FlagHasScan
<1>1. PICK u : Scanners = {u}
    BY DEF OneScanner
<1>2. Spec => []ScanInv(u)
    BY <1>1, ScanInvariant
<1>3. ScanInv(u) => FlagHasScan
    BY <1>1 DEF ScanInv, FlagInv, FlagHasScan, Scanning
<1> QED
    BY <1>2, <1>3, PTL

\* With one thread in scan(), and unless a device matched during a shutdown: a
\* context is the one of the scan that will delete it.
THEOREM ContextsAreDeleted ==
    ASSUME OneScanner
    PROVE  Spec => []NoContextLeft
<1>1. PICK u : Scanners = {u}
    BY DEF OneScanner
<1>2. Spec => []ScanInv(u)
    BY <1>1, ScanInvariant
<1>3. ScanInv(u) => NoContextLeft
    BY <1>1 DEF ScanInv, LeftInv, NoContextLeft, Scanning, Holding
<1> QED
    BY <1>2, <1>3, PTL
=============================================================================
