-------------------------- MODULE GMainLoopManager --------------------------
(***************************************************************************)
(* The C++ manager of a GMainLoop: cpp/src/gmain_loop_manager.cpp.         *)
(*                                                                         *)
(* start() creates a loop and a thread that runs it, stop() quits the loop, *)
(* joins the thread and drops the loop, the destructor stops.  Both hold   *)
(* m_startStopMutex throughout; the thread of the loop holds nothing and   *)
(* reads m_mainLoop by itself.                                             *)
(*                                                                         *)
(* The places of freed loops are allocated again.  stop() drops its        *)
(* reference and keeps the pointer, which the next start() unrefs: on a    *)
(* place nobody uses this is undefined behaviour that changes nothing here, *)
(* on a place that is used again it takes the reference of the new owner.  *)
(***************************************************************************)
EXTENDS GMainLoop, Integers, FiniteSets

CONSTANTS
    Managers,   \* memory places of the managers
    Glibs,      \* the threads that run a loop
    Apps,       \* the threads that use the managers
    Failures,   \* what may fail or time out in this instance
    NoThread, Nobody

FailureKinds == {"new", "thread", "start_timeout", "stop_timeout", "join_timeout",
                 "destructor_timeout"}

ASSUME ManagerAssumption ==
    /\ Managers # {}
    /\ IsFiniteSet(Managers) /\ IsFiniteSet(Glibs) /\ IsFiniteSet(Apps)
    /\ Failures \subseteq FailureKinds
    /\ NoLoop \notin Loops
    /\ NoThread \notin Glibs
    /\ Nobody \notin Apps

VARIABLES
    life,             \* a manager is "alive", "dying" in its destructor, or "destroyed"
    m_startStopMutex, \* the thread inside start() or stop() of the manager
    m_isRunning,
    m_mainLoop,       \* the pointer, whatever became of the loop
    m_glibThread,     \* the joinable thread, or NoThread
    glib,             \* the threads of the loops
    call,             \* what each application thread is doing in start() or stop()
    timedOut          \* history: some wait of a manager has timed out

manager == <<life, m_startStopMutex, m_isRunning, m_mainLoop, m_glibThread>>
vars == <<manager, loops, glib, call, timedOut>>

\* "created": about to test m_mainLoop; "checked": about to read it again, as
\* the argument of g_main_loop_run; "called": with that argument; "entered":
\* holds the reference of g_main_loop_run and has not set is_running.
GlibPc == {"none", "created", "checked", "called", "entered", "running", "ended"}

GlibRecord == [pc : GlibPc, manager : Managers, loop : Loops \cup {NoLoop}]

CallPc == {"idle", "clean", "new", "spawn", "starting", "give_up",
           "quit", "stopping", "join", "move", "joining", "unref"}

CallRecord == [pc : CallPc, manager : Managers, thread : Glibs \cup {NoThread}]

IdleCall == [pc |-> "idle", manager |-> CHOOSE m \in Managers : TRUE, thread |-> NoThread]

NoGlib == [pc |-> "none", manager |-> IdleCall.manager, loop |-> NoLoop]

Init ==
    /\ life = [m \in Managers |-> "alive"]
    /\ m_startStopMutex = [m \in Managers |-> Nobody]
    /\ m_isRunning = [m \in Managers |-> FALSE]
    /\ m_mainLoop = [m \in Managers |-> NoLoop]
    /\ m_glibThread = [m \in Managers |-> NoThread]
    /\ LoopsInit
    /\ glib = [g \in Glibs |-> NoGlib]
    /\ call = [u \in Apps |-> IdleCall]
    /\ timedOut = FALSE

-----------------------------------------------------------------------------
(* The steps every call is made of.                                         *)

TimesOut(wait) == wait \in Failures /\ timedOut' = TRUE

At(u, pc) == call[u].pc = pc

GoTo(u, pc) == call' = [call EXCEPT ![u].pc = pc]

\* Entering start() or stop(): the mutex is held until Return.
Enter(u, m, pc) ==
    /\ At(u, "idle")
    /\ m_startStopMutex[m] = Nobody
    /\ m_startStopMutex' = [m_startStopMutex EXCEPT ![m] = u]
    /\ call' = [call EXCEPT ![u] = [pc |-> pc, manager |-> m, thread |-> NoThread]]

\* A destructor whose stop() returns is over.
Return(u) ==
    LET m == call[u].manager IN
    /\ m_startStopMutex' = [m_startStopMutex EXCEPT ![m] = Nobody]
    /\ life' = [life EXCEPT ![m] = IF @ = "dying" THEN "destroyed" ELSE @]
    /\ call' = [call EXCEPT ![u] = IdleCall]

-----------------------------------------------------------------------------
(* start()                                                                  *)

\* The call on a manager that is running returns at once and changes nothing.
Start(u, m) ==
    /\ life[m] = "alive"
    /\ ~m_isRunning[m]
    /\ Enter(u, m, "clean")
    /\ UNCHANGED <<life, m_isRunning, m_mainLoop, m_glibThread, loops, glib, timedOut>>

\* "Ensure clean state before start".
StartClean(u) ==
    LET m == call[u].manager IN
    /\ At(u, "clean")
    /\ loops' = g_main_loop_unref(m_mainLoop[m])
    /\ m_mainLoop' = [m_mainLoop EXCEPT ![m] = NoLoop]
    /\ GoTo(u, "new")
    /\ UNCHANGED <<life, m_startStopMutex, m_isRunning, m_glibThread, glib, timedOut>>

StartCreate(u) ==
    LET m == call[u].manager IN
    /\ At(u, "new")
    /\ \/ \E l \in Loops \ allocated :
             /\ loops' = g_main_loop_new(l)
             /\ m_mainLoop' = [m_mainLoop EXCEPT ![m] = l]
             /\ GoTo(u, "spawn")
             /\ UNCHANGED <<life, m_startStopMutex>>
       \/ /\ "new" \in Failures
          /\ Return(u)
          /\ UNCHANGED <<m_mainLoop, loops>>
    /\ UNCHANGED <<m_isRunning, m_glibThread, glib, timedOut>>

\* A thread that ended and is no longer joinable is as good as a new one.
Spawnable(g) ==
    /\ glib[g].pc \in {"none", "ended"}
    /\ \A m \in Managers : m_glibThread[m] # g
    /\ \A u \in Apps : call[u].thread # g

\* std::thread, whose failure is caught.
StartSpawn(u) ==
    LET m == call[u].manager IN
    /\ At(u, "spawn")
    /\ \/ \E g \in Glibs :
             /\ Spawnable(g)
             /\ glib' = [glib EXCEPT ![g] = [pc |-> "created", manager |-> m, loop |-> NoLoop]]
             /\ m_glibThread' = [m_glibThread EXCEPT ![m] = g]
             /\ GoTo(u, "starting")
             /\ UNCHANGED <<life, m_startStopMutex, m_mainLoop, loops>>
       \/ /\ "thread" \in Failures
          /\ loops' = g_main_loop_unref(m_mainLoop[m])
          /\ m_mainLoop' = [m_mainLoop EXCEPT ![m] = NoLoop]
          /\ Return(u)
          /\ UNCHANGED <<m_glibThread, glib>>
    /\ UNCHANGED <<m_isRunning, timedOut>>

\* Faulty start that does not wait for the loop to run.
StartWithoutWait(u) ==
    /\ At(u, "starting")
    /\ m_isRunning' = [m_isRunning EXCEPT ![call[u].manager] = TRUE]
    /\ Return(u)
    /\ UNCHANGED <<m_mainLoop, m_glibThread, loops, glib, timedOut>>

\* The wait ends when the loop runs, or times out.
StartWait(u) ==
    LET m == call[u].manager IN
    /\ At(u, "starting")
    /\ \/ /\ IsRunning(m_mainLoop[m])
          /\ m_isRunning' = [m_isRunning EXCEPT ![m] = TRUE]
          /\ Return(u)
          /\ UNCHANGED timedOut
       \/ /\ ~IsRunning(m_mainLoop[m])
          /\ TimesOut("start_timeout")
          /\ GoTo(u, "give_up")
          /\ UNCHANGED <<life, m_startStopMutex, m_isRunning>>
    /\ UNCHANGED <<m_mainLoop, m_glibThread, loops, glib>>

\* Faulty give-up that leaves the thread joinable.
GiveUpKeepsThread(u) ==
    LET m == call[u].manager
        l == m_mainLoop[m]
    IN  /\ At(u, "give_up")
        /\ loops' = IF loops[l].ref = 1 THEN [loops EXCEPT ![l] = FreedLoop]
                    ELSE [loops EXCEPT ![l] = [ref |-> loops[l].ref - 1, running |-> FALSE]]
        /\ m_mainLoop' = [m_mainLoop EXCEPT ![m] = NoLoop]
        /\ Return(u)
        /\ UNCHANGED <<m_isRunning, m_glibThread, glib, timedOut>>

\* The loop is told to quit and dropped, the thread is detached: it may still be
\* anywhere on its way into g_main_loop_run.
StartGiveUp(u) ==
    LET m == call[u].manager
        l == m_mainLoop[m]
    IN  /\ At(u, "give_up")
        /\ loops' = IF l \notin allocated THEN loops
                    ELSE IF loops[l].ref = 1 THEN [loops EXCEPT ![l] = FreedLoop]
                    ELSE [loops EXCEPT ![l] = [ref |-> loops[l].ref - 1, running |-> FALSE]]
        /\ m_mainLoop' = [m_mainLoop EXCEPT ![m] = NoLoop]
        /\ m_glibThread' = [m_glibThread EXCEPT ![m] = NoThread]
        /\ Return(u)
        /\ UNCHANGED <<m_isRunning, glib, timedOut>>

-----------------------------------------------------------------------------
(* stop() and the destructor                                                *)

\* The call on a manager that is not running returns at once.
Stop(u, m) ==
    /\ life[m] = "alive"
    /\ m_isRunning[m]
    /\ Enter(u, m, "quit")
    /\ m_isRunning' = [m_isRunning EXCEPT ![m] = FALSE]
    /\ UNCHANGED <<life, m_mainLoop, m_glibThread, loops, glib, timedOut>>

\* ~GMainLoopManager, called when no other thread uses the manager: stop() in a
\* thread of std::async, whose future is waited for even after a timeout.
Destroy(u, m) ==
    /\ life[m] = "alive"
    /\ \/ /\ m_isRunning[m]
          /\ Enter(u, m, "quit")
          /\ m_isRunning' = [m_isRunning EXCEPT ![m] = FALSE]
          /\ life' = [life EXCEPT ![m] = "dying"]
       \/ /\ ~m_isRunning[m] /\ m_startStopMutex[m] = Nobody
          /\ life' = [life EXCEPT ![m] = "destroyed"]
          /\ UNCHANGED <<m_startStopMutex, m_isRunning, call>>
    /\ UNCHANGED <<m_mainLoop, m_glibThread, loops, glib, timedOut>>

\* The destructor times out and detaches the thread, while stop() may be about
\* to move it.
DestructorTimeout(m) ==
    /\ TimesOut("destructor_timeout")
    /\ life[m] = "dying"
    /\ m_glibThread[m] # NoThread
    /\ m_glibThread' = [m_glibThread EXCEPT ![m] = NoThread]
    /\ UNCHANGED <<life, m_startStopMutex, m_isRunning, m_mainLoop, loops, glib, call>>

StopQuit(u) ==
    /\ At(u, "quit")
    /\ loops' = g_main_loop_quit(m_mainLoop[call[u].manager])
    /\ GoTo(u, "stopping")
    /\ UNCHANGED <<manager, glib, timedOut>>

StopWait(u) ==
    /\ At(u, "stopping")
    /\ \/ ~IsRunning(m_mainLoop[call[u].manager]) /\ UNCHANGED timedOut
       \/ IsRunning(m_mainLoop[call[u].manager]) /\ TimesOut("stop_timeout")
    /\ GoTo(u, "join")
    /\ UNCHANGED <<manager, loops, glib>>

StopJoinable(u) ==
    /\ At(u, "join")
    /\ GoTo(u, IF m_glibThread[call[u].manager] = NoThread THEN "unref" ELSE "move")
    /\ UNCHANGED <<manager, loops, glib, timedOut>>

\* std::move(m_glibThread) into the thread that joins it.  Joining no thread
\* terminates the program, which is not followed (see MovedThreadExists).
StopMove(u) ==
    LET m == call[u].manager IN
    /\ At(u, "move")
    /\ m_glibThread[m] # NoThread
    /\ call' = [call EXCEPT ![u].pc = "joining", ![u].thread = m_glibThread[m]]
    /\ m_glibThread' = [m_glibThread EXCEPT ![m] = NoThread]
    /\ UNCHANGED <<life, m_startStopMutex, m_isRunning, m_mainLoop, loops, glib, timedOut>>

\* Faulty stop that detaches the thread instead of joining it.
StopDetaches(u) ==
    /\ At(u, "joining")
    /\ call' = [call EXCEPT ![u].pc = "unref", ![u].thread = NoThread]
    /\ UNCHANGED <<manager, loops, glib, timedOut>>

\* The thread is joined, or the joiner is left behind after a timeout.  A joiner
\* that cannot be created terminates the program, since its closure is destroyed
\* with a joinable thread: this is not followed.
StopJoin(u) ==
    /\ At(u, "joining")
    /\ \/ glib[call[u].thread].pc = "ended" /\ UNCHANGED timedOut
       \/ glib[call[u].thread].pc # "ended" /\ TimesOut("join_timeout")
    /\ call' = [call EXCEPT ![u].pc = "unref", ![u].thread = NoThread]
    /\ UNCHANGED <<manager, loops, glib>>

\* Faulty stop that drops the reference of the thread with its own.
StopUnrefTwice(u) ==
    /\ At(u, "unref")
    /\ loops' = [loops EXCEPT ![m_mainLoop[call[u].manager]].ref = @ - 2]
    /\ Return(u)
    /\ UNCHANGED <<m_isRunning, m_mainLoop, m_glibThread, glib, timedOut>>

\* Faulty stop that keeps its reference.
StopKeepsLoop(u) ==
    /\ At(u, "unref")
    /\ Return(u)
    /\ UNCHANGED <<m_isRunning, m_mainLoop, m_glibThread, loops, glib, timedOut>>

\* The reference is dropped; m_mainLoop keeps its value.
StopUnref(u) ==
    /\ At(u, "unref")
    /\ loops' = g_main_loop_unref(m_mainLoop[call[u].manager])
    /\ Return(u)
    /\ UNCHANGED <<m_isRunning, m_mainLoop, m_glibThread, glib, timedOut>>

\* A manager is constructed in the place of one that was destroyed.
Construct(m) ==
    /\ life[m] = "destroyed"
    /\ life' = [life EXCEPT ![m] = "alive"]
    /\ m_mainLoop' = [m_mainLoop EXCEPT ![m] = NoLoop]
    /\ m_glibThread' = [m_glibThread EXCEPT ![m] = NoThread]
    /\ UNCHANGED <<m_startStopMutex, m_isRunning, loops, glib, call, timedOut>>

-----------------------------------------------------------------------------
(* The thread of a loop.                                                    *)

GlibGoTo(g, pc) == glib' = [glib EXCEPT ![g].pc = pc]

\* m_mainLoop is tested, then read again.
GlibCheck(g) ==
    /\ glib[g].pc = "created"
    /\ GlibGoTo(g, IF m_mainLoop[glib[g].manager] = NoLoop THEN "ended" ELSE "checked")
    /\ UNCHANGED <<manager, loops, call, timedOut>>

GlibCall(g) ==
    LET l == m_mainLoop[glib[g].manager] IN
    /\ glib[g].pc = "checked"
    /\ glib' = [glib EXCEPT ![g] = [pc |-> IF l = NoLoop THEN "ended" ELSE "called",
                                    manager |-> glib[g].manager, loop |-> l]]
    /\ UNCHANGED <<manager, loops, call, timedOut>>

\* g_main_loop_run takes its reference, on a loop that is allocated: what it
\* does with another is undefined and not followed.
GlibRun(g) ==
    LET l == glib[g].loop IN
    /\ glib[g].pc = "called"
    /\ l \in allocated
    /\ loops' = TakesReference(l)
    /\ GlibGoTo(g, "entered")
    /\ UNCHANGED <<manager, call, timedOut>>

\* It sets is_running, whatever was asked before.
GlibRunning(g) ==
    LET l == glib[g].loop IN
    /\ glib[g].pc = "entered"
    /\ loops' = SetsRunning(l)
    /\ GlibGoTo(g, "running")
    /\ UNCHANGED <<manager, call, timedOut>>

\* It returns once the loop was told to quit, and drops its reference.
GlibLeave(g) ==
    LET l == glib[g].loop IN
    /\ glib[g].pc = "running"
    /\ ~IsRunning(l)
    /\ loops' = g_main_loop_unref(l)
    /\ GlibGoTo(g, "ended")
    /\ UNCHANGED <<manager, call, timedOut>>

-----------------------------------------------------------------------------
CallStep(u) ==
    \/ StartClean(u) \/ StartCreate(u) \/ StartSpawn(u) \/ StartWait(u) \/ StartGiveUp(u)
    \/ StopQuit(u) \/ StopWait(u) \/ StopJoinable(u) \/ StopMove(u) \/ StopJoin(u) \/ StopUnref(u)

GlibStep(g) ==
    GlibCheck(g) \/ GlibCall(g) \/ GlibRun(g) \/ GlibRunning(g) \/ GlibLeave(g)

Next ==
    \/ \E u \in Apps, m \in Managers : Start(u, m) \/ Stop(u, m) \/ Destroy(u, m)
    \/ \E u \in Apps : CallStep(u)
    \/ \E m \in Managers : DestructorTimeout(m) \/ Construct(m)
    \/ \E g \in Glibs : GlibStep(g)

Spec == Init /\ [][Next]_vars

\* The threads are scheduled, and no timeout is relied on.  Nothing is assumed of
\* the users of the managers.
FairSpec ==
    /\ Spec
    /\ \A u \in Apps : WF_vars(CallStep(u) /\ timedOut' = timedOut)
    /\ \A g \in Glibs : WF_vars(GlibStep(g))

-----------------------------------------------------------------------------
(* Properties.                                                             *)

TypeOK ==
    /\ life \in [Managers -> {"alive", "dying", "destroyed"}]
    /\ m_startStopMutex \in [Managers -> Apps \cup {Nobody}]
    /\ m_isRunning \in [Managers -> BOOLEAN]
    /\ m_mainLoop \in [Managers -> Loops \cup {NoLoop}]
    /\ m_glibThread \in [Managers -> Glibs \cup {NoThread}]
    /\ loops \in [Loops -> LoopRecord]
    /\ timedOut \in BOOLEAN
    /\ glib \in [Glibs -> GlibRecord]
    /\ call \in [Apps -> CallRecord]

\* A manager that says it is running has a loop that runs, in the thread that
\* its stop() will join: neither a late thread, nor a failed start, nor a
\* restart may leave it with a loop that is gone or that nobody runs, as long as
\* no wait of the manager times out.
RunningLoopAlive ==
    ~timedOut => \A m \in Managers : m_isRunning[m] =>
        /\ IsRunning(m_mainLoop[m])
        /\ \E g \in Glibs : /\ m_glibThread[m] = g
                            /\ glib[g].pc = "running"
                            /\ glib[g].loop = m_mainLoop[m]

\* When no call is in progress on a manager that is not running, nothing of it
\* is left: no joinable thread and no thread on its way into a loop, unless a
\* wait timed out, which leaves a thread behind on purpose.
NothingLeftBehind ==
    ~timedOut => \A m \in Managers : m_startStopMutex[m] = Nobody /\ ~m_isRunning[m] =>
        /\ m_glibThread[m] = NoThread
        /\ \A g \in Glibs : glib[g].manager = m => glib[g].pc \in {"none", "ended"}

\* start() never assigns to a joinable std::thread, which would terminate the
\* program: every way out of stop() and of a failed start() leaves none behind,
\* whatever fails or times out.
ThreadSlotFree ==
    \A u \in Apps : At(u, "spawn") => m_glibThread[call[u].manager] = NoThread

\* The manager owns its loop from its creation in start() to the end of stop(),
\* not through the pointer it keeps afterwards.
Owner(m) ==
    \/ m_isRunning[m]
    \/ \E u \in Apps : /\ m_startStopMutex[m] = u
                       /\ call[u].pc \notin {"idle", "clean", "new"}

LoopUsers(l) ==
    Cardinality({m \in Managers : Owner(m) /\ m_mainLoop[m] = l})
    + Cardinality({g \in Glibs : glib[g].pc \in {"entered", "running"} /\ glib[g].loop = l})

LoopLife ==
    INSTANCE Lifetime WITH Objects <- Loops, alive <- allocated,
                           users <- [l \in Loops |-> LoopUsers(l)]

\* A GMainLoop lives as Lifetime says: the manager and the threads inside
\* g_main_loop_run are its users, it is freed when the last of them leaves and
\* none is leaked, through failures of start() and any number of restarts, up to
\* the first timeout: a loop that is dropped under its thread has no owner.
LoopLifetime == LoopLife!Init /\ [][timedOut' \/ LoopLife!Next]_vars

\* start() and stop() return, without the help of their timeouts: a quit is
\* never lost, and the thread that is joined does end.
CallsReturn == \A u \in Apps : ~At(u, "idle") ~> At(u, "idle") \/ timedOut

-----------------------------------------------------------------------------
(* What the repository says of the program and the code does not do.        *)

\* cpp/src/gmain_loop_manager.cpp, start(): "Ensures clean state before start
\* (unrefs existing loop)" and "Resource cleanup: Safe to call multiple times",
\* so the loop that start() drops is one the manager still has a reference to.
CleansItsOwnLoop ==
    \A u \in Apps : At(u, "clean") => m_mainLoop[call[u].manager] \in allocated \cup {NoLoop}

\* cpp/src/gmain_loop_manager.cpp, ~GMainLoopManager: "Force cleanup - detach
\* thread", so that stop() is not about to move the thread it found joinable.
MovedThreadExists ==
    \A u \in Apps : At(u, "move") => m_glibThread[call[u].manager] # NoThread
=============================================================================
