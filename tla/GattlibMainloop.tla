--------------------------- MODULE GattlibMainloop ---------------------------
(***************************************************************************)
(* gattlib_mainloop: common/mainloop/gattlib_glib_mainloop.c.              *)
(*                                                                         *)
(* A call creates the main loop, starts a thread that executes the task of *)
(* the application and then quits the loop, runs the loop until then and   *)
(* joins the thread.  Nothing protects m_main_loop: a second call that     *)
(* finds one answers GATTLIB_BUSY, and two calls that both find none       *)
(* overwrite it.  The argument of the thread is on the stack of the call.  *)
(***************************************************************************)
EXTENDS GMainLoop, FiniteSets

CONSTANTS
    Callers,   \* the threads that call gattlib_mainloop
    Failures   \* {"thread"} when its thread may not be created

ASSUME MainloopAssumption ==
    /\ NoLoop \notin Loops
    /\ Failures \subseteq {"thread"}

VARIABLES
    m_main_loop,
    call,     \* what each caller is doing, and the loop that it runs
    task,     \* the thread of its task, also after the call
    busy,     \* history: a failed call has left m_main_loop set
    raced,    \* history: two calls have found no main loop at the same time
    lost      \* history: a task has quit a loop that did not run yet

vars == <<loops, m_main_loop, call, task, busy, raced, lost>>

CallPc == {"idle", "new", "spawn", "run", "entered", "running", "unref", "join", "reset"}

IdleCall == [pc |-> "idle", loop |-> NoLoop]

TaskPc == {"none", "executing", "quit", "ended"}

Init ==
    /\ LoopsInit
    /\ m_main_loop = NoLoop
    /\ call = [u \in Callers |-> IdleCall]
    /\ task = [u \in Callers |-> "none"]
    /\ busy = FALSE
    /\ raced = FALSE
    /\ lost = FALSE

At(u, pc) == call[u].pc = pc

GoTo(u, pc) == call' = [call EXCEPT ![u].pc = pc]

-----------------------------------------------------------------------------
(* gattlib_mainloop                                                         *)

\* Faulty call that does not look for a main loop.
EntersAnyway(u) ==
    /\ At(u, "idle")
    /\ GoTo(u, "new")
    /\ raced' = (raced \/ \E v \in Callers : At(v, "new"))
    /\ UNCHANGED <<loops, m_main_loop, task, busy, lost>>

\* Otherwise the call answers GATTLIB_BUSY and changes nothing.
Enter(u) ==
    /\ At(u, "idle")
    /\ m_main_loop = NoLoop
    /\ GoTo(u, "new")
    /\ raced' = (raced \/ \E v \in Callers : At(v, "new"))
    /\ UNCHANGED <<loops, m_main_loop, task, busy, lost>>

Create(u) ==
    /\ At(u, "new")
    /\ \E l \in Loops \ allocated :
          /\ loops' = g_main_loop_new(l)
          /\ m_main_loop' = l
    /\ GoTo(u, "spawn")
    /\ UNCHANGED <<task, busy, raced, lost>>

\* A call that fails keeps its loop, and every later one is answered BUSY.
Spawn(u) ==
    /\ At(u, "spawn")
    /\ \/ /\ task' = [task EXCEPT ![u] = "executing"]
          /\ GoTo(u, "run")
          /\ UNCHANGED busy
       \/ /\ "thread" \in Failures
          /\ call' = [call EXCEPT ![u] = IdleCall]
          /\ busy' = TRUE
          /\ UNCHANGED task
    /\ UNCHANGED <<loops, m_main_loop, raced, lost>>

\* g_main_loop_run(m_main_loop) takes its reference.
Run(u) ==
    /\ At(u, "run")
    /\ m_main_loop \in allocated
    /\ loops' = TakesReference(m_main_loop)
    /\ call' = [call EXCEPT ![u] = [pc |-> "entered", loop |-> m_main_loop]]
    /\ UNCHANGED <<m_main_loop, task, busy, raced, lost>>

Running(u) ==
    /\ At(u, "entered")
    /\ loops' = SetsRunning(call[u].loop)
    /\ GoTo(u, "running")
    /\ UNCHANGED <<m_main_loop, task, busy, raced, lost>>

RunReturns(u) ==
    /\ At(u, "running")
    /\ ~IsRunning(call[u].loop)
    /\ loops' = g_main_loop_unref(call[u].loop)
    /\ GoTo(u, "unref")
    /\ UNCHANGED <<m_main_loop, task, busy, raced, lost>>

\* Faulty end that forgets the reference of g_main_loop_new.
KeepsLoop(u) ==
    /\ At(u, "unref")
    /\ GoTo(u, "join")
    /\ UNCHANGED <<loops, m_main_loop, task, busy, raced, lost>>

Unref(u) ==
    /\ At(u, "unref")
    /\ loops' = g_main_loop_unref(m_main_loop)
    /\ GoTo(u, "join")
    /\ UNCHANGED <<m_main_loop, task, busy, raced, lost>>

Join(u) ==
    /\ At(u, "join")
    /\ task[u] = "ended"
    /\ GoTo(u, "reset")
    /\ UNCHANGED <<loops, m_main_loop, task, busy, raced, lost>>

Reset(u) ==
    /\ At(u, "reset")
    /\ m_main_loop' = NoLoop
    /\ call' = [call EXCEPT ![u] = IdleCall]
    /\ task' = [task EXCEPT ![u] = "none"]
    /\ UNCHANGED <<loops, busy, raced, lost>>

-----------------------------------------------------------------------------
(* _execute_task                                                            *)

TaskEnds(u) ==
    /\ task[u] = "executing"
    /\ task' = [task EXCEPT ![u] = "quit"]
    /\ UNCHANGED <<loops, m_main_loop, call, busy, raced, lost>>

\* Faulty thread that leaves the loop running.
EndsWithoutQuit(u) ==
    /\ task[u] = "quit"
    /\ task' = [task EXCEPT ![u] = "ended"]
    /\ UNCHANGED <<loops, m_main_loop, call, busy, raced, lost>>

Quit(u) ==
    /\ task[u] = "quit"
    /\ loops' = g_main_loop_quit(m_main_loop)
    /\ task' = [task EXCEPT ![u] = "ended"]
    /\ lost' = (lost \/ ~IsRunning(m_main_loop))
    /\ UNCHANGED <<m_main_loop, call, busy, raced>>

-----------------------------------------------------------------------------
CallStep(u) ==
    Create(u) \/ Spawn(u) \/ Run(u) \/ Running(u) \/ RunReturns(u) \/ Unref(u) \/ Join(u) \/ Reset(u)

Next == \E u \in Callers : Enter(u) \/ CallStep(u) \/ TaskEnds(u) \/ Quit(u)

Spec == Init /\ [][Next]_vars

\* The threads are scheduled.  The task of the application need not end.
FairSpec == Spec /\ \A u \in Callers : WF_vars(CallStep(u)) /\ WF_vars(Quit(u))

-----------------------------------------------------------------------------
(* Properties.                                                             *)

TypeOK ==
    /\ loops \in [Loops -> LoopRecord]
    /\ m_main_loop \in Loops \cup {NoLoop}
    /\ call \in [Callers -> [pc : CallPc, loop : Loops \cup {NoLoop}]]
    /\ task \in [Callers -> TaskPc]
    /\ {busy, raced, lost} \subseteq BOOLEAN

\* The thread of a task reads its argument, which is on the stack of the call,
\* and m_main_loop: both exist until it ends, and the loop it quits is the one
\* that its own call runs, as long as two calls do not begin at the same time.
TaskOutlived ==
    ~raced => \A u \in Callers : task[u] \in {"executing", "quit"} =>
        /\ call[u].pc \in {"run", "entered", "running"}
        /\ m_main_loop \in allocated
        /\ ~At(u, "run") => call[u].loop = m_main_loop

\* A call that returns leaves no loop behind and the next one can begin, unless a
\* thread could not be created.
LoopNotLeft ==
    ~raced /\ ~busy /\ (\A u \in Callers : call[u].pc \in {"idle", "new"}) =>
        m_main_loop = NoLoop /\ allocated = {}

\* When its task has ended the call returns, unless the quit came before the run.
MainloopReturns ==
    \A u \in Callers : task[u] = "ended" ~> At(u, "idle") \/ lost \/ raced

-----------------------------------------------------------------------------
(* What the repository says and the code does not do.                      *)

\* "We make this variable global to be able to exit the main loop"
\* (gattlib_glib_mainloop.c:14): the thread of a task that has ended, however
\* soon, makes its loop exit.
TaskExitsLoop == \A u \in Callers : task[u] = "ended" ~> At(u, "idle") \/ raced

\* A call that failed has not left the library busy: "Main loop is already
\* running" (gattlib_glib_mainloop.c:39) is answered while a loop runs.
BusyWhileRunning == m_main_loop # NoLoop => \E u \in Callers : ~At(u, "idle")
=============================================================================
