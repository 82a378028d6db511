------------------------ MODULE GattlibMainloopProofs ------------------------
(***************************************************************************)
(* What GattlibMainloop says of its main loop, proved for every number of  *)
(* callers and of memory places.                                           *)
(*                                                                         *)
(* TaskOutlived and LoopNotLeft are not inductive.  As long as two calls   *)
(* have not found no main loop at the same time, one call at most is       *)
(* active, and what it is doing fixes who holds the main loop: CallHasLoop *)
(* says for each of its steps which references exist and what its task may *)
(* still be doing.                                                         *)
(***************************************************************************)
EXTENDS GattlibMainloop, TLAPS

Active(u) == ~At(u, "idle")

\* No main loop is left, or a failed call has left it.
NobodyHasLoop == ~busy => m_main_loop = NoLoop /\ allocated = {}

\* The main loop is the only one, with this number of references.
OnlyLoop(n) == m_main_loop \in Loops /\ allocated = {m_main_loop} /\ loops[m_main_loop].ref = n

\* For each step of a call: the main loop and its references, and its task.
CallHasLoop(u) ==
    /\ At(u, "new") => m_main_loop = NoLoop /\ allocated = {} /\ task[u] = "none"
    /\ At(u, "spawn") => OnlyLoop(1) /\ task[u] = "none"
    /\ At(u, "run") => OnlyLoop(1) /\ task[u] # "none"
    /\ call[u].pc \in {"entered", "running"} =>
          OnlyLoop(2) /\ call[u].loop = m_main_loop /\ task[u] # "none"
    /\ At(u, "running") => (loops[m_main_loop].running \/ task[u] = "ended")
    /\ At(u, "unref") => OnlyLoop(1) /\ task[u] = "ended"
    /\ call[u].pc \in {"join", "reset"} =>
          m_main_loop \in Loops /\ allocated = {} /\ task[u] = "ended"

OneCall ==
    /\ \A u, v \in Callers : Active(u) /\ Active(v) => u = v
    /\ \A u \in Callers : Active(u) => ~busy /\ CallHasLoop(u)
    /\ \A u \in Callers : At(u, "idle") => task[u] = "none"
    /\ (\A u \in Callers : At(u, "idle")) => NobodyHasLoop
    /\ busy => m_main_loop # NoLoop

IInv == TypeOK /\ (~raced => OneCall)

-----------------------------------------------------------------------------
(* The references of the main loop.                                         *)

\* g_main_loop_unref never takes a counter below zero, whatever its argument.
LEMMA UnrefTyped ==
    ASSUME loops \in [Loops -> LoopRecord], NEW l
    PROVE  g_main_loop_unref(l) \in [Loops -> LoopRecord]
BY DEF g_main_loop_unref, allocated, LoopRecord, FreedLoop

LEMMA QuitTyped ==
    ASSUME loops \in [Loops -> LoopRecord], NEW l
    PROVE  /\ g_main_loop_quit(l) \in [Loops -> LoopRecord]
           /\ SetsRunning(l) \in [Loops -> LoopRecord]
BY DEF g_main_loop_quit, SetsRunning, allocated, LoopRecord

\* One reference less on the only loop: with one it is freed.
LEMMA UnrefOnly ==
    ASSUME loops \in [Loops -> LoopRecord], NEW n \in {1, 2}, OnlyLoop(n),
           m_main_loop' = m_main_loop, loops' = g_main_loop_unref(m_main_loop)
    PROVE  /\ n = 2 => OnlyLoop(1)'
           /\ n = 1 => allocated' = {}
BY DEF OnlyLoop, g_main_loop_unref, allocated, LoopRecord, FreedLoop

\* The flag does not change the references.
LEMMA FlagKeepsReferences ==
    ASSUME loops \in [Loops -> LoopRecord], NEW n \in Nat, OnlyLoop(n), m_main_loop' = m_main_loop,
           \/ loops' = SetsRunning(m_main_loop)
           \/ loops' = g_main_loop_quit(m_main_loop)
    PROVE  /\ OnlyLoop(n)'
           /\ loops' = SetsRunning(m_main_loop) => loops'[m_main_loop].running
BY DEF OnlyLoop, g_main_loop_quit, SetsRunning, allocated, LoopRecord

-----------------------------------------------------------------------------
(* Types.                                                                   *)

LEMMA InitTyped == Init => TypeOK
<1> SUFFICES ASSUME Init PROVE TypeOK
    OBVIOUS
<1>1. loops \in [Loops -> LoopRecord]
    BY DEF Init, LoopsInit, LoopRecord, FreedLoop
<1>2. IdleCall \in [pc : CallPc, loop : Loops \cup {NoLoop}] /\ "none" \in TaskPc
    BY DEF IdleCall, CallPc, TaskPc
<1> QED
    BY <1>1, <1>2 DEF Init, TypeOK

LEMMA StepTyped == TypeOK /\ [Next]_vars => TypeOK'
<1> SUFFICES ASSUME TypeOK, [Next]_vars PROVE TypeOK'
    OBVIOUS
<1> USE DEF TypeOK, CallPc, TaskPc, GoTo
<1>1. ASSUME NEW u \in Callers, Enter(u) PROVE TypeOK'
    BY <1>1 DEF Enter
<1>2. ASSUME NEW u \in Callers, Create(u) PROVE TypeOK'
    BY <1>2 DEF Create, g_main_loop_new, LoopRecord
<1>3. ASSUME NEW u \in Callers, Spawn(u) PROVE TypeOK'
    <2>1. IdleCall \in [pc : CallPc, loop : Loops \cup {NoLoop}]
        BY DEF IdleCall
    <2>2. call' \in [Callers -> [pc : CallPc, loop : Loops \cup {NoLoop}]]
        BY <1>3, <2>1 DEF Spawn
    <2>3. task' \in [Callers -> TaskPc] /\ {busy', raced', lost'} \subseteq BOOLEAN
        BY <1>3 DEF Spawn
    <2> QED
        BY <1>3, <2>2, <2>3 DEF Spawn
<1>4. ASSUME NEW u \in Callers, Run(u) PROVE TypeOK'
    BY <1>4 DEF Run, TakesReference, LoopRecord, allocated
<1>5. ASSUME NEW u \in Callers, Running(u) PROVE TypeOK'
    BY <1>5, QuitTyped DEF Running
<1>6. ASSUME NEW u \in Callers, RunReturns(u) PROVE TypeOK'
    BY <1>6, UnrefTyped DEF RunReturns
<1>7. ASSUME NEW u \in Callers, Unref(u) PROVE TypeOK'
    BY <1>7, UnrefTyped DEF Unref
<1>8. ASSUME NEW u \in Callers, Join(u) PROVE TypeOK'
    BY <1>8 DEF Join
<1>9. ASSUME NEW u \in Callers, Reset(u) PROVE TypeOK'
    BY <1>9 DEF Reset, IdleCall
<1>10. ASSUME NEW u \in Callers, TaskEnds(u) PROVE TypeOK'
    BY <1>10 DEF TaskEnds
<1>11. ASSUME NEW u \in Callers, Quit(u) PROVE TypeOK'
    BY <1>11, QuitTyped DEF Quit
<1>12. CASE UNCHANGED vars
    BY <1>12 DEF vars
<1> QED
    BY <1>1, <1>2, <1>3, <1>4, <1>5, <1>6, <1>7, <1>8, <1>9, <1>10, <1>11, <1>12
    DEF Next, CallStep

\* The records, the places and the steps of a call are always what the code can
\* hold: no counter of references goes below zero, not even when the calls race.
THEOREM Typed == Spec => []TypeOK
BY InitTyped, StepTyped, PTL DEF Spec

-----------------------------------------------------------------------------
(* The one call that is active.                                             *)

\* When only u can be active, what u does is all there is to show.
LEMMA OnlyThisCall ==
    ASSUME NEW u \in Callers,
           \A v \in Callers \ {u} : At(v, "idle")' /\ task'[v] = "none",
           Active(u)' => ~busy' /\ CallHasLoop(u)',
           At(u, "idle")' => task'[u] = "none" /\ NobodyHasLoop',
           busy' => m_main_loop' # NoLoop
    PROVE  OneCall'
BY DEF OneCall, Active, At

\* A step of u that leaves the other callers alone.
LEMMA OthersIdle ==
    ASSUME TypeOK, OneCall, NEW u \in Callers, Active(u),
           \A v \in Callers \ {u} : call'[v] = call[v] /\ task'[v] = task[v]
    PROVE  \A v \in Callers \ {u} : At(v, "idle")' /\ task'[v] = "none"
BY DEF OneCall, Active, At

LEMMA InitOneCall == Init => OneCall
BY DEF Init, LoopsInit, FreedLoop, IdleCall, OneCall, Active, At, NobodyHasLoop, allocated

\* A call begins when nobody is active, or the calls race.
LEMMA EnterOneCall ==
    ASSUME TypeOK, OneCall, ~raced', NEW u \in Callers, Enter(u)
    PROVE  OneCall'
<1>1. \A v \in Callers : At(v, "idle")
    BY MainloopAssumption DEF Enter, OneCall, Active, At, CallHasLoop, OnlyLoop, TypeOK, CallPc
<1>2. ~busy /\ allocated = {} /\ task[u] = "none"
    BY <1>1 DEF Enter, OneCall, NobodyHasLoop
<1>3. \A v \in Callers \ {u} : At(v, "idle")' /\ task'[v] = "none"
    BY <1>1 DEF Enter, GoTo, At, OneCall, TypeOK
<1>4. call'[u].pc = "new" /\ allocated' = {} /\ ~busy' /\ m_main_loop' = NoLoop /\ task'[u] = "none"
    BY <1>2 DEF Enter, GoTo, TypeOK, allocated
<1>5. CallHasLoop(u)'
    BY <1>4 DEF CallHasLoop, At
<1> QED
    BY <1>3, <1>4, <1>5, OnlyThisCall DEF At

LEMMA CreateOneCall ==
    ASSUME TypeOK, OneCall, NEW u \in Callers, Create(u)
    PROVE  OneCall'
<1>1. Active(u) /\ ~busy /\ CallHasLoop(u)
    BY DEF Create, At, Active, OneCall
<1>2. \A v \in Callers \ {u} : At(v, "idle")' /\ task'[v] = "none"
    BY <1>1, OthersIdle DEF Create, GoTo, TypeOK
<1>3. call'[u].pc = "spawn" /\ ~busy' /\ task'[u] = "none"
    BY <1>1 DEF Create, GoTo, TypeOK, CallHasLoop
<1>4. OnlyLoop(1)'
    BY <1>1 DEF Create, TypeOK, CallHasLoop, OnlyLoop, allocated, g_main_loop_new, LoopRecord
<1> QED
    BY <1>2, <1>3, <1>4, OnlyThisCall DEF CallHasLoop, At

LEMMA SpawnOneCall ==
    ASSUME TypeOK, OneCall, NEW u \in Callers, Spawn(u)
    PROVE  OneCall'
<1>1. Active(u) /\ ~busy /\ CallHasLoop(u)
    BY DEF Spawn, At, Active, OneCall
<1>2. \A v \in Callers \ {u} : At(v, "idle")' /\ task'[v] = "none"
    BY <1>1, OthersIdle DEF Spawn, GoTo, TypeOK
<1>3. OnlyLoop(1)' /\ m_main_loop' # NoLoop
    BY <1>1, MainloopAssumption DEF Spawn, CallHasLoop, OnlyLoop, allocated
<1>4. \/ call'[u].pc = "run" /\ ~busy' /\ task'[u] = "executing"
      \/ call'[u].pc = "idle" /\ busy' /\ task'[u] = "none"
    BY <1>1 DEF Spawn, GoTo, TypeOK, CallHasLoop, IdleCall
<1>5. Active(u)' => ~busy' /\ CallHasLoop(u)'
    BY <1>3, <1>4 DEF Active, At, CallHasLoop
<1>6. At(u, "idle")' => task'[u] = "none" /\ NobodyHasLoop'
    BY <1>4 DEF At, NobodyHasLoop
<1> QED
    BY <1>2, <1>3, <1>5, <1>6, OnlyThisCall

LEMMA RunOneCall ==
    ASSUME TypeOK, OneCall, NEW u \in Callers, Run(u)
    PROVE  OneCall'
<1>1. Active(u) /\ ~busy /\ CallHasLoop(u)
    BY DEF Run, At, Active, OneCall
<1>2. \A v \in Callers \ {u} : At(v, "idle")' /\ task'[v] = "none"
    BY <1>1, OthersIdle DEF Run, TypeOK
<1>3. OnlyLoop(2)'
    BY <1>1 DEF Run, TypeOK, CallHasLoop, OnlyLoop, allocated, TakesReference, LoopRecord
<1>4. /\ call'[u].pc = "entered" /\ call'[u].loop = m_main_loop'
      /\ ~busy' /\ task'[u] # "none"
    BY <1>1 DEF Run, TypeOK, CallHasLoop
<1> QED
    BY <1>2, <1>3, <1>4, OnlyThisCall DEF CallHasLoop, At

LEMMA RunningOneCall ==
    ASSUME TypeOK, OneCall, NEW u \in Callers, Running(u)
    PROVE  OneCall'
<1>1. Active(u) /\ ~busy /\ CallHasLoop(u)
    BY DEF Running, At, Active, OneCall
<1>2. \A v \in Callers \ {u} : At(v, "idle")' /\ task'[v] = "none"
    BY <1>1, OthersIdle DEF Running, GoTo, TypeOK
<1>3. OnlyLoop(2) /\ call[u].loop = m_main_loop /\ task[u] # "none"
    BY <1>1 DEF Running, CallHasLoop, At
<1>4. OnlyLoop(2)' /\ loops'[m_main_loop].running /\ m_main_loop' = m_main_loop
    BY <1>3, FlagKeepsReferences DEF Running, TypeOK
<1>5. /\ call'[u].pc = "running" /\ call'[u].loop = m_main_loop'
      /\ ~busy' /\ task'[u] # "none"
    BY <1>1, <1>3 DEF Running, GoTo, TypeOK
<1> QED
    BY <1>2, <1>4, <1>5, OnlyThisCall DEF CallHasLoop, At

\* The loop has been quit, and only the task of the call does so when it ends.
LEMMA RunReturnsOneCall ==
    ASSUME TypeOK, OneCall, NEW u \in Callers, RunReturns(u)
    PROVE  OneCall'
<1>1. Active(u) /\ ~busy /\ CallHasLoop(u)
    BY DEF RunReturns, At, Active, OneCall
<1>2. \A v \in Callers \ {u} : At(v, "idle")' /\ task'[v] = "none"
    BY <1>1, OthersIdle DEF RunReturns, GoTo, TypeOK
<1>3. OnlyLoop(2) /\ call[u].loop = m_main_loop /\ task[u] = "ended"
    BY <1>1 DEF RunReturns, CallHasLoop, At, IsRunning, OnlyLoop
<1>4. OnlyLoop(1)'
    BY <1>3, UnrefOnly DEF RunReturns, TypeOK
<1>5. call'[u].pc = "unref" /\ ~busy' /\ task'[u] = "ended"
    BY <1>1, <1>3 DEF RunReturns, GoTo, TypeOK
<1> QED
    BY <1>2, <1>4, <1>5, OnlyThisCall DEF CallHasLoop, At

LEMMA UnrefOneCall ==
    ASSUME TypeOK, OneCall, NEW u \in Callers, Unref(u)
    PROVE  OneCall'
<1>1. Active(u) /\ ~busy /\ CallHasLoop(u)
    BY DEF Unref, At, Active, OneCall
<1>2. \A v \in Callers \ {u} : At(v, "idle")' /\ task'[v] = "none"
    BY <1>1, OthersIdle DEF Unref, GoTo, TypeOK
<1>3. OnlyLoop(1) /\ task[u] = "ended"
    BY <1>1 DEF Unref, CallHasLoop
<1>4. allocated' = {} /\ m_main_loop' \in Loops
    BY <1>3, UnrefOnly DEF Unref, TypeOK, OnlyLoop
<1>5. call'[u].pc = "join" /\ ~busy' /\ task'[u] = "ended"
    BY <1>1, <1>3 DEF Unref, GoTo, TypeOK
<1> QED
    BY <1>2, <1>4, <1>5, OnlyThisCall DEF CallHasLoop, At

LEMMA JoinOneCall ==
    ASSUME TypeOK, OneCall, NEW u \in Callers, Join(u)
    PROVE  OneCall'
<1>1. Active(u) /\ ~busy /\ CallHasLoop(u)
    BY DEF Join, At, Active, OneCall
<1>2. \A v \in Callers \ {u} : At(v, "idle")' /\ task'[v] = "none"
    BY <1>1, OthersIdle DEF Join, GoTo, TypeOK
<1>3. m_main_loop' \in Loops /\ allocated' = {}
    BY <1>1 DEF Join, CallHasLoop, At, allocated
<1>4. call'[u].pc = "reset" /\ ~busy' /\ task'[u] = "ended"
    BY <1>1 DEF Join, GoTo, TypeOK
<1> QED
    BY <1>2, <1>3, <1>4, OnlyThisCall DEF CallHasLoop, At

LEMMA ResetOneCall ==
    ASSUME TypeOK, OneCall, NEW u \in Callers, Reset(u)
    PROVE  OneCall'
<1>1. Active(u) /\ ~busy /\ CallHasLoop(u)
    BY DEF Reset, At, Active, OneCall
<1>2. \A v \in Callers \ {u} : At(v, "idle")' /\ task'[v] = "none"
    BY <1>1, OthersIdle DEF Reset, TypeOK
<1>3. m_main_loop' = NoLoop /\ allocated' = {}
    BY <1>1 DEF Reset, CallHasLoop, At, allocated
<1>4. call'[u].pc = "idle" /\ ~busy' /\ task'[u] = "none"
    BY <1>1 DEF Reset, TypeOK, IdleCall
<1> QED
    BY <1>2, <1>3, <1>4, OnlyThisCall DEF At, Active, NobodyHasLoop

LEMMA TaskEndsOneCall ==
    ASSUME TypeOK, OneCall, NEW u \in Callers, TaskEnds(u)
    PROVE  OneCall'
<1>1. Active(u) /\ ~busy /\ CallHasLoop(u)
    BY DEF TaskEnds, At, Active, OneCall
<1>2. \A v \in Callers \ {u} : At(v, "idle")' /\ task'[v] = "none"
    BY <1>1, OthersIdle DEF TaskEnds, TypeOK
<1>3. call[u].pc \in {"run", "entered", "running"}
    BY <1>1 DEF TaskEnds, CallHasLoop, At, TypeOK, CallPc, Active
<1>4. CallHasLoop(u)'
    BY <1>1, <1>3 DEF TaskEnds, CallHasLoop, At, OnlyLoop, allocated, TypeOK
<1> QED
    BY <1>1, <1>2, <1>4, OnlyThisCall DEF TaskEnds, At, Active

LEMMA QuitOneCall ==
    ASSUME TypeOK, OneCall, NEW u \in Callers, Quit(u)
    PROVE  OneCall'
<1>1. Active(u) /\ ~busy /\ CallHasLoop(u)
    BY DEF Quit, At, Active, OneCall
<1>2. \A v \in Callers \ {u} : At(v, "idle")' /\ task'[v] = "none"
    BY <1>1, OthersIdle DEF Quit, TypeOK
<1>3. call[u].pc \in {"run", "entered", "running"}
    BY <1>1 DEF Quit, CallHasLoop, At, TypeOK, CallPc, Active
<1>4. /\ At(u, "run") => OnlyLoop(1)'
      /\ ~At(u, "run") => OnlyLoop(2)'
    BY <1>1, <1>3, FlagKeepsReferences DEF Quit, CallHasLoop, At, TypeOK
<1>5. task'[u] = "ended" /\ call' = call /\ ~busy' /\ m_main_loop' = m_main_loop
    BY <1>1 DEF Quit, TypeOK
<1>6. CallHasLoop(u)'
    BY <1>1, <1>3, <1>4, <1>5 DEF CallHasLoop, At
<1> QED
    BY <1>1, <1>2, <1>5, <1>6, OnlyThisCall DEF At, Active

LEMMA StepOneCall == IInv /\ [Next]_vars => IInv'
<1> SUFFICES ASSUME IInv, [Next]_vars, ~raced' PROVE OneCall'
    BY StepTyped DEF IInv
<1>1. TypeOK /\ OneCall
    BY DEF IInv, TypeOK, Next, vars, CallStep, Enter, Create, Spawn, Run, Running, RunReturns,
           Unref, Join, Reset, TaskEnds, Quit
<1>2. CASE UNCHANGED vars
    BY <1>1, <1>2 DEF vars, OneCall, Active, At, CallHasLoop, OnlyLoop, NobodyHasLoop, allocated
<1> QED
    BY <1>1, <1>2, EnterOneCall, CreateOneCall, SpawnOneCall, RunOneCall, RunningOneCall,
       RunReturnsOneCall, UnrefOneCall, JoinOneCall, ResetOneCall, TaskEndsOneCall, QuitOneCall
    DEF Next, CallStep

LEMMA MainloopInvariant == Spec => []IInv
<1>1. Init => IInv
    BY InitTyped, InitOneCall DEF IInv
<1> QED
    BY <1>1, StepOneCall, PTL DEF Spec

-----------------------------------------------------------------------------
\* The argument of a task's thread and the main loop that it quits exist until
\* it ends, as long as two calls do not begin at the same time.
THEOREM TasksAreOutlived == Spec => []TaskOutlived
<1>1. IInv => TaskOutlived
    BY DEF IInv, OneCall, TaskOutlived, TypeOK, CallPc, CallHasLoop, OnlyLoop, Active, At
<1> QED
    BY <1>1, MainloopInvariant, PTL

\* A call that returns leaves no loop and the library free, unless its thread
\* could not be created or two calls have raced.
THEOREM LoopsAreNotLeft == Spec => []LoopNotLeft
<1>1. IInv => LoopNotLeft
    BY DEF IInv, OneCall, LoopNotLeft, TypeOK, CallHasLoop, NobodyHasLoop, Active, At
<1> QED
    BY <1>1, MainloopInvariant, PTL
=============================================================================
