----------------------- MODULE GMainLoopManagerProofs -----------------------
(***************************************************************************)
(* What GMainLoopManager says of its managers, proved for every number of  *)
(* managers, of threads and of memory places.                              *)
(*                                                                         *)
(* CallInv says who is inside start() and stop(), and at which of their    *)
(* steps a manager may have a thread (SlotOwned) and a thread its manager  *)
(* (ThreadsOwned).  It does not look at the loops and holds for any number *)
(* of managers.  LoopInv says which references to the loop exist at each   *)
(* step, and holds for one manager only: with two the pointer that stop()  *)
(* keeps may point at the loop of the other.                               *)
(***************************************************************************)
EXTENDS GMainLoopManager, FiniteSetTheorems, TLAPS

StopPc == {"quit", "stopping", "join", "move", "joining", "unref"}

\* The step of the call that is inside start() or stop() of m, and its thread.
Doing(m) == IF m_startStopMutex[m] = Nobody THEN "idle" ELSE call[m_startStopMutex[m]].pc

Joins(m) == IF m_startStopMutex[m] = Nobody THEN NoThread ELSE call[m_startStopMutex[m]].thread

MutexInv ==
    /\ \A u \in Apps : ~At(u, "idle") => m_startStopMutex[call[u].manager] = u
    /\ \A m \in Managers : m_startStopMutex[m] # Nobody =>
          /\ ~At(m_startStopMutex[m], "idle")
          /\ call[m_startStopMutex[m]].manager = m

LifeInv ==
    \A m \in Managers :
        /\ m_isRunning[m] => Doing(m) = "idle" /\ life[m] = "alive"
        /\ life[m] = "dying" => Doing(m) \in StopPc
        /\ life[m] = "destroyed" => Doing(m) = "idle"

SlotOwned ==
    \A m \in Managers : m_glibThread[m] # NoThread =>
        m_isRunning[m] \/ Doing(m) \in {"starting", "give_up", "quit", "stopping", "join", "move"}

Owns(m, g) == m_glibThread[m] = g \/ (Doing(m) = "joining" /\ Joins(m) = g)

ThreadsOwned ==
    \A g \in Glibs, m \in Managers :
        glib[g].pc \notin {"none", "ended"} /\ glib[g].manager = m => Owns(m, g)

NobodyGaveUp == \A m \in Managers : Doing(m) # "give_up"

CallInv ==
    /\ TypeOK /\ MutexInv /\ LifeInv /\ SlotOwned
    /\ ~timedOut => ThreadsOwned /\ NobodyGaveUp

\* The loop of m is the only one, with this number of references.
OnlyLoop(m, n, running) ==
    /\ m_mainLoop[m] \in Loops
    /\ allocated = {m_mainLoop[m]}
    /\ loops[m_mainLoop[m]].ref = n
    /\ loops[m_mainLoop[m]].running <=> running

\* The thread g of the loop of m, on its way into g_main_loop_run, inside it, and
\* after it was told to quit.
Enters(m, g) ==
    /\ glib[g].pc \in {"created", "checked", "called", "entered", "running"}
    /\ glib[g].manager = m
    /\ glib[g].pc \in {"called", "entered", "running"} => glib[g].loop = m_mainLoop[m]
    /\ OnlyLoop(m, IF glib[g].pc \in {"entered", "running"} THEN 2 ELSE 1, glib[g].pc = "running")

Runs(m, g) ==
    /\ glib[g].pc = "running" /\ glib[g].loop = m_mainLoop[m]
    /\ OnlyLoop(m, 2, TRUE)

Leaves(m, g) ==
    \/ glib[g].pc = "running" /\ glib[g].loop = m_mainLoop[m] /\ OnlyLoop(m, 2, FALSE)
    \/ glib[g].pc = "ended" /\ OnlyLoop(m, 1, FALSE)

LoopHeld(m) ==
    /\ Doing(m) = "idle" /\ ~m_isRunning[m] => allocated = {}
    /\ Doing(m) \in {"clean", "new"} => allocated = {}
    /\ Doing(m) \in {"spawn", "unref"} => OnlyLoop(m, 1, FALSE)
    /\ Doing(m) = "starting" => m_glibThread[m] \in Glibs /\ Enters(m, m_glibThread[m])
    /\ m_isRunning[m] \/ Doing(m) = "quit" => m_glibThread[m] \in Glibs /\ Runs(m, m_glibThread[m])
    /\ Doing(m) \in {"stopping", "join", "move"} =>
          m_glibThread[m] \in Glibs /\ Leaves(m, m_glibThread[m])
    /\ Doing(m) = "joining" => Joins(m) \in Glibs /\ Leaves(m, Joins(m))

LoopInv == ~timedOut => \A m \in Managers : LoopHeld(m)

CountsExact == ~timedOut => \A l \in Loops : LoopUsers(l) = loops[l].ref

-----------------------------------------------------------------------------
(* Types.                                                                   *)

LEMMA UnrefTyped ==
    ASSUME loops \in [Loops -> LoopRecord], NEW l
    PROVE  g_main_loop_unref(l) \in [Loops -> LoopRecord]
BY DEF g_main_loop_unref, allocated, LoopRecord, FreedLoop

LEMMA FlagTyped ==
    ASSUME loops \in [Loops -> LoopRecord], NEW l
    PROVE  /\ g_main_loop_quit(l) \in [Loops -> LoopRecord]
           /\ SetsRunning(l) \in [Loops -> LoopRecord]
BY DEF g_main_loop_quit, SetsRunning, allocated, LoopRecord

LEMMA CreateTyped ==
    ASSUME loops \in [Loops -> LoopRecord], NEW l \in Loops
    PROVE  /\ g_main_loop_new(l) \in [Loops -> LoopRecord]
           /\ TakesReference(l) \in [Loops -> LoopRecord]
BY DEF g_main_loop_new, TakesReference, LoopRecord

LEMMA IdleTyped == IdleCall \in CallRecord /\ NoGlib \in GlibRecord
BY ManagerAssumption DEF IdleCall, NoGlib, CallRecord, GlibRecord, CallPc, GlibPc

LEMMA InitTyped == Init => TypeOK
<1> SUFFICES ASSUME Init PROVE TypeOK
    OBVIOUS
<1>1. loops \in [Loops -> LoopRecord]
    BY DEF Init, LoopsInit, LoopRecord, FreedLoop
<1> QED
    BY <1>1, IdleTyped DEF Init, TypeOK

\* What a call may do to its own record.
LEMMA GoToTyped ==
    ASSUME TypeOK, NEW u \in Apps, NEW pc \in CallPc, GoTo(u, pc)
    PROVE  call' \in [Apps -> CallRecord]
BY DEF GoTo, TypeOK, CallRecord

LEMMA EnterTyped ==
    ASSUME TypeOK, NEW u \in Apps, NEW m \in Managers, NEW pc \in CallPc, Enter(u, m, pc)
    PROVE  /\ call' \in [Apps -> CallRecord]
           /\ m_startStopMutex' \in [Managers -> Apps \cup {Nobody}]
BY DEF Enter, TypeOK, CallRecord

LEMMA ReturnTyped ==
    ASSUME TypeOK, NEW u \in Apps, Return(u)
    PROVE  /\ call' \in [Apps -> CallRecord]
           /\ m_startStopMutex' \in [Managers -> Apps \cup {Nobody}]
           /\ life' \in [Managers -> {"alive", "dying", "destroyed"}]
BY IdleTyped DEF Return, TypeOK

LEMMA StartTyped ==
    ASSUME TypeOK, NEW u \in Apps,
           \/ \E m \in Managers : Start(u, m)
           \/ StartClean(u) \/ StartCreate(u) \/ StartSpawn(u) \/ StartWait(u) \/ StartGiveUp(u)
    PROVE  TypeOK'
<1>1. call[u] \in CallRecord /\ call[u].manager \in Managers
    BY DEF TypeOK, CallRecord
<1> USE DEF TypeOK
<1>2. {"clean", "new", "spawn", "starting", "give_up"} \subseteq CallPc
    BY DEF CallPc
<1>3. ASSUME NEW m \in Managers, Start(u, m) PROVE TypeOK'
    BY <1>2, <1>3, EnterTyped DEF Start
<1>4. CASE StartClean(u)
    BY <1>1, <1>2, <1>4, UnrefTyped, GoToTyped DEF StartClean
<1>5. CASE StartCreate(u)
    <2>1. CASE Return(u) /\ UNCHANGED <<m_mainLoop, loops>>
        BY <1>5, <2>1, ReturnTyped DEF StartCreate
    <2>2. CASE /\ GoTo(u, "spawn") /\ UNCHANGED <<life, m_startStopMutex>>
               /\ \E l \in Loops : /\ loops' = g_main_loop_new(l)
                                   /\ m_mainLoop' = [m_mainLoop EXCEPT ![call[u].manager] = l]
        BY <1>1, <1>2, <1>5, <2>2, GoToTyped, CreateTyped DEF StartCreate
    <2> QED
        BY <1>5, <2>1, <2>2 DEF StartCreate
<1>6. CASE StartSpawn(u)
    <2>1. CASE /\ Return(u) /\ UNCHANGED <<m_glibThread, glib>>
               /\ loops' = g_main_loop_unref(m_mainLoop[call[u].manager])
               /\ m_mainLoop' = [m_mainLoop EXCEPT ![call[u].manager] = NoLoop]
        BY <1>1, <1>6, <2>1, ReturnTyped, UnrefTyped DEF StartSpawn
    <2>2. CASE /\ GoTo(u, "starting") /\ UNCHANGED <<life, m_startStopMutex, m_mainLoop, loops>>
               /\ \E g \in Glibs :
                     /\ glib' = [glib EXCEPT ![g] = [pc |-> "created", manager |-> call[u].manager,
                                                     loop |-> NoLoop]]
                     /\ m_glibThread' = [m_glibThread EXCEPT ![call[u].manager] = g]
        <3>1. [pc |-> "created", manager |-> call[u].manager, loop |-> NoLoop] \in GlibRecord
            BY <1>1 DEF GlibRecord, GlibPc
        <3> QED
            BY <1>1, <1>2, <1>6, <2>2, <3>1, GoToTyped DEF StartSpawn
    <2> QED
        BY <1>6, <2>1, <2>2 DEF StartSpawn
<1>7. CASE StartWait(u)
    BY <1>1, <1>2, <1>7, GoToTyped, ReturnTyped DEF StartWait, TimesOut
<1>8. CASE StartGiveUp(u)
    <2>1. loops' \in [Loops -> LoopRecord]
        BY <1>8 DEF StartGiveUp, allocated, LoopRecord, FreedLoop
    <2> QED
        BY <1>1, <1>8, <2>1, ReturnTyped DEF StartGiveUp
<1> QED
    BY <1>3, <1>4, <1>5, <1>6, <1>7, <1>8

LEMMA StopTyped ==
    ASSUME TypeOK, NEW u \in Apps,
           \/ \E m \in Managers : Stop(u, m) \/ Destroy(u, m)
           \/ StopQuit(u) \/ StopWait(u) \/ StopJoinable(u) \/ StopMove(u) \/ StopJoin(u)
           \/ StopUnref(u)
    PROVE  TypeOK'
<1>1. call[u] \in CallRecord /\ call[u].manager \in Managers
    BY DEF TypeOK, CallRecord
<1> USE DEF TypeOK
<1>2. {"quit", "stopping", "join", "unref", "move"} \subseteq CallPc
    BY DEF CallPc
<1>3. ASSUME NEW m \in Managers, Stop(u, m) \/ Destroy(u, m) PROVE TypeOK'
    BY <1>2, <1>3, EnterTyped DEF Stop, Destroy
<1>4. CASE StopQuit(u)
    BY <1>2, <1>4, FlagTyped, GoToTyped DEF StopQuit, manager
<1>5. CASE StopWait(u)
    BY <1>2, <1>5, GoToTyped DEF StopWait, manager, TimesOut
<1>6. CASE StopJoinable(u)
    BY <1>2, <1>6, GoToTyped DEF StopJoinable, manager
<1>7. CASE StopMove(u)
    BY <1>1, <1>7 DEF StopMove, CallRecord, CallPc
<1>8. CASE StopJoin(u)
    BY <1>1, <1>8 DEF StopJoin, CallRecord, CallPc, manager, TimesOut
<1>9. CASE StopUnref(u)
    BY <1>9, UnrefTyped, ReturnTyped DEF StopUnref
<1> QED
    BY <1>3, <1>4, <1>5, <1>6, <1>7, <1>8, <1>9

LEMMA GlibTyped ==
    ASSUME TypeOK, NEW g \in Glibs, GlibStep(g)
    PROVE  TypeOK'
<1>1. glib[g] \in GlibRecord /\ glib[g].manager \in Managers /\ m_mainLoop[glib[g].manager] \in Loops \cup {NoLoop}
    BY DEF TypeOK, GlibRecord
<1>2. /\ \A pc \in GlibPc : GlibGoTo(g, pc) => glib' \in [Glibs -> GlibRecord]
      /\ {"ended", "checked", "called", "entered", "running"} \subseteq GlibPc
    BY <1>1 DEF GlibGoTo, TypeOK, GlibRecord, GlibPc
<1> USE DEF TypeOK
<1>3. CASE GlibCheck(g)
    BY <1>2, <1>3 DEF GlibCheck, manager
<1>4. CASE GlibCall(g)
    <2>1. glib' \in [Glibs -> GlibRecord]
        BY <1>1, <1>2, <1>4 DEF GlibCall, GlibRecord
    <2> QED
        BY <1>4, <2>1 DEF GlibCall, manager
<1>5. CASE GlibRun(g)
    BY <1>1, <1>2, <1>5, CreateTyped DEF GlibRun, manager, allocated
<1>6. CASE GlibRunning(g)
    BY <1>2, <1>6, FlagTyped DEF GlibRunning, manager
<1>7. CASE GlibLeave(g)
    BY <1>2, <1>7, UnrefTyped DEF GlibLeave, manager
<1> QED
    BY <1>3, <1>4, <1>5, <1>6, <1>7 DEF GlibStep

LEMMA StepTyped == TypeOK /\ [Next]_vars => TypeOK'
<1> SUFFICES ASSUME TypeOK, [Next]_vars PROVE TypeOK'
    OBVIOUS
<1>1. CASE UNCHANGED vars
    BY <1>1 DEF vars, manager, TypeOK
<1>2. ASSUME NEW m \in Managers, DestructorTimeout(m) \/ Construct(m) PROVE TypeOK'
    BY <1>2 DEF DestructorTimeout, Construct, TimesOut, TypeOK
<1> QED
    BY <1>1, <1>2, StartTyped, StopTyped, GlibTyped DEF Next, CallStep

\* The records of the managers, of the threads and of the calls are what the code
\* can hold: no counter of references goes below zero, not even when a start()
\* drops a loop that stop() has dropped already.
THEOREM Typed == Spec => []TypeOK
BY InitTyped, StepTyped, PTL DEF Spec

-----------------------------------------------------------------------------
(* Who is inside start() and stop().                                        *)

\* A step of a call moves one manager: what the others are doing stays the same.
SameElsewhere(m) == \A n \in Managers \ {m} : Doing(n)' = Doing(n) /\ Joins(n)' = Joins(n)

LEMMA EnterMoves ==
    ASSUME TypeOK, MutexInv, NEW u \in Apps, NEW m \in Managers, NEW pc \in CallPc \ {"idle"},
           Enter(u, m, pc)
    PROVE  /\ MutexInv' /\ SameElsewhere(m)
           /\ Doing(m) = "idle" /\ Doing(m)' = pc
<1>1. /\ m_startStopMutex[m] = Nobody /\ m_startStopMutex'[m] = u
      /\ call'[u] = [pc |-> pc, manager |-> m, thread |-> NoThread] /\ call[u].pc = "idle"
      /\ \A v \in Apps \ {u} : call'[v] = call[v]
      /\ \A n \in Managers \ {m} : m_startStopMutex'[n] = m_startStopMutex[n]
    BY DEF Enter, TypeOK, At
<1>2. Nobody \notin Apps /\ \A n \in Managers : m_startStopMutex[n] \in Apps \cup {Nobody}
    BY ManagerAssumption DEF TypeOK
<1>3. \A v \in Apps : call[v].manager \in Managers
    BY DEF TypeOK, CallRecord
<1>4. \A n \in Managers : m_startStopMutex[n] # u
    BY <1>1, <1>2 DEF MutexInv, At
<1>5. MutexInv'
    BY <1>1, <1>2, <1>3, <1>4 DEF MutexInv, At
<1> QED
    BY <1>1, <1>2, <1>4, <1>5 DEF SameElsewhere, Doing, Joins

\* The call of u that is in progress: what its manager is doing.
LEMMA InsideCall ==
    ASSUME TypeOK, MutexInv, NEW u \in Apps, ~At(u, "idle")
    PROVE  /\ call[u].manager \in Managers
           /\ Doing(call[u].manager) = call[u].pc /\ Joins(call[u].manager) = call[u].thread
BY ManagerAssumption DEF TypeOK, CallRecord, MutexInv, Doing, Joins

\* A call that goes on at pc with the thread t.
GoesOn(u, pc, t) ==
    /\ call' = [call EXCEPT ![u].pc = pc, ![u].thread = t]
    /\ m_startStopMutex' = m_startStopMutex

LEMMA GoToMoves ==
    ASSUME TypeOK, MutexInv, NEW u \in Apps, ~At(u, "idle"), NEW m \in Managers, m = call[u].manager,
           NEW pc \in CallPc \ {"idle"}, NEW t \in Glibs \cup {NoThread},
           GoesOn(u, pc, t)
    PROVE  /\ MutexInv' /\ SameElsewhere(m)
           /\ Doing(m)' = pc /\ Joins(m)' = t
<1>1. /\ call'[u].pc = pc /\ call'[u].manager = m /\ call'[u].thread = t
      /\ \A v \in Apps \ {u} : call'[v] = call[v]
      /\ m_startStopMutex' = m_startStopMutex
    BY DEF TypeOK, CallRecord, GoesOn
<1>2. /\ Nobody \notin Apps /\ \A n \in Managers : m_startStopMutex[n] \in Apps \cup {Nobody}
      /\ m_startStopMutex[m] = u
    BY ManagerAssumption DEF TypeOK, CallRecord, MutexInv
<1>3. \A v \in Apps : call'[v].manager = call[v].manager /\ (At(v, "idle")' <=> At(v, "idle"))
    BY <1>1 DEF At
<1>4. MutexInv'
    BY <1>1, <1>2, <1>3 DEF MutexInv
<1>5. \A n \in Managers \ {m} : m_startStopMutex[n] # u
    BY <1>2 DEF MutexInv
<1>6. SameElsewhere(m)
    <2>1. ASSUME NEW n \in Managers \ {m} PROVE Doing(n)' = Doing(n) /\ Joins(n)' = Joins(n)
        BY <1>1, <1>2, <1>5 DEF Doing, Joins
    <2> QED
        BY <2>1 DEF SameElsewhere
<1>7. Doing(m)' = pc /\ Joins(m)' = t
    BY <1>1, <1>2 DEF Doing, Joins
<1> QED
    BY <1>4, <1>6, <1>7

\* A step that moves a call and keeps its thread.
LEMMA PcMoves ==
    ASSUME TypeOK, MutexInv, NEW u \in Apps, ~At(u, "idle"), NEW m \in Managers, m = call[u].manager,
           NEW pc \in CallPc \ {"idle"}, GoTo(u, pc), m_startStopMutex' = m_startStopMutex
    PROVE  /\ MutexInv' /\ SameElsewhere(m)
           /\ Doing(m)' = pc /\ Joins(m)' = Joins(m)
<1>1. PICK t \in Glibs \cup {NoThread} : t = call[u].thread
    BY DEF TypeOK, CallRecord
<1>2. GoesOn(u, pc, t)
    BY <1>1 DEF GoTo, GoesOn, TypeOK, CallRecord
<1> QED
    BY <1>1, <1>2, GoToMoves, InsideCall

LEMMA ReturnMoves ==
    ASSUME TypeOK, MutexInv, NEW u \in Apps, ~At(u, "idle"), NEW m \in Managers, m = call[u].manager,
           Return(u)
    PROVE  /\ MutexInv' /\ SameElsewhere(m)
           /\ Doing(m)' = "idle"
           /\ life'[m] = IF life[m] = "dying" THEN "destroyed" ELSE life[m]
           /\ \A n \in Managers \ {m} : life'[n] = life[n]
<1>1. /\ m_startStopMutex[m] = u
      /\ Nobody \notin Apps /\ \A n \in Managers : m_startStopMutex[n] \in Apps \cup {Nobody}
    BY ManagerAssumption DEF TypeOK, CallRecord, MutexInv
<1>2. /\ m_startStopMutex'[m] = Nobody
      /\ call'[u].pc = "idle"
      /\ \A v \in Apps \ {u} : call'[v] = call[v]
      /\ \A n \in Managers \ {m} : m_startStopMutex'[n] = m_startStopMutex[n]
    BY <1>1 DEF Return, TypeOK, IdleCall
<1>3. \A n \in Managers \ {m} : m_startStopMutex[n] # u
    BY <1>1 DEF MutexInv
<1>4. \A v \in Apps \ {u} : call[v].pc # "idle" => call[v].manager # m
    BY <1>1 DEF MutexInv, At
<1>5. \A v \in Apps : call[v].manager \in Managers
    BY DEF TypeOK, CallRecord
<1>6. MutexInv'
    BY <1>1, <1>2, <1>3, <1>4, <1>5 DEF MutexInv, At
<1>7. SameElsewhere(m)
    <2>1. ASSUME NEW n \in Managers \ {m} PROVE Doing(n)' = Doing(n) /\ Joins(n)' = Joins(n)
        BY <1>1, <1>2, <1>3 DEF Doing, Joins
    <2> QED
        BY <2>1 DEF SameElsewhere
<1>8. /\ life'[m] = IF life[m] = "dying" THEN "destroyed" ELSE life[m]
      /\ \A n \in Managers \ {m} : life'[n] = life[n]
    BY DEF Return, TypeOK
<1> QED
    BY <1>2, <1>6, <1>7, <1>8 DEF Doing

LEMMA StartCallInv ==
    ASSUME CallInv, TypeOK', NEW u \in Apps, NEW m \in Managers,
           Start(u, m) \/ Stop(u, m) \/ Destroy(u, m)
    PROVE  CallInv'
<1>1. TypeOK /\ MutexInv /\ LifeInv /\ SlotOwned /\ (~timedOut => ThreadsOwned /\ NobodyGaveUp)
    BY DEF CallInv
<1>2. {"clean", "quit"} \subseteq CallPc \ {"idle"}
    BY DEF CallPc
<1>3. /\ m_glibThread' = m_glibThread /\ glib' = glib /\ timedOut' = timedOut
      /\ \A g \in Glibs : glib[g].manager \in Managers
    BY DEF Start, Stop, Destroy, TypeOK, GlibRecord
<1>4. CASE Start(u, m) \/ Stop(u, m) \/ (Destroy(u, m) /\ m_isRunning[m])
    <2>1. PICK pc \in {"clean", "quit"} :
            /\ Enter(u, m, pc)
            /\ pc = "clean" <=> ~m_isRunning[m]
            /\ m_isRunning' = [m_isRunning EXCEPT ![m] = FALSE]
            /\ life[m] = "alive"
            /\ \/ life' = life
               \/ pc = "quit" /\ life' = [life EXCEPT ![m] = "dying"]
        BY <1>1, <1>4 DEF Start, Stop, Destroy, TypeOK
    <2>2. /\ MutexInv' /\ SameElsewhere(m)
          /\ Doing(m) = "idle" /\ Doing(m)' = pc
        BY <1>1, <1>2, <2>1, EnterMoves
    <2>3. LifeInv'
        BY <1>1, <2>1, <2>2 DEF LifeInv, SameElsewhere, TypeOK, StopPc
    <2>4. SlotOwned'
        BY <1>1, <1>3, <2>1, <2>2 DEF SlotOwned, SameElsewhere, TypeOK
    <2>5. ThreadsOwned => ThreadsOwned'
        BY <1>3, <2>2 DEF ThreadsOwned, Owns, SameElsewhere
    <2>6. NobodyGaveUp => NobodyGaveUp'
        BY <2>1, <2>2 DEF NobodyGaveUp, SameElsewhere
    <2> QED
        BY <1>1, <1>3, <2>2, <2>3, <2>4, <2>5, <2>6 DEF CallInv
<1>5. CASE Destroy(u, m) /\ ~m_isRunning[m]
    <2>1. /\ UNCHANGED <<m_startStopMutex, call, m_isRunning>>
          /\ m_startStopMutex[m] = Nobody /\ life' = [life EXCEPT ![m] = "destroyed"]
        BY <1>5 DEF Destroy
    <2>2. \A n \in Managers : Doing(n)' = Doing(n) /\ Joins(n)' = Joins(n)
        BY <2>1 DEF Doing, Joins
    <2>3. LifeInv'
        BY <1>1, <1>5, <2>1, <2>2 DEF LifeInv, Doing, TypeOK
    <2>4. MutexInv' /\ SlotOwned'
        BY <1>1, <1>3, <2>1, <2>2 DEF SlotOwned, MutexInv, At
    <2>5. (ThreadsOwned => ThreadsOwned') /\ (NobodyGaveUp => NobodyGaveUp')
        BY <1>3, <2>2 DEF ThreadsOwned, Owns, NobodyGaveUp
    <2> QED
        BY <1>1, <1>3, <2>3, <2>4, <2>5 DEF CallInv
<1> QED
    BY <1>4, <1>5 DEF Start, Stop

\* What is left to show of a step of a call inside m.
LifeAt(m) ==
    /\ m_isRunning[m] => Doing(m) = "idle" /\ life[m] = "alive"
    /\ life[m] = "dying" => Doing(m) \in StopPc
    /\ life[m] = "destroyed" => Doing(m) = "idle"

SlotAt(m) ==
    m_glibThread[m] # NoThread =>
        m_isRunning[m] \/ Doing(m) \in {"starting", "give_up", "quit", "stopping", "join", "move"}

LEMMA StepInside ==
    ASSUME CallInv, TypeOK', NEW m \in Managers, MutexInv', SameElsewhere(m),
           \A n \in Managers \ {m} : /\ life'[n] = life[n] /\ m_isRunning'[n] = m_isRunning[n]
                                     /\ m_glibThread'[n] = m_glibThread[n],
           LifeAt(m)', SlotAt(m)',
           ~timedOut' => ~timedOut /\ ThreadsOwned' /\ Doing(m)' # "give_up"
    PROVE  CallInv'
<1>1. LifeInv'
    BY DEF CallInv, LifeInv, LifeAt, SameElsewhere
<1>2. SlotOwned'
    BY DEF CallInv, SlotOwned, SlotAt, SameElsewhere
<1>3. ~timedOut' => NobodyGaveUp'
    BY DEF CallInv, NobodyGaveUp, SameElsewhere
<1> QED
    BY <1>1, <1>2, <1>3 DEF CallInv

\* No thread changes hands when the slots, the threads and the joiners stay.
LEMMA SameThreads ==
    ASSUME CallInv, ~timedOut, NEW m \in Managers, SameElsewhere(m),
           m_glibThread' = m_glibThread, glib' = glib, Doing(m) # "joining"
    PROVE  ThreadsOwned'
BY DEF CallInv, ThreadsOwned, Owns, SameElsewhere

\* The steps that only go on.
LEMMA GoOnCallInv ==
    ASSUME CallInv, TypeOK', NEW u \in Apps,
           \/ StartClean(u) \/ StopQuit(u) \/ StopWait(u) \/ StopJoinable(u)
           \/ (StartCreate(u) /\ GoTo(u, "spawn")) \/ (StartWait(u) /\ GoTo(u, "give_up")),
           UNCHANGED <<life, m_startStopMutex, m_isRunning, m_glibThread, glib>>
    PROVE  CallInv'
<1>1. TypeOK /\ MutexInv /\ ~At(u, "idle")
    BY DEF CallInv, StartClean, StopQuit, StopWait, StopJoinable, StartCreate, StartWait, At
<1>2. PICK m \in Managers : m = call[u].manager
    BY <1>1 DEF TypeOK, CallRecord
<1>3. Doing(m) = call[u].pc /\ LifeAt(m) /\ SlotAt(m)
    BY <1>1, <1>2, InsideCall DEF CallInv, LifeInv, SlotOwned, LifeAt, SlotAt
<1>4. PICK pc \in {"new", "spawn", "give_up", "stopping", "join", "unref", "move"} :
        /\ GoTo(u, pc)
        /\ pc = "new" => At(u, "clean")
        /\ pc = "spawn" => At(u, "new")
        /\ pc = "give_up" => At(u, "starting") /\ timedOut'
        /\ pc = "stopping" => At(u, "quit")
        /\ pc = "join" => At(u, "stopping")
        /\ pc \in {"unref", "move"} => At(u, "join")
        /\ pc = "unref" => m_glibThread[m] = NoThread
        /\ ~timedOut' => ~timedOut
    <2>1. CASE StartClean(u)
        BY <2>1 DEF StartClean
    <2>2. CASE StopQuit(u)
        BY <2>2 DEF StopQuit
    <2>3. CASE StopWait(u)
        BY <2>3 DEF StopWait, TimesOut
    <2>4. CASE StopJoinable(u)
        BY <1>2, <2>4 DEF StopJoinable
    <2>5. CASE StartCreate(u) /\ GoTo(u, "spawn")
        BY <2>5 DEF StartCreate
    <2>6. CASE StartWait(u) /\ GoTo(u, "give_up")
        <3>1. call'[u].pc = "give_up"
            BY <1>1, <2>6 DEF GoTo, TypeOK, CallRecord
        <3>2. ~Return(u)
            BY <3>1, <1>1 DEF Return, IdleCall, TypeOK
        <3> QED
            BY <2>6, <3>2 DEF StartWait, TimesOut
    <2> QED
        BY <2>1, <2>2, <2>3, <2>4, <2>5, <2>6
<1>5. pc \in CallPc \ {"idle"}
    BY DEF CallPc
<1>6. /\ MutexInv' /\ SameElsewhere(m) /\ Doing(m)' = pc
    BY <1>1, <1>2, <1>4, <1>5, PcMoves
<1>7. LifeAt(m)' /\ SlotAt(m)'
    BY <1>3, <1>4, <1>6 DEF LifeAt, SlotAt, At, StopPc
<1>8. ~timedOut' => ~timedOut /\ ThreadsOwned' /\ Doing(m)' # "give_up"
    BY <1>3, <1>4, <1>6, SameThreads DEF At
<1> QED
    BY <1>6, <1>7, <1>8, StepInside

\* The thread of a new loop.
LEMMA SpawnCallInv ==
    ASSUME CallInv, TypeOK', NEW u \in Apps, StartSpawn(u), GoTo(u, "starting"),
           NEW g \in Glibs, Spawnable(g), NEW m \in Managers, m = call[u].manager,
           glib' = [glib EXCEPT ![g] = [pc |-> "created", manager |-> m, loop |-> NoLoop]],
           m_glibThread' = [m_glibThread EXCEPT ![m] = g],
           UNCHANGED <<life, m_startStopMutex>>
    PROVE  CallInv'
<1>1. TypeOK /\ MutexInv /\ ~At(u, "idle") /\ call[u].pc = "spawn" /\ "starting" \in CallPc \ {"idle"}
    BY DEF CallInv, StartSpawn, At, CallPc
<1>2. Doing(m) = "spawn" /\ LifeAt(m) /\ SlotAt(m)
    BY <1>1, InsideCall DEF CallInv, LifeInv, SlotOwned, LifeAt, SlotAt
<1>3. MutexInv' /\ SameElsewhere(m) /\ Doing(m)' = "starting"
    BY <1>1, PcMoves
<1>4. m_isRunning' = m_isRunning /\ timedOut' = timedOut
    BY DEF StartSpawn
<1>5. LifeAt(m)' /\ SlotAt(m)'
    BY <1>2, <1>3, <1>4 DEF LifeAt, SlotAt, StopPc
<1>6. m_glibThread[m] = NoThread /\ m_glibThread'[m] = g
      /\ \A n \in Managers \ {m} : m_glibThread'[n] = m_glibThread[n]
    BY <1>1, <1>2 DEF SlotAt, LifeAt, TypeOK
<1>7. /\ glib'[g].manager = m
      /\ \A h \in Glibs \ {g} : glib'[h] = glib[h] /\ glib[h].manager \in Managers
    BY <1>1 DEF TypeOK, GlibRecord
<1>8. ~timedOut => ThreadsOwned'
    <2> SUFFICES ASSUME ~timedOut, NEW h \in Glibs, NEW n \in Managers,
                        glib'[h].pc \notin {"none", "ended"}, glib'[h].manager = n
                 PROVE  Owns(n, h)'
        BY DEF ThreadsOwned
    <2>1. CASE h = g
        BY <1>6, <1>7, <2>1 DEF Owns
    <2>2. CASE h # g
        <3>1. Owns(n, h)
            BY <1>7, <2>2 DEF CallInv, ThreadsOwned
        <3>2. n # m
            BY <1>2, <1>6, <3>1, ManagerAssumption DEF Owns
        <3> QED
            BY <1>3, <1>6, <3>1, <3>2 DEF Owns, SameElsewhere
    <2> QED
        BY <2>1, <2>2
<1> QED
    BY <1>3, <1>4, <1>5, <1>6, <1>8, StepInside DEF StartSpawn

\* The steps that return.
LEMMA ReturnCallInv ==
    ASSUME CallInv, TypeOK', NEW u \in Apps, Return(u),
           StartCreate(u) \/ StartSpawn(u) \/ StartWait(u) \/ StartGiveUp(u) \/ StopUnref(u),
           glib' = glib, timedOut' = timedOut,
           StartCreate(u) \/ StartSpawn(u) => m_glibThread' = m_glibThread
    PROVE  CallInv'
<1>1. TypeOK /\ MutexInv /\ ~At(u, "idle")
    BY DEF CallInv, StartCreate, StartSpawn, StartWait, StartGiveUp, StopUnref, At
<1>2. PICK m \in Managers : m = call[u].manager
    BY <1>1 DEF TypeOK, CallRecord
<1>3. Doing(m) = call[u].pc /\ LifeAt(m) /\ SlotAt(m)
    BY <1>1, <1>2, InsideCall DEF CallInv, LifeInv, SlotOwned, LifeAt, SlotAt
<1>4. /\ MutexInv' /\ SameElsewhere(m) /\ Doing(m)' = "idle"
      /\ life'[m] = IF life[m] = "dying" THEN "destroyed" ELSE life[m]
      /\ \A n \in Managers \ {m} : life'[n] = life[n]
    BY <1>1, <1>2, ReturnMoves
<1>5. \/ /\ call[u].pc \in {"new", "spawn", "unref"} /\ m_isRunning' = m_isRunning
         /\ m_glibThread' = m_glibThread
      \/ /\ call[u].pc = "starting" /\ m_isRunning' = [m_isRunning EXCEPT ![m] = TRUE]
         /\ m_glibThread' = m_glibThread
      \/ /\ call[u].pc = "give_up" /\ m_isRunning' = m_isRunning
         /\ m_glibThread' = [m_glibThread EXCEPT ![m] = NoThread]
    <2>1. ~GoTo(u, "give_up")
        BY <1>1 DEF Return, GoTo, TypeOK, CallRecord, IdleCall
    <2> QED
        BY <1>2, <2>1 DEF StartCreate, StartSpawn, StartWait, StartGiveUp, StopUnref, At
<1>6. \A n \in Managers \ {m} : m_isRunning'[n] = m_isRunning[n] /\ m_glibThread'[n] = m_glibThread[n]
    BY <1>1, <1>5 DEF TypeOK
<1>7. LifeAt(m)' /\ SlotAt(m)'
    BY <1>1, <1>3, <1>4, <1>5 DEF LifeAt, SlotAt, StopPc, TypeOK
<1>8. ~timedOut => ThreadsOwned'
    BY <1>3, <1>4, <1>5, SameThreads DEF CallInv, NobodyGaveUp
<1> QED
    BY <1>4, <1>6, <1>7, <1>8, StepInside

\* stop() takes the thread of the manager and joins it.
LEMMA JoinCallInv ==
    ASSUME CallInv, TypeOK', NEW u \in Apps, StopMove(u) \/ StopJoin(u)
    PROVE  CallInv'
<1>1. TypeOK /\ MutexInv /\ ~At(u, "idle")
    BY DEF CallInv, StopMove, StopJoin, At
<1>2. PICK m \in Managers : m = call[u].manager
    BY <1>1 DEF TypeOK, CallRecord
<1>3. Doing(m) = call[u].pc /\ Joins(m) = call[u].thread /\ LifeAt(m) /\ SlotAt(m)
    BY <1>1, <1>2, InsideCall DEF CallInv, LifeInv, SlotOwned, LifeAt, SlotAt
<1>4. PICK pc \in {"joining", "unref"}, t \in Glibs \cup {NoThread} :
        /\ GoesOn(u, pc, t)
        /\ pc = "joining" => /\ call[u].pc = "move" /\ t = m_glibThread[m] /\ t # NoThread
                             /\ m_glibThread' = [m_glibThread EXCEPT ![m] = NoThread]
                             /\ timedOut' = timedOut
        /\ pc = "unref" => /\ call[u].pc = "joining" /\ m_glibThread' = m_glibThread
                           /\ ~timedOut' => ~timedOut /\ glib[call[u].thread].pc = "ended"
    <2>1. CASE StopMove(u)
        BY <1>1, <1>2, <2>1 DEF StopMove, GoesOn, At, TypeOK
    <2>2. CASE StopJoin(u)
        <3>1. GoesOn(u, "unref", NoThread) /\ call[u].pc = "joining" /\ m_glibThread' = m_glibThread
            BY <2>2 DEF StopJoin, GoesOn, At, manager
        <3>2. ~timedOut' => ~timedOut /\ glib[call[u].thread].pc = "ended"
            BY <2>2 DEF StopJoin, TimesOut
        <3> QED
            BY <3>1, <3>2
    <2> QED
        BY <2>1, <2>2
<1>5. pc \in CallPc \ {"idle"}
    BY DEF CallPc
<1>6. MutexInv' /\ SameElsewhere(m) /\ Doing(m)' = pc /\ Joins(m)' = t
    BY <1>1, <1>2, <1>4, <1>5, GoToMoves
<1>7. glib' = glib /\ m_isRunning' = m_isRunning /\ life' = life
    BY DEF StopMove, StopJoin, manager
<1>8. \A n \in Managers \ {m} : m_glibThread'[n] = m_glibThread[n]
    BY <1>1, <1>4 DEF TypeOK
<1>9. LifeAt(m)' /\ SlotAt(m)'
    BY <1>1, <1>3, <1>4, <1>6, <1>7 DEF LifeAt, SlotAt, StopPc, TypeOK
<1>10. ~timedOut' => ThreadsOwned' /\ ~timedOut
    <2> SUFFICES ASSUME ~timedOut', NEW h \in Glibs, NEW n \in Managers,
                        glib[h].pc \notin {"none", "ended"}, glib[h].manager = n
                 PROVE  Owns(n, h)' /\ ~timedOut
        BY <1>4, <1>7 DEF ThreadsOwned
    <2>1. ~timedOut
        BY <1>4
    <2>2. Owns(n, h)
        BY <2>1 DEF CallInv, ThreadsOwned
    <2>3. Owns(n, h)'
        <3>1. CASE n # m
            BY <1>6, <1>8, <2>2, <3>1 DEF SameElsewhere, Owns
        <3>2. CASE n = m /\ pc = "joining"
            BY <1>3, <1>4, <1>6, <2>2, <3>2 DEF Owns
        <3>3. CASE n = m /\ pc = "unref"
            BY <1>3, <1>4, <1>6, <2>2, <3>3 DEF Owns
        <3> QED
            BY <3>1, <3>2, <3>3
    <2> QED
        BY <2>1, <2>3
<1> QED
    BY <1>4, <1>6, <1>7, <1>8, <1>9, <1>10, StepInside

\* A step that does not touch the calls.
SameCalls == UNCHANGED <<m_startStopMutex, call>>

LEMMA SameDoing ==
    ASSUME SameCalls
    PROVE  /\ MutexInv => MutexInv'
           /\ \A m \in Managers : Doing(m)' = Doing(m) /\ Joins(m)' = Joins(m)
BY DEF SameCalls, MutexInv, At, Doing, Joins

LEMMA OtherCallInv ==
    ASSUME CallInv, TypeOK', NEW m \in Managers, DestructorTimeout(m) \/ Construct(m)
    PROVE  CallInv'
<1>1. SameCalls /\ glib' = glib /\ m_isRunning' = m_isRunning
    BY DEF DestructorTimeout, Construct, SameCalls
<1>2. \A n \in Managers \ {m} : life'[n] = life[n] /\ m_glibThread'[n] = m_glibThread[n]
    BY DEF DestructorTimeout, Construct, CallInv, TypeOK
<1>3. SameElsewhere(m) /\ MutexInv' /\ Doing(m)' = Doing(m) /\ LifeAt(m) /\ Joins(m)' = Joins(m)
    BY <1>1, SameDoing DEF SameElsewhere, CallInv, LifeInv, LifeAt
<1>4. m_glibThread'[m] = NoThread
    BY DEF DestructorTimeout, Construct, CallInv, TypeOK
<1>5. SlotAt(m)'
    BY <1>4 DEF SlotAt
<1>6. CASE DestructorTimeout(m)
    <2>1. timedOut' /\ LifeAt(m)'
        BY <1>1, <1>3, <1>6 DEF DestructorTimeout, TimesOut, LifeAt
    <2> QED
        BY <1>1, <1>2, <1>3, <1>5, <2>1, StepInside
<1>7. CASE Construct(m)
    <2>1. timedOut' = timedOut /\ life[m] = "destroyed" /\ life'[m] = "alive"
        BY <1>7 DEF Construct, CallInv, TypeOK
    <2>2. LifeAt(m)' /\ m_glibThread[m] = NoThread
        BY <1>1, <1>3, <2>1 DEF LifeAt, CallInv, SlotOwned
    <2>3. ~timedOut => ThreadsOwned'
        BY <1>1, <1>2, <1>3, <1>4, <2>2, ManagerAssumption
        DEF CallInv, ThreadsOwned, Owns, SameElsewhere
    <2> QED
        BY <1>1, <1>2, <1>3, <1>5, <2>1, <2>2, <2>3, StepInside DEF CallInv, NobodyGaveUp
<1> QED
    BY <1>6, <1>7

\* A thread goes on in its loop and stays the thread of its manager.
LEMMA GlibForms ==
    ASSUME TypeOK, NEW g \in Glibs, GlibStep(g)
    PROVE  /\ \A h \in Glibs \ {g} : glib'[h] = glib[h]
           /\ glib[g].pc \in {"created", "checked", "called", "entered", "running"}
           /\ glib'[g].manager = glib[g].manager
           /\ UNCHANGED <<manager, call, timedOut>>
<1> USE DEF TypeOK, GlibRecord, GlibGoTo
<1>1. CASE GlibCheck(g)
    BY <1>1 DEF GlibCheck
<1>2. CASE GlibCall(g)
    BY <1>2 DEF GlibCall
<1>3. CASE GlibRun(g) \/ GlibRunning(g) \/ GlibLeave(g)
    BY <1>3 DEF GlibRun, GlibRunning, GlibLeave
<1> QED
    BY <1>1, <1>2, <1>3 DEF GlibStep

LEMMA GlibCallInv ==
    ASSUME CallInv, TypeOK', NEW g \in Glibs, GlibStep(g)
    PROVE  CallInv'
<1>1. /\ \A h \in Glibs : glib'[h].manager = glib[h].manager
      /\ \A h \in Glibs : glib'[h].pc \notin {"none", "ended"} => glib[h].pc \notin {"none", "ended"}
      /\ UNCHANGED <<manager, call, timedOut>>
    BY GlibForms DEF CallInv
<1>2. SameCalls /\ life' = life /\ m_isRunning' = m_isRunning /\ m_glibThread' = m_glibThread
    BY <1>1 DEF SameCalls, manager
<1>3. MutexInv' /\ \A m \in Managers : Doing(m)' = Doing(m) /\ Joins(m)' = Joins(m)
    BY <1>2, SameDoing DEF CallInv
<1>4. LifeInv' /\ SlotOwned' /\ (NobodyGaveUp => NobodyGaveUp')
    BY <1>2, <1>3 DEF CallInv, LifeInv, SlotOwned, NobodyGaveUp
<1>5. ThreadsOwned => ThreadsOwned'
    BY <1>1, <1>2, <1>3 DEF ThreadsOwned, Owns
<1> QED
    BY <1>1, <1>3, <1>4, <1>5 DEF CallInv

LEMMA CallStepInv == CallInv /\ [Next]_vars => CallInv'
<1> SUFFICES ASSUME CallInv, [Next]_vars PROVE CallInv'
    OBVIOUS
<1>1. TypeOK'
    BY StepTyped DEF CallInv
<1>2. CASE UNCHANGED vars
    <2>1. MutexInv' /\ \A m \in Managers : Doing(m)' = Doing(m) /\ Joins(m)' = Joins(m)
        BY <1>2, SameDoing DEF vars, manager, SameCalls, CallInv
    <2> QED
        BY <1>1, <1>2, <2>1 DEF vars, manager, CallInv, LifeInv, SlotOwned, ThreadsOwned, Owns, NobodyGaveUp
<1>3. ASSUME NEW u \in Apps, CallStep(u) PROVE CallInv'
    <2>1. CASE StartClean(u) \/ StopQuit(u) \/ StopWait(u) \/ StopJoinable(u)
        BY <1>1, <2>1, GoOnCallInv DEF StartClean, StopQuit, StopWait, StopJoinable, manager
    <2>2. CASE StartCreate(u)
        BY <1>1, <2>2, GoOnCallInv, ReturnCallInv DEF StartCreate
    <2>3. CASE StartWait(u)
        BY <1>1, <2>3, GoOnCallInv, ReturnCallInv DEF StartWait
    <2>4. CASE StartSpawn(u)
        <3>1. PICK m \in Managers : m = call[u].manager
            BY DEF CallInv, TypeOK, CallRecord
        <3>2. CASE Return(u) /\ UNCHANGED <<m_glibThread, glib>>
            BY <1>1, <2>4, <3>2, ReturnCallInv DEF StartSpawn
        <3>3. CASE \E g \in Glibs :
                      /\ Spawnable(g)
                      /\ glib' = [glib EXCEPT ![g] = [pc |-> "created", manager |-> m, loop |-> NoLoop]]
                      /\ m_glibThread' = [m_glibThread EXCEPT ![m] = g]
                      /\ GoTo(u, "starting")
                      /\ UNCHANGED <<life, m_startStopMutex>>
            BY <1>1, <2>4, <3>1, <3>3, SpawnCallInv
        <3> QED
            BY <2>4, <3>1, <3>2, <3>3 DEF StartSpawn
    <2>5. CASE StartGiveUp(u) \/ StopUnref(u)
        BY <1>1, <2>5, ReturnCallInv DEF StartGiveUp, StopUnref, StartCreate, StartSpawn, At
    <2>6. CASE StopMove(u) \/ StopJoin(u)
        BY <1>1, <2>6, JoinCallInv
    <2> QED
        BY <1>3, <2>1, <2>2, <2>3, <2>4, <2>5, <2>6 DEF CallStep
<1> QED
    BY <1>1, <1>2, <1>3, StartCallInv, OtherCallInv, GlibCallInv DEF Next

LEMMA CallInit == Init => CallInv
<1> SUFFICES ASSUME Init PROVE CallInv
    OBVIOUS
<1>1. /\ \A m \in Managers : Doing(m) = "idle" /\ ~m_isRunning[m] /\ m_glibThread[m] = NoThread
      /\ \A m \in Managers : life[m] = "alive" /\ m_startStopMutex[m] = Nobody
      /\ \A u \in Apps : At(u, "idle")
      /\ \A g \in Glibs : glib[g].pc = "none"
    BY DEF Init, Doing, At, IdleCall, NoGlib
<1> QED
    BY <1>1, InitTyped DEF CallInv, MutexInv, LifeInv, SlotOwned, ThreadsOwned, NobodyGaveUp

LEMMA CallInvariant == Spec => []CallInv
BY CallInit, CallStepInv, PTL DEF Spec

-----------------------------------------------------------------------------
\* start() never assigns to a joinable std::thread, whatever fails or times out.
THEOREM SlotIsFree == Spec => []ThreadSlotFree
<1>1. CallInv => ThreadSlotFree
    <2> SUFFICES ASSUME CallInv, NEW u \in Apps, At(u, "spawn")
                 PROVE  m_glibThread[call[u].manager] = NoThread
        BY DEF ThreadSlotFree
    <2>1. call[u].manager \in Managers /\ Doing(call[u].manager) = "spawn"
        BY InsideCall DEF CallInv, At
    <2> QED
        BY <2>1 DEF CallInv, SlotOwned, LifeInv
<1> QED
    BY <1>1, CallInvariant, PTL

\* Until the first timeout a manager that is not running has no thread, joinable
\* or on its way into a loop.
THEOREM NothingIsLeft == Spec => []NothingLeftBehind
<1>1. CallInv => NothingLeftBehind
    <2> SUFFICES ASSUME CallInv, ~timedOut, NEW m \in Managers,
                        m_startStopMutex[m] = Nobody, ~m_isRunning[m]
                 PROVE  /\ m_glibThread[m] = NoThread
                        /\ \A g \in Glibs : glib[g].manager = m => glib[g].pc \in {"none", "ended"}
        BY DEF NothingLeftBehind
    <2>1. Doing(m) = "idle"
        BY DEF Doing
    <2>2. m_glibThread[m] = NoThread
        BY <2>1 DEF CallInv, SlotOwned
    <2> QED
        BY <2>1, <2>2, ManagerAssumption DEF CallInv, ThreadsOwned, Owns
<1> QED
    BY <1>1, CallInvariant, PTL

-----------------------------------------------------------------------------
(* The loop of the only manager.                                            *)

OneManager == \A m, n \in Managers : m = n

\* What the operations on the loop do to it when it is the only one.
LEMMA LoopCreated ==
    ASSUME loops \in [Loops -> LoopRecord], allocated = {}, NEW m \in Managers, NEW l \in Loops,
           loops' = g_main_loop_new(l), m_mainLoop'[m] = l
    PROVE  OnlyLoop(m, 1, FALSE)'
BY DEF OnlyLoop, allocated, g_main_loop_new, LoopRecord

LEMMA LoopDropped ==
    ASSUME loops \in [Loops -> LoopRecord], NEW m \in Managers, NEW n \in {1, 2},
           NEW r \in BOOLEAN, OnlyLoop(m, n, r), loops' = g_main_loop_unref(m_mainLoop[m])
    PROVE  /\ n = 1 => allocated' = {}
           /\ n = 2 /\ m_mainLoop' = m_mainLoop => OnlyLoop(m, 1, r)'
BY DEF OnlyLoop, allocated, g_main_loop_unref, LoopRecord, FreedLoop

LEMMA LoopFlagged ==
    ASSUME loops \in [Loops -> LoopRecord], NEW m \in Managers, NEW n \in {1, 2},
           NEW r \in BOOLEAN, OnlyLoop(m, n, r), m_mainLoop' = m_mainLoop
    PROVE  /\ loops' = g_main_loop_quit(m_mainLoop[m]) => OnlyLoop(m, n, FALSE)'
           /\ loops' = SetsRunning(m_mainLoop[m]) => OnlyLoop(m, n, TRUE)'
           /\ loops' = TakesReference(m_mainLoop[m]) => OnlyLoop(m, n + 1, r)'
<1>1. ASSUME loops' = g_main_loop_quit(m_mainLoop[m]) PROVE OnlyLoop(m, n, FALSE)'
    BY <1>1 DEF g_main_loop_quit, OnlyLoop, allocated, LoopRecord
<1>2. ASSUME loops' = SetsRunning(m_mainLoop[m]) PROVE OnlyLoop(m, n, TRUE)'
    BY <1>2 DEF SetsRunning, OnlyLoop, allocated, LoopRecord
<1>3. ASSUME loops' = TakesReference(m_mainLoop[m]) PROVE OnlyLoop(m, n + 1, r)'
    BY <1>3 DEF TakesReference, OnlyLoop, allocated, LoopRecord
<1> QED
    BY <1>1, <1>2, <1>3

\* A step of a call that touches neither the loops nor the threads.
LEMMA HeldSame ==
    ASSUME NEW m \in Managers, NEW g, loops' = loops, glib' = glib, m_mainLoop'[m] = m_mainLoop[m]
    PROVE  /\ allocated' = allocated
           /\ Enters(m, g) => Enters(m, g)'
           /\ Runs(m, g) => Runs(m, g)'
           /\ Leaves(m, g) => Leaves(m, g)'
           /\ OnlyLoop(m, 1, FALSE) => OnlyLoop(m, 1, FALSE)'
<1>1. allocated' = allocated /\ \A n, r : OnlyLoop(m, n, r)' <=> OnlyLoop(m, n, r)
    BY DEF allocated, OnlyLoop
<1> QED
    BY <1>1 DEF Enters, Runs, Leaves

\* A call enters, leaves or goes on, and nothing happens to the loops: what the
\* next step asks for is what this one had.
LEMMA QuietHeld ==
    ASSUME NEW m \in Managers, LoopHeld(m),
           UNCHANGED <<loops, glib>>, m_mainLoop'[m] = m_mainLoop[m] \/ allocated = {},
           \/ /\ Doing(m)' \in {"idle", "clean", "new"} /\ ~m_isRunning'[m] /\ ~m_isRunning[m]
              /\ Doing(m) \in {"idle", "clean", "new"}
           \/ /\ Doing(m)' = "quit" /\ ~m_isRunning'[m]
              /\ m_isRunning[m] /\ m_glibThread'[m] = m_glibThread[m]
           \/ /\ Doing(m)' \in {"join", "move"} /\ ~m_isRunning'[m]
              /\ Doing(m) \in {"stopping", "join"} /\ m_glibThread'[m] = m_glibThread[m]
           \/ /\ Doing(m)' = "joining" /\ ~m_isRunning'[m]
              /\ Doing(m) = "move" /\ Joins(m)' = m_glibThread[m]
           \/ /\ Doing(m)' = "unref" /\ ~m_isRunning'[m]
              /\ Doing(m) = "joining" /\ glib[Joins(m)].pc = "ended"
    PROVE  LoopHeld(m)'
<1>1. allocated' = allocated
    BY DEF allocated
<1>2. CASE Doing(m)' \in {"idle", "clean", "new"} /\ Doing(m) \in {"idle", "clean", "new"}
           /\ ~m_isRunning'[m] /\ ~m_isRunning[m]
    BY <1>1, <1>2 DEF LoopHeld
<1>3. ASSUME Doing(m)' \notin {"idle", "clean", "new"} \/ m_isRunning'[m],
             m_isRunning[m] \/ Doing(m) \in {"stopping", "join", "move", "joining"}
      PROVE  m_mainLoop'[m] = m_mainLoop[m]
    <2>1. allocated # {}
        BY <1>3 DEF LoopHeld, Runs, Leaves, OnlyLoop
    <2> QED
        BY <2>1
<1>4. CASE Doing(m)' = "quit" /\ ~m_isRunning'[m] /\ m_isRunning[m] /\ m_glibThread'[m] = m_glibThread[m]
    <2>1. m_glibThread[m] \in Glibs /\ Runs(m, m_glibThread[m])
        BY <1>4 DEF LoopHeld
    <2>2. PICK g \in Glibs : g = m_glibThread[m] /\ g = m_glibThread'[m]
        BY <1>4, <2>1
    <2>3. Runs(m, g)'
        BY <1>3, <1>4, <2>1, <2>2, HeldSame
    <2> QED
        BY <1>4, <2>2, <2>3 DEF LoopHeld
<1>5. CASE /\ Doing(m)' \in {"join", "move"} /\ ~m_isRunning'[m]
           /\ Doing(m) \in {"stopping", "join"} /\ m_glibThread'[m] = m_glibThread[m]
    <2>1. PICK g \in Glibs : g = m_glibThread[m] /\ g = m_glibThread'[m] /\ Leaves(m, g)
        BY <1>5 DEF LoopHeld
    <2>2. Leaves(m, g)'
        BY <1>3, <1>5, <2>1, HeldSame
    <2> QED
        BY <1>5, <2>1, <2>2 DEF LoopHeld
<1>6. CASE /\ Doing(m)' = "joining" /\ ~m_isRunning'[m]
           /\ Doing(m) = "move" /\ Joins(m)' = m_glibThread[m]
    <2>1. PICK g \in Glibs : g = m_glibThread[m] /\ g = Joins(m)' /\ Leaves(m, g)
        BY <1>6 DEF LoopHeld
    <2>2. Leaves(m, g)'
        BY <1>3, <1>6, <2>1, HeldSame
    <2> QED
        BY <1>6, <2>1, <2>2 DEF LoopHeld
<1>7. CASE /\ Doing(m)' = "unref" /\ ~m_isRunning'[m]
           /\ Doing(m) = "joining" /\ glib[Joins(m)].pc = "ended"
    <2>1. OnlyLoop(m, 1, FALSE)
        BY <1>7 DEF LoopHeld, Leaves
    <2>2. OnlyLoop(m, 1, FALSE)'
        BY <1>3, <1>7, <2>1, HeldSame
    <2> QED
        BY <1>7, <2>2 DEF LoopHeld
<1> QED
    BY <1>2, <1>4, <1>5, <1>6, <1>7

\* The manager of the call, and what is known of it.
LEMMA InsideHeld ==
    ASSUME CallInv, NEW u \in Apps, ~At(u, "idle"), NEW m \in Managers, m = call[u].manager
    PROVE  Doing(m) = call[u].pc /\ Joins(m) = call[u].thread /\ ~m_isRunning[m]
<1>1. Doing(m) = call[u].pc /\ Joins(m) = call[u].thread
    BY InsideCall DEF CallInv
<1>2. call[u].pc # "idle" /\ LifeInv
    BY DEF CallInv, At
<1> QED
    BY <1>1, <1>2 DEF LifeInv

LEMMA EnterHeld ==
    ASSUME CallInv, NEW m \in Managers, LoopHeld(m), NEW u \in Apps,
           Start(u, m) \/ Stop(u, m) \/ Destroy(u, m)
    PROVE  LoopHeld(m)'
<1>1. /\ UNCHANGED <<loops, glib, m_mainLoop, m_glibThread>>
      /\ TypeOK /\ MutexInv /\ {"clean", "quit"} \subseteq CallPc \ {"idle"}
    BY DEF Start, Stop, Destroy, CallInv, CallPc
<1>2. CASE Start(u, m)
    <2>1. Doing(m) = "idle" /\ Doing(m)' = "clean" /\ ~m_isRunning[m] /\ m_isRunning' = m_isRunning
        BY <1>1, <1>2, EnterMoves DEF Start
    <2> QED
        BY <1>1, <2>1, QuietHeld
<1>3. CASE Stop(u, m) \/ (Destroy(u, m) /\ m_isRunning[m])
    <2>1. Enter(u, m, "quit") /\ m_isRunning[m] /\ m_isRunning' = [m_isRunning EXCEPT ![m] = FALSE]
        BY <1>3 DEF Stop, Destroy
    <2>2. Doing(m)' = "quit" /\ ~m_isRunning'[m]
        BY <1>1, <2>1, EnterMoves DEF TypeOK
    <2> QED
        BY <1>1, <2>1, <2>2, QuietHeld
<1>4. CASE Destroy(u, m) /\ ~m_isRunning[m]
    <2>1. Doing(m) = "idle" /\ Doing(m)' = "idle" /\ m_isRunning' = m_isRunning
        BY <1>4 DEF Destroy, Doing
    <2> QED
        BY <1>1, <1>4, <2>1, QuietHeld
<1> QED
    BY <1>2, <1>3, <1>4

LEMMA StartHeld ==
    ASSUME CallInv, ~timedOut', NEW u \in Apps, NEW m \in Managers, m = call[u].manager, LoopHeld(m),
           StartClean(u) \/ StartCreate(u) \/ StartSpawn(u) \/ StartWait(u) \/ StartGiveUp(u)
    PROVE  LoopHeld(m)'
<1>1. TypeOK /\ MutexInv /\ ~At(u, "idle")
    BY DEF CallInv, StartClean, StartCreate, StartSpawn, StartWait, StartGiveUp, At
<1>2. Doing(m) = call[u].pc /\ ~m_isRunning[m] /\ loops \in [Loops -> LoopRecord]
      /\ m_mainLoop \in [Managers -> Loops \cup {NoLoop}]
    BY <1>1, InsideHeld DEF TypeOK
<1>3. CASE StartClean(u)
    <2>1. Doing(m) = "clean" /\ allocated = {} /\ loops' = loops
        BY <1>2, <1>3 DEF StartClean, At, LoopHeld, g_main_loop_unref
    <2>2. Doing(m)' = "new" /\ m_isRunning' = m_isRunning /\ glib' = glib
        BY <1>1, <1>3, PcMoves DEF StartClean, CallPc
    <2> QED
        BY <1>2, <2>1, <2>2, QuietHeld
<1>4. CASE StartCreate(u)
    <2>1. Doing(m) = "new" /\ allocated = {} /\ m_isRunning' = m_isRunning /\ glib' = glib
        BY <1>2, <1>4 DEF StartCreate, At, LoopHeld
    <2>2. CASE Return(u) /\ UNCHANGED <<m_mainLoop, loops>>
        <3>1. Doing(m)' = "idle"
            BY <1>1, <2>2, ReturnMoves
        <3> QED
            BY <1>2, <2>1, <2>2, <3>1, QuietHeld
    <2>3. ASSUME NEW l \in Loops, loops' = g_main_loop_new(l), GoTo(u, "spawn"),
                 m_mainLoop' = [m_mainLoop EXCEPT ![m] = l], m_startStopMutex' = m_startStopMutex
          PROVE  LoopHeld(m)'
        <3>1. Doing(m)' = "spawn"
            BY <1>1, <2>3, PcMoves DEF CallPc
        <3>2. OnlyLoop(m, 1, FALSE)'
            BY <1>2, <2>1, <2>3, LoopCreated
        <3> QED
            BY <1>2, <2>1, <3>1, <3>2 DEF LoopHeld
    <2> QED
        BY <1>4, <2>2, <2>3 DEF StartCreate
<1>5. CASE StartSpawn(u)
    <2>1. Doing(m) = "spawn" /\ OnlyLoop(m, 1, FALSE) /\ m_isRunning' = m_isRunning
        BY <1>2, <1>5 DEF StartSpawn, At, LoopHeld
    <2>2. CASE Return(u) /\ loops' = g_main_loop_unref(m_mainLoop[m])
        <3>1. Doing(m)' = "idle" /\ allocated' = {}
            BY <1>1, <1>2, <2>1, <2>2, ReturnMoves, LoopDropped
        <3> QED
            BY <1>2, <2>1, <3>1 DEF LoopHeld
    <2>3. ASSUME NEW g \in Glibs, GoTo(u, "starting"),
                 glib' = [glib EXCEPT ![g] = [pc |-> "created", manager |-> m, loop |-> NoLoop]],
                 m_glibThread' = [m_glibThread EXCEPT ![m] = g],
                 UNCHANGED <<m_startStopMutex, m_mainLoop, loops>>
          PROVE  LoopHeld(m)'
        <3>1. Doing(m)' = "starting"
            BY <1>1, <2>3, PcMoves DEF CallPc
        <3>2. m_glibThread'[m] = g
            BY <1>1, <2>3 DEF TypeOK
        <3>3. glib'[g] = [pc |-> "created", manager |-> m, loop |-> NoLoop]
            BY <1>1, <2>3 DEF TypeOK
        <3>4. OnlyLoop(m, 1, FALSE)'
            BY <2>1, <2>3 DEF OnlyLoop, allocated
        <3>5. glib'[g].pc = "created" /\ glib'[g].manager = m
            BY <3>3
        <3>6. Enters(m, g)'
            <4>1. /\ glib'[g].pc \notin {"called", "entered", "running"}
                  /\ (glib'[g].pc = "running") = FALSE
                  /\ (IF glib'[g].pc \in {"entered", "running"} THEN 2 ELSE 1) = 1
                BY <3>5
            <4> QED
                BY <3>4, <3>5, <4>1 DEF Enters
        <3> QED
            BY <1>2, <2>1, <3>1, <3>2, <3>6 DEF LoopHeld
    <2> QED
        BY <1>5, <2>2, <2>3 DEF StartSpawn
<1>6. CASE StartWait(u)
    <2>1. PICK g \in Glibs : g = m_glibThread[m] /\ Enters(m, g)
        BY <1>2, <1>6 DEF StartWait, At, LoopHeld
    <2>2. /\ IsRunning(m_mainLoop[m]) /\ Return(u)
          /\ m_isRunning' = [m_isRunning EXCEPT ![m] = TRUE]
          /\ UNCHANGED <<m_mainLoop, m_glibThread, loops, glib>>
        BY <1>6 DEF StartWait, TimesOut
    <2>3. Runs(m, g)
        BY <2>1, <2>2 DEF Enters, Runs, OnlyLoop, IsRunning
    <2>4. Runs(m, g)' /\ m_glibThread'[m] = g
        BY <2>1, <2>2, <2>3, HeldSame
    <2>5. Doing(m)' = "idle" /\ m_isRunning'[m]
        BY <1>1, <2>2, ReturnMoves DEF TypeOK
    <2> QED
        BY <2>1, <2>4, <2>5 DEF LoopHeld
<1>7. ~StartGiveUp(u)
    BY <1>2 DEF StartGiveUp, At, CallInv, NobodyGaveUp
<1> QED
    BY <1>3, <1>4, <1>5, <1>6, <1>7

LEMMA StopHeld ==
    ASSUME CallInv, ~timedOut', NEW u \in Apps, NEW m \in Managers, m = call[u].manager, LoopHeld(m),
           \/ StopQuit(u) \/ StopWait(u) \/ StopJoinable(u) \/ StopMove(u) \/ StopJoin(u)
           \/ StopUnref(u)
    PROVE  LoopHeld(m)'
<1>1. TypeOK /\ MutexInv /\ ~At(u, "idle")
    BY DEF CallInv, StopQuit, StopWait, StopJoinable, StopMove, StopJoin, StopUnref, At
<1>2. /\ Doing(m) = call[u].pc /\ Joins(m) = call[u].thread /\ ~m_isRunning[m]
      /\ loops \in [Loops -> LoopRecord]
    BY <1>1, InsideHeld DEF TypeOK
<1>3. m_isRunning' = m_isRunning /\ glib' = glib /\ m_mainLoop' = m_mainLoop
    BY DEF StopQuit, StopWait, StopJoinable, StopMove, StopJoin, StopUnref, manager
<1>4. CASE StopQuit(u)
    <2>1. PICK g \in Glibs : g = m_glibThread[m] /\ g = m_glibThread'[m] /\ Runs(m, g)
        BY <1>2, <1>4 DEF StopQuit, At, LoopHeld, manager
    <2>2. OnlyLoop(m, 2, FALSE)'
        BY <1>2, <1>3, <1>4, <2>1, LoopFlagged DEF StopQuit, Runs
    <2>3. Leaves(m, g)'
        BY <1>3, <2>1, <2>2 DEF Runs, Leaves
    <2>4. Doing(m)' = "stopping"
        BY <1>1, <1>4, PcMoves DEF StopQuit, manager, CallPc
    <2> QED
        BY <1>2, <1>3, <2>1, <2>3, <2>4 DEF LoopHeld
<1>5. CASE StopWait(u)
    <2>1. Doing(m)' = "join" /\ Doing(m) = "stopping" /\ UNCHANGED <<loops, m_glibThread>>
        BY <1>1, <1>2, <1>5, PcMoves DEF StopWait, manager, CallPc, At
    <2> QED
        BY <1>2, <1>3, <2>1, QuietHeld
<1>6. CASE StopJoinable(u)
    <2>1. Doing(m) = "join" /\ m_glibThread[m] # NoThread
        BY <1>2, <1>6, ManagerAssumption DEF StopJoinable, At, LoopHeld
    <2>2. Doing(m)' = "move" /\ UNCHANGED <<loops, m_glibThread>>
        BY <1>1, <1>6, <2>1, PcMoves DEF StopJoinable, manager, CallPc
    <2> QED
        BY <1>2, <1>3, <2>1, <2>2, QuietHeld
<1>7. CASE StopMove(u)
    <2>1. PICK t \in Glibs : t = m_glibThread[m]
        BY <1>1, <1>7 DEF StopMove, TypeOK
    <2>2. GoesOn(u, "joining", t) /\ Doing(m) = "move" /\ loops' = loops
        BY <1>2, <1>7, <2>1 DEF StopMove, GoesOn, At
    <2>3. Doing(m)' = "joining" /\ Joins(m)' = t
        BY <1>1, <2>2, GoToMoves DEF CallPc
    <2> QED
        BY <1>2, <1>3, <2>1, <2>2, <2>3, QuietHeld
<1>8. CASE StopJoin(u)
    <2>1. /\ GoesOn(u, "unref", NoThread) /\ Doing(m) = "joining" /\ loops' = loops
          /\ glib[Joins(m)].pc = "ended"
        BY <1>2, <1>8 DEF StopJoin, GoesOn, At, manager, TimesOut
    <2>2. Doing(m)' = "unref"
        BY <1>1, <2>1, GoToMoves DEF CallPc
    <2> QED
        BY <1>2, <1>3, <2>1, <2>2, QuietHeld
<1>9. CASE StopUnref(u)
    <2>1. OnlyLoop(m, 1, FALSE)
        BY <1>2, <1>9 DEF StopUnref, At, LoopHeld
    <2>2. allocated' = {}
        BY <1>2, <1>9, <2>1, LoopDropped DEF StopUnref
    <2>3. Doing(m)' = "idle"
        BY <1>1, <1>9, ReturnMoves DEF StopUnref
    <2> QED
        BY <1>2, <1>3, <2>2, <2>3 DEF LoopHeld
<1> QED
    BY <1>4, <1>5, <1>6, <1>7, <1>8, <1>9

\* The thread on its way into g_main_loop_run.
LEMMA EntersOn ==
    ASSUME TypeOK, NEW g \in Glibs, GlibStep(g), NEW m \in Managers, m = glib[g].manager, Enters(m, g)
    PROVE  Enters(m, g)'
<1>1. /\ loops \in [Loops -> LoopRecord] /\ m_mainLoop' = m_mainLoop /\ glib'[g].manager = m
      /\ m_mainLoop[m] # NoLoop /\ m_mainLoop[m] \in allocated
    BY GlibForms, ManagerAssumption DEF TypeOK, Enters, OnlyLoop, manager
<1>2. ASSUME NEW pc \in {"checked", "called"}, glib'[g].pc = pc, glib[g].pc \in {"created", "checked"},
             pc = "called" => glib'[g].loop = m_mainLoop[m], loops' = loops
      PROVE  Enters(m, g)'
    <2>1. OnlyLoop(m, 1, FALSE)
        <3>1. (glib[g].pc = "running") = FALSE
              /\ (IF glib[g].pc \in {"entered", "running"} THEN 2 ELSE 1) = 1
            BY <1>2
        <3> QED
            BY <3>1 DEF Enters
    <2>2. OnlyLoop(m, 1, FALSE)'
        BY <1>1, <1>2, <2>1 DEF OnlyLoop, allocated
    <2>3. (glib'[g].pc = "running") = FALSE
          /\ (IF glib'[g].pc \in {"entered", "running"} THEN 2 ELSE 1) = 1
        BY <1>2
    <2> QED
        BY <1>1, <1>2, <2>2, <2>3 DEF Enters
<1>3. CASE GlibCheck(g)
    <2>1. glib'[g].pc = "checked" /\ glib[g].pc = "created" /\ loops' = loops
        BY <1>1, <1>3 DEF GlibCheck, GlibGoTo, TypeOK, GlibRecord
    <2> QED
        BY <1>2, <2>1
<1>4. CASE GlibCall(g)
    <2>1. /\ glib'[g].pc = "called" /\ glib[g].pc = "checked" /\ glib'[g].loop = m_mainLoop[m]
          /\ loops' = loops
        BY <1>1, <1>4 DEF GlibCall, TypeOK
    <2> QED
        BY <1>2, <2>1
<1>5. CASE GlibRun(g)
    <2>1. /\ glib'[g].pc = "entered" /\ glib[g].pc = "called" /\ glib'[g].loop = glib[g].loop
          /\ glib[g].loop = m_mainLoop[m] /\ loops' = TakesReference(m_mainLoop[m])
        BY <1>5 DEF GlibRun, GlibGoTo, TypeOK, GlibRecord, Enters
    <2>2. OnlyLoop(m, 1, FALSE)
        <3>1. (glib[g].pc = "running") = FALSE
              /\ (IF glib[g].pc \in {"entered", "running"} THEN 2 ELSE 1) = 1
            BY <2>1
        <3> QED
            BY <3>1 DEF Enters
    <2>3. OnlyLoop(m, 2, FALSE)'
        BY <1>1, <2>1, <2>2 DEF TakesReference, OnlyLoop, allocated, LoopRecord
    <2>4. (glib'[g].pc = "running") = FALSE
          /\ (IF glib'[g].pc \in {"entered", "running"} THEN 2 ELSE 1) = 2
        BY <2>1
    <2> QED
        BY <1>1, <2>1, <2>3, <2>4 DEF Enters
<1>6. CASE GlibRunning(g)
    <2>1. /\ glib'[g].pc = "running" /\ glib[g].pc = "entered" /\ glib'[g].loop = glib[g].loop
          /\ glib[g].loop = m_mainLoop[m] /\ loops' = SetsRunning(m_mainLoop[m])
        BY <1>6 DEF GlibRunning, GlibGoTo, TypeOK, GlibRecord, Enters
    <2>2. OnlyLoop(m, 2, FALSE)
        <3>1. (glib[g].pc = "running") = FALSE
              /\ (IF glib[g].pc \in {"entered", "running"} THEN 2 ELSE 1) = 2
            BY <2>1
        <3> QED
            BY <3>1 DEF Enters
    <2>3. OnlyLoop(m, 2, TRUE)'
        BY <1>1, <2>1, <2>2, LoopFlagged
    <2>4. (glib'[g].pc = "running") = TRUE
          /\ (IF glib'[g].pc \in {"entered", "running"} THEN 2 ELSE 1) = 2
        BY <2>1
    <2> QED
        BY <1>1, <2>1, <2>3, <2>4 DEF Enters
<1>7. CASE GlibLeave(g)
    <2>1. glib[g].loop = m_mainLoop[m] /\ loops[m_mainLoop[m]].running
        BY <1>7 DEF GlibLeave, Enters, OnlyLoop
    <2> QED
        BY <1>1, <1>7, <2>1 DEF GlibLeave, IsRunning
<1> QED
    BY <1>3, <1>4, <1>5, <1>6, <1>7 DEF GlibStep

\* The thread in a loop that was told to quit.
LEMMA LeavesOn ==
    ASSUME TypeOK, NEW g \in Glibs, GlibStep(g), NEW m \in Managers, Leaves(m, g)
    PROVE  Leaves(m, g)'
<1>1. /\ glib[g].pc = "running" /\ glib[g].loop = m_mainLoop[m] /\ OnlyLoop(m, 2, FALSE)
      /\ m_mainLoop' = m_mainLoop /\ loops \in [Loops -> LoopRecord]
    BY GlibForms DEF Leaves, manager, TypeOK
<1>2. GlibLeave(g)
    BY <1>1 DEF GlibStep, GlibCheck, GlibCall, GlibRun, GlibRunning
<1>3. glib'[g].pc = "ended" /\ loops' = g_main_loop_unref(m_mainLoop[m])
    BY <1>1, <1>2 DEF GlibLeave, GlibGoTo, TypeOK, GlibRecord
<1>4. OnlyLoop(m, 1, FALSE)'
    BY <1>1, <1>3, LoopDropped
<1> QED
    BY <1>3, <1>4 DEF Leaves

LEMMA GlibHeld ==
    ASSUME CallInv, ~timedOut, NEW g \in Glibs, GlibStep(g), NEW m \in Managers, m = glib[g].manager,
           LoopHeld(m)
    PROVE  LoopHeld(m)'
<1>1. TypeOK /\ Owns(m, g)
    BY GlibForms DEF CallInv, ThreadsOwned
<1>2. UNCHANGED <<manager, call>>
    BY <1>1, GlibForms
<1>3. /\ Doing(m)' = Doing(m) /\ Joins(m)' = Joins(m)
      /\ m_isRunning' = m_isRunning /\ m_glibThread' = m_glibThread
    BY <1>2, SameDoing DEF SameCalls, manager
<1>4. \/ m_glibThread[m] = g /\ Doing(m) = "starting"
      \/ m_glibThread[m] = g /\ (m_isRunning[m] \/ Doing(m) = "quit")
      \/ m_glibThread[m] = g /\ Doing(m) \in {"stopping", "join", "move"}
      \/ Joins(m) = g /\ Doing(m) = "joining"
    <2>1. /\ Doing(m) # "give_up"
          /\ m_glibThread[m] = g => m_isRunning[m]
                \/ Doing(m) \in {"starting", "give_up", "quit", "stopping", "join", "move"}
        BY ManagerAssumption DEF CallInv, SlotOwned, NobodyGaveUp
    <2> QED
        BY <1>1, <2>1 DEF Owns
<1>5. Doing(m) # "idle" => ~m_isRunning[m]
    BY DEF CallInv, LifeInv
<1>6. CASE m_glibThread[m] = g /\ Doing(m) = "starting"
    <2>1. Enters(m, g)'
        BY <1>1, <1>6, EntersOn DEF LoopHeld
    <2> QED
        BY <1>3, <1>5, <1>6, <2>1 DEF LoopHeld
<1>7. CASE m_glibThread[m] = g /\ (m_isRunning[m] \/ Doing(m) = "quit")
    <2>1. Runs(m, g)
        BY <1>7 DEF LoopHeld
    <2>2. glib[g].pc = "running" /\ IsRunning(glib[g].loop)
        BY <2>1 DEF Runs, OnlyLoop, IsRunning
    <2> QED
        BY <2>2 DEF GlibStep, GlibCheck, GlibCall, GlibRun, GlibRunning, GlibLeave
<1>8. CASE m_glibThread[m] = g /\ Doing(m) \in {"stopping", "join", "move"}
    <2>1. Leaves(m, g)'
        BY <1>1, <1>8, LeavesOn DEF LoopHeld
    <2> QED
        BY <1>3, <1>5, <1>8, <2>1 DEF LoopHeld
<1>9. CASE Joins(m) = g /\ Doing(m) = "joining"
    <2>1. Leaves(m, g)'
        BY <1>1, <1>9, LeavesOn DEF LoopHeld
    <2> QED
        BY <1>3, <1>5, <1>9, <2>1 DEF LoopHeld
<1> QED
    BY <1>4, <1>6, <1>7, <1>8, <1>9

LEMMA OtherHeld ==
    ASSUME CallInv, ~timedOut', NEW m \in Managers, LoopHeld(m),
           DestructorTimeout(m) \/ Construct(m)
    PROVE  LoopHeld(m)'
<1>1. Construct(m)
    BY DEF DestructorTimeout, TimesOut
<1>2. SameCalls /\ UNCHANGED <<loops, glib, m_isRunning>>
    BY <1>1 DEF Construct, SameCalls
<1>3. Doing(m) = "idle" /\ ~m_isRunning[m]
    BY <1>1 DEF Construct, CallInv, LifeInv
<1>4. Doing(m)' = "idle" /\ allocated = {}
    BY <1>2, <1>3, SameDoing DEF LoopHeld
<1> QED
    BY <1>2, <1>3, <1>4, QuietHeld

LEMMA LoopStepInv ==
    ASSUME OneManager, CallInv, LoopInv, [Next]_vars
    PROVE  LoopInv'
<1> SUFFICES ASSUME ~timedOut', NEW m \in Managers PROVE LoopHeld(m)'
    BY DEF LoopInv
<1>1. ~timedOut
    BY DEF Next, vars, CallStep, GlibStep, Start, Stop, Destroy, StartClean, StartCreate, StartSpawn,
           StartWait, StartGiveUp, StopQuit, StopWait, StopJoinable, StopMove, StopJoin, StopUnref,
           DestructorTimeout, Construct, GlibCheck, GlibCall, GlibRun, GlibRunning, GlibLeave, TimesOut
<1>2. LoopHeld(m) /\ \A n \in Managers : n = m
    BY <1>1 DEF LoopInv, OneManager
<1>3. CASE UNCHANGED vars
    <2>1. Doing(m)' = Doing(m) /\ Joins(m)' = Joins(m) /\ UNCHANGED <<loops, glib, manager>>
        BY <1>3, SameDoing DEF vars, manager, SameCalls
    <2>2. PICK g, h : g = m_glibThread[m] /\ h = Joins(m)
        OBVIOUS
    <2>3. m_glibThread'[m] = g /\ Joins(m)' = h /\ m_mainLoop'[m] = m_mainLoop[m] /\ m_isRunning' = m_isRunning
        BY <2>1, <2>2 DEF manager
    <2>4. /\ Enters(m, g) => Enters(m, g)'
          /\ Runs(m, g) => Runs(m, g)'
          /\ Leaves(m, g) => Leaves(m, g)'
          /\ Leaves(m, h) => Leaves(m, h)'
          /\ OnlyLoop(m, 1, FALSE) => OnlyLoop(m, 1, FALSE)'
          /\ allocated' = allocated
        BY <2>1, <2>3, HeldSame
    <2> QED
        BY <1>2, <2>1, <2>2, <2>3, <2>4 DEF LoopHeld
<1>4. ASSUME NEW u \in Apps, CallStep(u) PROVE LoopHeld(m)'
    <2>1. m = call[u].manager
        BY <1>2 DEF CallInv, TypeOK, CallRecord
    <2> QED
        BY <1>2, <1>4, <2>1, StartHeld, StopHeld DEF CallStep
<1>5. ASSUME NEW g \in Glibs, GlibStep(g) PROVE LoopHeld(m)'
    <2>1. m = glib[g].manager
        BY <1>2 DEF CallInv, TypeOK, GlibRecord
    <2> QED
        BY <1>1, <1>2, <1>5, <2>1, GlibHeld
<1>6. ASSUME NEW u \in Apps, NEW n \in Managers, Start(u, n) \/ Stop(u, n) \/ Destroy(u, n)
      PROVE  LoopHeld(m)'
    BY <1>2, <1>6, EnterHeld
<1>7. ASSUME NEW n \in Managers, DestructorTimeout(n) \/ Construct(n) PROVE LoopHeld(m)'
    BY <1>2, <1>7, OtherHeld
<1> QED
    BY <1>3, <1>4, <1>5, <1>6, <1>7 DEF Next

LEMMA LoopInitInv == Init => LoopInv
<1> SUFFICES ASSUME Init, NEW m \in Managers PROVE LoopHeld(m)
    BY DEF LoopInv
<1>1. Doing(m) = "idle" /\ ~m_isRunning[m]
    BY DEF Init, Doing
<1>2. allocated = {}
    BY DEF Init, LoopsInit, allocated, FreedLoop
<1> QED
    BY <1>1, <1>2 DEF LoopHeld

LEMMA LoopInvariant ==
    ASSUME OneManager
    PROVE  Spec => []LoopInv
<1>1. Init => LoopInv
    BY LoopInitInv
<1>2. CallInv /\ LoopInv /\ [Next]_vars => LoopInv'
    BY LoopStepInv
<1> QED
    BY <1>1, <1>2, CallInvariant, PTL DEF Spec

\* With one manager, and until its first timeout: what says it is running has a
\* loop that runs, in the thread that stop() will join.  A second manager breaks
\* this, as MCTwoManagers shows.
THEOREM RunningIsAlive ==
    ASSUME OneManager
    PROVE  Spec => []RunningLoopAlive
<1>1. LoopInv => RunningLoopAlive
    <2> SUFFICES ASSUME ~timedOut, LoopInv, NEW m \in Managers, m_isRunning[m]
                 PROVE  /\ IsRunning(m_mainLoop[m])
                        /\ \E g \in Glibs : /\ m_glibThread[m] = g
                                            /\ glib[g].pc = "running"
                                            /\ glib[g].loop = m_mainLoop[m]
        BY DEF RunningLoopAlive
    <2>1. m_glibThread[m] \in Glibs /\ Runs(m, m_glibThread[m])
        BY DEF LoopInv, LoopHeld
    <2> QED
        BY <2>1 DEF Runs, OnlyLoop, IsRunning
<1> QED
    BY <1>1, LoopInvariant, PTL

-----------------------------------------------------------------------------
(* The references of the loop are those of its manager and of its thread.   *)

Inside == {g \in Glibs : glib[g].pc \in {"entered", "running"}}

\* Without an owner there is no loop; with one there is its loop, and at most one
\* thread inside it.
LEMMA LoopShape ==
    ASSUME OneManager, CallInv, ~timedOut, NEW m \in Managers, LoopHeld(m)
    PROVE  \/ ~Owner(m) /\ allocated = {} /\ Inside = {}
           \/ /\ Owner(m) /\ m_mainLoop[m] \in Loops /\ allocated = {m_mainLoop[m]}
              /\ \/ loops[m_mainLoop[m]].ref = 1 /\ Inside = {}
                 \/ /\ loops[m_mainLoop[m]].ref = 2
                    /\ \E g \in Glibs : Inside = {g} /\ glib[g].loop = m_mainLoop[m]
<1>1. Owner(m) <=> m_isRunning[m] \/ Doing(m) \notin {"idle", "clean", "new"}
    BY ManagerAssumption DEF Owner, Doing, CallInv, MutexInv, TypeOK, At
<1>2. \A g \in Glibs : glib[g].pc \notin {"none", "ended"} => Owns(m, g)
    <2> SUFFICES ASSUME NEW g \in Glibs, glib[g].pc \notin {"none", "ended"} PROVE Owns(m, g)
        OBVIOUS
    <2>1. glib[g].manager = m
        BY DEF CallInv, TypeOK, GlibRecord, OneManager
    <2> QED
        BY <2>1 DEF CallInv, ThreadsOwned
<1>3. /\ m_glibThread[m] # NoThread => m_isRunning[m]
            \/ Doing(m) \in {"starting", "quit", "stopping", "join", "move"}
      /\ m_isRunning[m] => Doing(m) = "idle"
      /\ m_glibThread[m] \in Glibs \cup {NoThread} /\ NoThread \notin Glibs
      /\ Doing(m) \in CallPc
    BY ManagerAssumption DEF CallInv, SlotOwned, NobodyGaveUp, LifeInv, TypeOK, Doing, CallRecord, CallPc
<1>4. CASE ~Owner(m)
    BY <1>1, <1>2, <1>3, <1>4 DEF LoopHeld, Inside, Owns
<1>5. CASE Doing(m) \in {"spawn", "unref"}
    <2>1. ~m_isRunning[m] /\ m_glibThread[m] = NoThread
        BY <1>3, <1>5
    <2>2. Inside = {}
        BY <1>2, <1>3, <1>5, <2>1 DEF Inside, Owns
    <2> QED
        BY <1>1, <1>5, <2>2 DEF LoopHeld, OnlyLoop
<1>6. ASSUME NEW g \in Glibs, \A h \in Glibs : Owns(m, h) <=> h = g, Owner(m),
             Enters(m, g) \/ Runs(m, g) \/ Leaves(m, g)
      PROVE  \/ OnlyLoop(m, 1, FALSE) /\ Inside = {}
             \/ /\ OnlyLoop(m, 2, TRUE) \/ OnlyLoop(m, 2, FALSE)
                /\ Inside = {g} /\ glib[g].loop = m_mainLoop[m]
    <2>1. Inside = IF glib[g].pc \in {"entered", "running"} THEN {g} ELSE {}
        BY <1>2, <1>6 DEF Inside
    <2>2. CASE Enters(m, g)
        <3>1. CASE glib[g].pc = "running"
            <4>1. /\ (glib[g].pc = "running") = TRUE
                  /\ (IF glib[g].pc \in {"entered", "running"} THEN 2 ELSE 1) = 2
                BY <3>1
            <4> QED
                BY <2>1, <2>2, <3>1, <4>1 DEF Enters
        <3>2. CASE glib[g].pc = "entered"
            <4>1. /\ (glib[g].pc = "running") = FALSE
                  /\ (IF glib[g].pc \in {"entered", "running"} THEN 2 ELSE 1) = 2
                BY <3>2
            <4> QED
                BY <2>1, <2>2, <3>2, <4>1 DEF Enters
        <3>3. CASE glib[g].pc \notin {"entered", "running"}
            <4>1. /\ (glib[g].pc = "running") = FALSE
                  /\ (IF glib[g].pc \in {"entered", "running"} THEN 2 ELSE 1) = 1
                BY <3>3
            <4> QED
                BY <2>1, <2>2, <3>3, <4>1 DEF Enters
        <3> QED
            BY <3>1, <3>2, <3>3
    <2>3. CASE Runs(m, g)
        BY <2>1, <2>3 DEF Runs
    <2>4. CASE Leaves(m, g)
        BY <2>1, <2>4 DEF Leaves
    <2> QED
        BY <1>6, <2>2, <2>3, <2>4
<1>7. ASSUME NEW g \in Glibs, \A h \in Glibs : Owns(m, h) <=> h = g, Owner(m),
             Enters(m, g) \/ Runs(m, g) \/ Leaves(m, g)
      PROVE  /\ m_mainLoop[m] \in Loops /\ allocated = {m_mainLoop[m]}
             /\ \/ loops[m_mainLoop[m]].ref = 1 /\ Inside = {}
                \/ /\ loops[m_mainLoop[m]].ref = 2
                   /\ Inside = {g} /\ glib[g].loop = m_mainLoop[m]
    BY <1>6, <1>7 DEF OnlyLoop
<1>8. CASE m_isRunning[m] \/ Doing(m) \in {"starting", "quit", "stopping", "join", "move"}
    <2>1. PICK g \in Glibs : g = m_glibThread[m] /\ (Enters(m, g) \/ Runs(m, g) \/ Leaves(m, g))
        BY <1>8 DEF LoopHeld
    <2>2. \A h \in Glibs : Owns(m, h) <=> h = g
        BY <1>3, <1>8, <2>1 DEF Owns
    <2>3. Owner(m)
        BY <1>1, <1>8
    <2> QED
        BY <1>7, <2>1, <2>2, <2>3
<1>9. CASE Doing(m) = "joining"
    <2>1. PICK g \in Glibs : g = Joins(m) /\ Leaves(m, g)
        BY <1>9 DEF LoopHeld
    <2>2. \A h \in Glibs : Owns(m, h) <=> h = g
        BY <1>3, <1>9, <2>1 DEF Owns
    <2>3. Owner(m)
        BY <1>1, <1>9
    <2> QED
        BY <1>7, <2>1, <2>2, <2>3
<1>10. Doing(m) # "give_up"
    BY DEF CallInv, NobodyGaveUp
<1> QED
    BY <1>1, <1>3, <1>4, <1>5, <1>8, <1>9, <1>10 DEF CallPc

LEMMA CountsHold ==
    ASSUME OneManager, CallInv, LoopInv
    PROVE  CountsExact
<1> SUFFICES ASSUME ~timedOut, NEW l \in Loops PROVE LoopUsers(l) = loops[l].ref
    BY DEF CountsExact
<1>1. PICK m \in Managers : LoopHeld(m)
    BY ManagerAssumption DEF LoopInv
<1>2. \A n \in Managers : n = m
    BY DEF OneManager
<1> DEFINE Owners == {n \in Managers : Owner(n) /\ m_mainLoop[n] = l}
           Runners == {g \in Glibs : glib[g].pc \in {"entered", "running"} /\ glib[g].loop = l}
<1>3. LoopUsers(l) = Cardinality(Owners) + Cardinality(Runners)
    BY DEF LoopUsers
<1>4. Runners \subseteq Inside /\ \A g \in Inside : g \in Runners <=> glib[g].loop = l
    BY DEF Inside
<1>5. loops[l].ref \in Nat /\ (l \notin allocated => loops[l].ref = 0)
    BY DEF CallInv, TypeOK, LoopRecord, allocated
<1>6. Cardinality({}) = 0 /\ \A x : Cardinality({x}) = 1
    BY FS_EmptySet, FS_Singleton
<1> HIDE DEF Owners, Runners
<1>7. Owners = IF Owner(m) /\ m_mainLoop[m] = l THEN {m} ELSE {}
    BY <1>2 DEF Owners
<1>8. CASE ~Owner(m) /\ allocated = {} /\ Inside = {}
    <2>1. Owners = {} /\ Runners = {}
        BY <1>4, <1>7, <1>8
    <2> QED
        BY <1>3, <1>5, <1>6, <1>8, <2>1
<1>9. CASE Owner(m) /\ allocated = {m_mainLoop[m]} /\ loops[m_mainLoop[m]].ref = 1 /\ Inside = {}
    <2>1. Runners = {}
        BY <1>4, <1>9
    <2>2. CASE m_mainLoop[m] = l
        <3>1. Cardinality(Owners) = 1 /\ Cardinality(Runners) = 0
            BY <1>6, <1>7, <1>9, <2>1, <2>2
        <3>2. Cardinality(Owners) + Cardinality(Runners) = 1
            BY <3>1
        <3> QED
            BY <1>3, <1>9, <2>2, <3>2
    <2>3. CASE m_mainLoop[m] # l
        BY <1>3, <1>5, <1>6, <1>7, <1>9, <2>1, <2>3
    <2> QED
        BY <2>2, <2>3
<1>10. ASSUME Owner(m), allocated = {m_mainLoop[m]}, loops[m_mainLoop[m]].ref = 2,
              NEW g \in Glibs, Inside = {g}, glib[g].loop = m_mainLoop[m]
       PROVE  LoopUsers(l) = loops[l].ref
    <2>1. Runners = IF m_mainLoop[m] = l THEN {g} ELSE {}
        BY <1>4, <1>10
    <2>2. CASE m_mainLoop[m] = l
        <3>1. Cardinality(Owners) = 1 /\ Cardinality(Runners) = 1
            BY <1>6, <1>7, <1>10, <2>1, <2>2
        <3>2. Cardinality(Owners) + Cardinality(Runners) = 2
            BY <3>1
        <3> QED
            BY <1>3, <1>10, <2>2, <3>2
    <2>3. CASE m_mainLoop[m] # l
        BY <1>3, <1>5, <1>6, <1>7, <1>10, <2>1, <2>3
    <2> QED
        BY <2>2, <2>3
<1> QED
    BY <1>1, <1>8, <1>9, <1>10, LoopShape

\* What a step may do to the counter of a loop.
LoopMove(l) ==
    \/ loops[l].ref = 0 /\ loops'[l].ref = 1
    \/ loops[l].ref > 0 /\ loops'[l].ref \in {loops[l].ref + 1, loops[l].ref - 1}
    \/ loops'[l].ref = loops[l].ref

LEMMA OperationMoves ==
    ASSUME loops \in [Loops -> LoopRecord], NEW k,
           \/ loops' = loops
           \/ k \in Loops \ allocated /\ loops' = g_main_loop_new(k)
           \/ k \in allocated /\ loops' = TakesReference(k)
           \/ loops' = g_main_loop_unref(k) \/ loops' = g_main_loop_quit(k) \/ loops' = SetsRunning(k),
           NEW l \in Loops
    PROVE  LoopMove(l)
<1> USE DEF LoopMove, allocated, LoopRecord
<1>1. CASE loops' = loops
    BY <1>1
<1>2. CASE k \in Loops \ allocated /\ loops' = g_main_loop_new(k)
    BY <1>2 DEF g_main_loop_new
<1>3. CASE k \in allocated /\ loops' = TakesReference(k)
    BY <1>3 DEF TakesReference
<1>4. CASE loops' = g_main_loop_unref(k)
    BY <1>4 DEF g_main_loop_unref, FreedLoop
<1>5. CASE loops' = g_main_loop_quit(k)
    BY <1>5 DEF g_main_loop_quit
<1>6. CASE loops' = SetsRunning(k)
    BY <1>6 DEF SetsRunning
<1> QED
    BY <1>1, <1>2, <1>3, <1>4, <1>5, <1>6

LEMMA StepMoves ==
    ASSUME CallInv, [Next]_vars, ~timedOut', NEW l \in Loops
    PROVE  LoopMove(l)
<1>1. loops \in [Loops -> LoopRecord] /\ ~timedOut
    BY DEF CallInv, TypeOK, Next, vars, CallStep, GlibStep, Start, Stop, Destroy, StartClean, StartCreate,
           StartSpawn, StartWait, StartGiveUp, StopQuit, StopWait, StopJoinable, StopMove, StopJoin,
           StopUnref, DestructorTimeout, Construct, GlibCheck, GlibCall, GlibRun, GlibRunning,
           GlibLeave, TimesOut
<1>2. CASE UNCHANGED vars
    BY <1>1, <1>2, OperationMoves DEF vars
<1>3. ASSUME NEW u \in Apps, NEW m \in Managers, Start(u, m) \/ Stop(u, m) \/ Destroy(u, m)
      PROVE  LoopMove(l)
    BY <1>1, <1>3, OperationMoves DEF Start, Stop, Destroy
<1>4. ASSUME NEW u \in Apps, CallStep(u) PROVE LoopMove(l)
    <2>1. ~StartGiveUp(u)
        <3> SUFFICES ASSUME At(u, "give_up") PROVE FALSE
            BY DEF StartGiveUp
        <3>1. call[u].manager \in Managers /\ Doing(call[u].manager) = "give_up"
            BY InsideCall DEF CallInv, At
        <3> QED
            BY <1>1, <3>1 DEF CallInv, NobodyGaveUp
    <2>2. CASE StartCreate(u)
        BY <1>1, <2>2, OperationMoves DEF StartCreate
    <2>3. CASE StartSpawn(u)
        BY <1>1, <2>3, OperationMoves DEF StartSpawn
    <2>4. CASE StartClean(u) \/ StopQuit(u) \/ StopUnref(u)
        BY <1>1, <2>4, OperationMoves DEF StartClean, StopQuit, StopUnref
    <2>5. CASE StartWait(u) \/ StopWait(u) \/ StopJoinable(u) \/ StopMove(u) \/ StopJoin(u)
        BY <1>1, <2>5, OperationMoves DEF StartWait, StopWait, StopJoinable, StopMove, StopJoin
    <2> QED
        BY <1>4, <2>1, <2>2, <2>3, <2>4, <2>5 DEF CallStep
<1>5. ASSUME NEW m \in Managers, DestructorTimeout(m) \/ Construct(m) PROVE LoopMove(l)
    BY <1>1, <1>5, OperationMoves DEF DestructorTimeout, Construct
<1>6. ASSUME NEW g \in Glibs, GlibStep(g) PROVE LoopMove(l)
    BY <1>1, <1>6, OperationMoves DEF GlibStep, GlibCheck, GlibCall, GlibRun, GlibRunning, GlibLeave
<1> QED
    BY <1>2, <1>3, <1>4, <1>5, <1>6 DEF Next

LEMMA LoopLifeStep ==
    ASSUME CallInv, CallInv', CountsExact, CountsExact', [Next]_vars, ~timedOut'
    PROVE  LoopLife!Next
<1>1. \A l \in Loops : LoopMove(l) /\ loops[l].ref \in Nat /\ loops'[l].ref \in Nat
    BY StepMoves DEF CallInv, TypeOK, LoopRecord
<1>2. ~timedOut
    BY DEF Next, vars, CallStep, GlibStep, Start, Stop, Destroy, StartClean, StartCreate, StartSpawn,
           StartWait, StartGiveUp, StopQuit, StopWait, StopJoinable, StopMove, StopJoin, StopUnref,
           DestructorTimeout, Construct, GlibCheck, GlibCall, GlibRun, GlibRunning, GlibLeave, TimesOut
<1>3. \A l \in Loops : LoopUsers(l) = loops[l].ref /\ LoopUsers(l)' = loops'[l].ref
    BY <1>2 DEF CountsExact
<1>4. [l \in Loops |-> LoopUsers(l)]' \in [Loops -> Nat]
    BY <1>1, <1>3
<1>5. /\ allocated' \subseteq Loops
      /\ \A l \in Loops : (l \in allocated <=> loops[l].ref > 0) /\ (l \in allocated' <=> loops'[l].ref > 0)
    BY DEF allocated
<1> QED
    BY <1>1, <1>3, <1>4, <1>5
    DEF LoopMove, LoopLife!Next, LoopLife!Create, LoopLife!Acquire, LoopLife!Release, LoopLife!Free,
        LoopLife!Unused

\* The GMainLoop of the only manager lives as Lifetime says, through failures of
\* start() and any number of restarts, up to the first timeout.
THEOREM LoopImplementsLifetime ==
    ASSUME OneManager
    PROVE  Spec => LoopLifetime
<1>1. Init => LoopLife!Init
    <2> SUFFICES ASSUME Init PROVE LoopLife!Init
        OBVIOUS
    <2>1. allocated = {} /\ \A l \in Loops : loops[l].ref = 0
        BY DEF Init, LoopsInit, allocated, FreedLoop
    <2>2. \A l \in Loops : LoopUsers(l) = 0
        <3>1. CallInv /\ LoopInv
            BY CallInit, LoopInitInv
        <3>2. CountsExact
            BY <3>1, CountsHold
        <3> QED
            BY <2>1, <3>2 DEF CountsExact, Init
    <2> QED
        BY <2>1, <2>2 DEF LoopLife!Init
<1>2. CallInv /\ LoopInv => CountsExact
    BY CountsHold
<1>3. /\ CallInv /\ CallInv' /\ CountsExact /\ CountsExact' /\ [Next]_vars
      => [timedOut' \/ LoopLife!Next]_vars
    BY LoopLifeStep
<1> QED
    BY <1>1, <1>2, <1>3, CallInvariant, LoopInvariant, PTL DEF Spec, LoopLifetime
=============================================================================
