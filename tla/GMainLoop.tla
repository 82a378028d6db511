------------------------------ MODULE GMainLoop ------------------------------
(***************************************************************************)
(* The GMainLoop of GLib, as gattlib uses it: a reference counter and the  *)
(* flag is_running.  g_main_loop_run holds a reference of its own, and sets *)
(* the flag whatever was asked before: a quit that precedes it is lost.    *)
(*                                                                         *)
(* A call on a loop that is freed is undefined; here it changes nothing,   *)
(* or the loop that has been allocated in the same place since.  A call on *)
(* NULL returns at once.                                                   *)
(***************************************************************************)
EXTENDS Naturals

CONSTANTS
    Loops,   \* memory places of the GMainLoops
    NoLoop   \* NULL

VARIABLE loops

LoopRecord == [ref : Nat, running : BOOLEAN]

FreedLoop == [ref |-> 0, running |-> FALSE]

LoopsInit == loops = [l \in Loops |-> FreedLoop]

allocated == {l \in Loops : loops[l].ref > 0}

IsRunning(l) == l \in allocated /\ loops[l].running

g_main_loop_new(l) == [loops EXCEPT ![l] = [ref |-> 1, running |-> FALSE]]

g_main_loop_unref(l) ==
    IF l \notin allocated THEN loops
    ELSE IF loops[l].ref = 1 THEN [loops EXCEPT ![l] = FreedLoop]
    ELSE [loops EXCEPT ![l].ref = @ - 1]

g_main_loop_quit(l) == IF l \in allocated THEN [loops EXCEPT ![l].running = FALSE] ELSE loops

\* g_main_loop_run: its reference, then the flag.
TakesReference(l) == [loops EXCEPT ![l].ref = @ + 1]

SetsRunning(l) == IF l \in allocated THEN [loops EXCEPT ![l].running = TRUE] ELSE loops
=============================================================================
