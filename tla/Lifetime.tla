------------------------------ MODULE Lifetime ------------------------------
(***************************************************************************)
(* What a reference counter promises to the users of an object: its memory *)
(* is allocated for the first of them, given back by the very step in which *)
(* the last one leaves, and nobody starts to use it in between.            *)
(*                                                                         *)
(* This is the abstract specification of the counters of struct            *)
(* _gattlib_adapter and struct _gattlib_device (GattlibDevice) and of the  *)
(* GMainLoop of a manager (GMainLoopManager).  It has no counter: 'users'  *)
(* is who uses an object, and each implementation says it in terms of its  *)
(* own threads and lists.  Several objects may change in one step, as the  *)
(* devices of an adapter do when the adapter is freed.                     *)
(***************************************************************************)
EXTENDS Naturals

CONSTANT Objects   \* the memory places of the objects

VARIABLES
    alive,   \* the allocated objects
    users    \* how many users each object has

life == <<alive, users>>

Init ==
    /\ alive = {}
    /\ users = [o \in Objects |-> 0]

Create(o) == o \notin alive /\ o \in alive' /\ users[o] = 0 /\ users'[o] = 1

Acquire(o) == o \in alive /\ o \in alive' /\ users'[o] = users[o] + 1

Release(o) == o \in alive /\ o \in alive' /\ users[o] > 1 /\ users'[o] = users[o] - 1

Free(o) == o \in alive /\ o \notin alive' /\ users[o] = 1 /\ users'[o] = 0

Unused(o) == (o \in alive' <=> o \in alive) /\ users'[o] = users[o]

Next ==
    /\ alive' \subseteq Objects
    /\ users' \in [Objects -> Nat]
    /\ \A o \in Objects : Create(o) \/ Acquire(o) \/ Release(o) \/ Free(o) \/ Unused(o)

Spec == Init /\ [][Next]_life
=============================================================================
