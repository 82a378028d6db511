--------------------------- MODULE MCNotification ---------------------------
(* Instances of Notification for TLC. *)
EXTENDS Notification, TLC

\* The pools of identical things.
Symmetry ==
    Permutations(Devices) \cup Permutations(Proxies) \cup Permutations(Threads)
    \cup Permutations(Signals) \cup Permutations(Pools)

\* A bound: the notifications do not see the callback of a scan, so that the
\* states between the end of a scan and the detaching of its signals, which
\* MCGattlibDevice explores, are left out.
ScansEndAtOnce == \A a \in Adapters : discovery[a].handler = discovery[a].attached
=============================================================================
