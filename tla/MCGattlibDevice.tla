-------------------------- MODULE MCGattlibDevice --------------------------
(* Instances of GattlibDevice for TLC. *)
EXTENDS GattlibDevice, TLC

\* The pools are interchangeable.
Symmetry ==
    Permutations(Devices) \cup Permutations(Proxies) \cup Permutations(Threads)
    \cup Permutations(Apps) \cup Permutations(Adapters)
=============================================================================
