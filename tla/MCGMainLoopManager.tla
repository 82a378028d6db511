------------------------- MODULE MCGMainLoopManager -------------------------
(* Instances of GMainLoopManager for TLC. *)
EXTENDS GMainLoopManager, TLC

\* Places of loops, threads of loops and application threads are interchangeable.
Symmetry == Permutations(Loops) \cup Permutations(Glibs) \cup Permutations(Apps)
=============================================================================
