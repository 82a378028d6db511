----------------------------- MODULE MCScanLoop -----------------------------
(* Instances of ScanLoop for TLC: the threads of the application, and those *)
(* of the scans, are interchangeable.                                       *)
EXTENDS ScanLoop, TLC

Symmetry == Permutations(Apps) \cup Permutations(Loops)
=============================================================================
