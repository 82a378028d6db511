---------------------------- MODULE MCCppScanner ----------------------------
(* Instances of CppScanner for TLC. *)
EXTENDS CppScanner, TLC

\* The threads of each kind are interchangeable.
Symmetry == Permutations(Scanners) \cup Permutations(Aborters) \cup Permutations(Threads)
            \cup Permutations(Contexts)
=============================================================================
