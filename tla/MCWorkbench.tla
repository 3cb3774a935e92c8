---------------------------- MODULE MCWorkbench ----------------------------
(* Threads, songs and categories are interchangeable. *)
EXTENDS Workbench, TLC
Symmetry == Permutations(Threads) \cup Permutations(Songs)
            \cup Permutations(Categories)
=============================================================================
