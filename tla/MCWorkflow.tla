----------------------------- MODULE MCWorkflow -----------------------------
(* ClassifyWorkflow for TLC: feedback requests are interchangeable.         *)
EXTENDS ClassifyWorkflow, TLC

Symmetry == Permutations(Feedbacks)
=============================================================================
