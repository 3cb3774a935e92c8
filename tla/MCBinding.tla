------------------------------ MODULE MCBinding ------------------------------
(* QqBinding for TLC: accounts, requests and codes are interchangeable.     *)
EXTENDS QqBinding, TLC

Symmetry == Permutations(Requests) \cup Permutations(Accounts)
            \cup Permutations(Qrs)
=============================================================================
