------------------------------ MODULE MCDriver ------------------------------
(* Instances of Driver for TLC. *)
EXTENDS Driver, TLC

Symmetry == Permutations(Threads) \cup Permutations(Files)
              \cup Permutations(Ctxs)
=============================================================================
