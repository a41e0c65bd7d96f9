----------------------------- MODULE MCCondVar -----------------------------
(* Waiters and wakers on one condition variable, all roles taken by any thread. *)
EXTENDS CondVar, TLC

Symmetry == Permutations(Threads)
============================================================================
