----------------------------- MODULE MCEmuTls ------------------------------
(* Two variables: the second one makes a thread's array grow. *)
EXTENDS EmuTls, TLC

Symmetry == Permutations(Threads \ {Main}) \cup Permutations(Controls)
============================================================================
