------------------------------ MODULE MCMutex ------------------------------
(* Three threads: an owner, a sleeper and a newcomer who overtakes it. *)
EXTENDS Mutex, TLC
============================================================================
