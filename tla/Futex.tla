------------------------------- MODULE Futex -------------------------------
(***************************************************************************)
(* One futex word and the threads the kernel has parked on it.  Every lock *)
(* of xlibc is built from the three calls of src/xlibc/base/futex.c; the   *)
(* kernel makes each of them one atomic step with respect to the writes of *)
(* the word (FUTEX_WAIT/FUTEX_WAKE on Linux, WaitOnAddress and             *)
(* WakeByAddress* on Windows), which is why each is a single formula here. *)
(*                                                                         *)
(* A component that owns a word instantiates this module with the word and *)
(* its own sleeper set, and conjoins the formulas below with its pc.       *)
(***************************************************************************)
VARIABLES word, sleepers

\* base_futex_wait(addr, val, NULL) parks the caller: the word still has the
\* value the caller saw.
WaitBlocks(t, val) ==
  /\ word = val
  /\ sleepers' = sleepers \cup {t}

\* base_futex_wait returns at once: the word moved on before the kernel
\* looked (EAGAIN on Linux, WaitOnAddress returning on Windows).
WaitReturns(val) ==
  /\ word # val
  /\ sleepers' = sleepers

\* A parked caller comes back with nobody having woken it: a signal (EINTR),
\* a timeout, or the out-of-range timeout futex.c reports as spurious.
WaitInterrupted(t) ==
  /\ t \in sleepers
  /\ sleepers' = sleepers \ {t}

\* base_futex_signal: one parked thread leaves, the kernel chooses which.
Signal ==
  IF sleepers = {}
    THEN sleepers' = sleepers
    ELSE \E t \in sleepers : sleepers' = sleepers \ {t}

\* base_futex_broadcast: every parked thread leaves.
Broadcast == sleepers' = {}
=============================================================================
