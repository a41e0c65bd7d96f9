--------------------------- MODULE AbstractMutex ---------------------------
(***************************************************************************)
(* What mtx_lock, mtx_trylock and mtx_unlock promise their callers: at     *)
(* most one owner, only the owner gives the lock up, and a free lock that  *)
(* somebody waits for is taken.  Nothing is promised about WHO takes it:   *)
(* the implementation lets a newcomer overtake sleeping waiters.           *)
(***************************************************************************)
CONSTANT Threads

VARIABLES
  owners,      \* the threads inside the critical section
  waiting      \* the threads that called mtx_lock and have not returned

avars == <<owners, waiting>>

AInit ==
  /\ owners = {}
  /\ waiting = {}

ARequest(t) ==
  /\ t \notin owners \cup waiting
  /\ waiting' = waiting \cup {t}
  /\ UNCHANGED owners

AAcquire(t) ==
  /\ t \in waiting
  /\ owners = {}
  /\ owners' = {t}
  /\ waiting' = waiting \ {t}

ATryAcquire(t) ==
  /\ t \notin owners \cup waiting
  /\ owners = {}
  /\ owners' = {t}
  /\ UNCHANGED waiting

ARelease(t) ==
  /\ owners = {t}
  /\ owners' = {}
  /\ UNCHANGED waiting

ANext ==
  \E t \in Threads : ARequest(t) \/ AAcquire(t) \/ ATryAcquire(t) \/ ARelease(t)

ASafety == AInit /\ [][ANext]_avars

\* Hand-over: a lock that stays free while a thread waits for it is taken.
AHandOver == WF_avars(\E t \in Threads : AAcquire(t))

ASpec == ASafety /\ AHandOver
=============================================================================
