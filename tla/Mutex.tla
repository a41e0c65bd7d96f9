------------------------------- MODULE Mutex -------------------------------
(***************************************************************************)
(* mtx_lock, mtx_unlock and mtx_trylock of src/xlibc/thread_impl.c over    *)
(* one futex word `m': 0 free, 1 held, 2 held and perhaps waited for.      *)
(* Every atomic access of the code to the word is one step of a thread.    *)
(***************************************************************************)
EXTENDS Integers, FiniteSets

CONSTANTS
  Threads,       \* the threads that share the mutex
  LockSpins,     \* tries of mtx_lock before it sleeps (100 in the code)
  UnlockSpins    \* looks of mtx_unlock for a new owner (200 in the code)

ASSUME SpinsAssumption ==
  /\ LockSpins \in Nat \ {0}
  /\ UnlockSpins \in Nat \ {0}

VARIABLES
  m,           \* the mtx_t
  pc,          \* where each thread stands in mtx_lock / mtx_unlock
  spin,        \* the loop counter `i' of the call the thread is in
  sleepers     \* the threads the kernel has parked on &m

mvars == <<m, pc, spin, sleepers>>

F == INSTANCE Futex WITH word <- m, sleepers <- sleepers

LockPcs   == {"lock_spin", "lock_wait", "lock_asleep", "lock_xchg"}
OwnerPcs  == {"held", "unlock_store", "unlock_xchg"}
HandOverPcs == {"unlock_read", "unlock_cas", "unlock_wake"}
Pcs == {"idle"} \cup LockPcs \cup OwnerPcs \cup HandOverPcs

\* The threads that hold the mutex: from the winning exchange or CAS up to
\* the store or exchange of mtx_unlock that frees the word.
Owners == {t \in Threads : pc[t] \in OwnerPcs}

Goto(t, l) == pc' = [pc EXCEPT ![t] = l]

Init ==
  /\ m = 0
  /\ pc = [t \in Threads |-> "idle"]
  /\ spin = [t \in Threads |-> 0]
  /\ sleepers = {}
----------------------------------------------------------------------------
(* mtx_lock *)

LockCall(t) ==
  /\ pc[t] = "idle"
  /\ Goto(t, "lock_spin")
  /\ UNCHANGED <<m, spin, sleepers>>

\* One turn of the spin loop: CAS 0 -> 1.  The last failing turn leaves the
\* loop, and `c', the value the CAS saw, decides whether the word still has
\* to be marked contended before sleeping.
LockSpin(t) ==
  /\ pc[t] = "lock_spin"
  /\ UNCHANGED sleepers
  /\ \/ /\ m = 0
        /\ m' = 1
        /\ spin' = [spin EXCEPT ![t] = 0]
        /\ Goto(t, "held")
     \/ /\ m # 0
        /\ spin[t] + 1 < LockSpins
        /\ spin' = [spin EXCEPT ![t] = @ + 1]
        /\ UNCHANGED <<m, pc>>
     \/ /\ m # 0
        /\ spin[t] + 1 >= LockSpins
        /\ spin' = [spin EXCEPT ![t] = 0]
        /\ Goto(t, IF m = 1 THEN "lock_xchg" ELSE "lock_wait")
        /\ UNCHANGED m

\* base_futex_wait(m, 2, NULL)
LockWait(t) ==
  /\ pc[t] = "lock_wait"
  /\ \/ F!WaitBlocks(t, 2) /\ Goto(t, "lock_asleep")
     \/ F!WaitReturns(2) /\ Goto(t, "lock_xchg")
  /\ UNCHANGED <<m, spin>>

LockWoken(t) ==
  /\ pc[t] = "lock_asleep"
  /\ t \notin sleepers
  /\ Goto(t, "lock_xchg")
  /\ UNCHANGED <<m, spin, sleepers>>

LockInterrupted(t) ==
  /\ F!WaitInterrupted(t)
  /\ UNCHANGED <<m, pc, spin>>

\* Mutant: the waiter that gets the mutex leaves it marked uncontended.
LockExchangeUnmarked(t) ==
  /\ pc[t] = "lock_xchg"
  /\ m' = IF m = 0 THEN 1 ELSE 2
  /\ Goto(t, IF m = 0 THEN "held" ELSE "lock_wait")
  /\ UNCHANGED <<spin, sleepers>>

\* Mutant: an exchange that shows 1 counts as taking the mutex.
LockExchangeGreedy(t) ==
  /\ pc[t] = "lock_xchg"
  /\ m' = 2
  /\ Goto(t, IF m < 2 THEN "held" ELSE "lock_wait")
  /\ UNCHANGED <<spin, sleepers>>

\* c = exchange(m, 2), both before the wait loop and after each wait; a zero
\* makes the caller the owner, with the word marked contended.
LockExchange(t) ==
  /\ pc[t] = "lock_xchg"
  /\ m' = 2
  /\ Goto(t, IF m = 0 THEN "held" ELSE "lock_wait")
  /\ UNCHANGED <<spin, sleepers>>
----------------------------------------------------------------------------
(* mtx_trylock; the EBUSY return changes nothing *)

TryLock(t) ==
  /\ pc[t] = "idle"
  /\ m = 0
  /\ m' = 1
  /\ Goto(t, "held")
  /\ UNCHANGED <<spin, sleepers>>
----------------------------------------------------------------------------
(* mtx_unlock *)

\* if (*m == 2): the plain read before the word is freed.
UnlockTest(t) ==
  /\ pc[t] = "held"
  /\ Goto(t, IF m = 2 THEN "unlock_store" ELSE "unlock_xchg")
  /\ UNCHANGED <<m, spin, sleepers>>

\* *m = 0
UnlockStore(t) ==
  /\ pc[t] = "unlock_store"
  /\ m' = 0
  /\ Goto(t, "unlock_read")
  /\ UNCHANGED <<spin, sleepers>>

\* Mutant: the fast path forgets to look at what it exchanged.
UnlockExchangeBlind(t) ==
  /\ pc[t] = "unlock_xchg"
  /\ m' = 0
  /\ Goto(t, "idle")
  /\ UNCHANGED <<spin, sleepers>>

\* exchange(m, 0) == 1: nobody waits, return at once.  A waiter may have
\* marked the word since UnlockTest read it; then the exchange shows 2.
UnlockExchange(t) ==
  /\ pc[t] = "unlock_xchg"
  /\ m' = 0
  /\ Goto(t, IF m = 1 THEN "idle" ELSE "unlock_read")
  /\ UNCHANGED <<spin, sleepers>>

\* A turn of the 200-fold loop that met no new owner.
NextLook(t) ==
  IF spin[t] + 1 < UnlockSpins
    THEN /\ spin' = [spin EXCEPT ![t] = @ + 1]
         /\ Goto(t, "unlock_read")
    ELSE /\ spin' = [spin EXCEPT ![t] = 0]
         /\ Goto(t, "unlock_wake")

\* if (*m)
UnlockRead(t) ==
  /\ pc[t] = "unlock_read"
  /\ IF m = 0
       THEN NextLook(t)
       ELSE Goto(t, "unlock_cas") /\ UNCHANGED spin
  /\ UNCHANGED <<m, sleepers>>

\* Mutant: the hand-over loop returns whatever the CAS saw.
UnlockCasLenient(t) ==
  /\ pc[t] = "unlock_cas"
  /\ spin' = [spin EXCEPT ![t] = 0]
  /\ Goto(t, "idle")
  /\ m' = IF m = 1 THEN 2 ELSE m
  /\ UNCHANGED sleepers

\* Mutant: the mark is stored, not exchanged.
UnlockCasStored(t) ==
  /\ pc[t] = "unlock_cas"
  /\ m' = 2
  /\ spin' = [spin EXCEPT ![t] = 0]
  /\ Goto(t, "idle")
  /\ UNCHANGED sleepers

\* CAS 1 -> 2 passes the duty to wake on to the new owner; `expected' is
\* left 0 only when that owner is already gone again.
UnlockCas(t) ==
  /\ pc[t] = "unlock_cas"
  /\ IF m = 0
       THEN NextLook(t) /\ UNCHANGED m
       ELSE /\ m' = 2
            /\ spin' = [spin EXCEPT ![t] = 0]
            /\ Goto(t, "idle")
  /\ UNCHANGED sleepers

\* base_futex_signal(m)
UnlockWake(t) ==
  /\ pc[t] = "unlock_wake"
  /\ F!Signal
  /\ Goto(t, "idle")
  /\ UNCHANGED <<m, spin>>
----------------------------------------------------------------------------
LockStep(t) ==
  \/ LockSpin(t) \/ LockWait(t) \/ LockWoken(t) \/ LockExchange(t)

UnlockStep(t) ==
  \/ UnlockStore(t) \/ UnlockExchange(t)
  \/ UnlockRead(t) \/ UnlockCas(t) \/ UnlockWake(t)

Next ==
  \E t \in Threads :
    \/ LockCall(t) \/ TryLock(t) \/ UnlockTest(t)
    \/ LockStep(t) \/ UnlockStep(t) \/ LockInterrupted(t)

Spec == Init /\ [][Next]_mvars

\* The scheduler runs every runnable thread, and a critical section ends.
\* No thread has to call mtx_lock, and no spurious wake-up ever has to come.
Fairness ==
  \A t \in Threads : WF_mvars(LockStep(t)) /\ WF_mvars(UnlockStep(t) \/ UnlockTest(t))

FairSpec == Spec /\ Fairness
----------------------------------------------------------------------------
\* Type invariant.  A thread is parked only inside mtx_lock's wait.
TypeOK ==
  /\ m \in 0..2
  /\ pc \in [Threads -> Pcs]
  /\ spin \in [Threads -> Nat]
  /\ sleepers \subseteq {t \in Threads : pc[t] = "lock_asleep"}

\* The word tells the truth: it is zero exactly when no thread owns the
\* mutex, however the spins, exchanges and late marks of mtx_lock and
\* mtx_unlock interleave, and there is never a second owner.
MutualExclusion ==
  /\ (m = 0) <=> (Owners = {})
  /\ \A t, u \in Owners : t = u

\* The threads that will yet mark the word contended or wake a sleeper: one
\* on its way to exchange(m, 2), one already woken, or one still in the
\* hand-over loop of mtx_unlock.
Responsible ==
  {t \in Threads : \/ pc[t] \in HandOverPcs \cup {"lock_xchg"}
                   \/ pc[t] = "lock_asleep" /\ t \notin sleepers}

\* No wake-up is lost: whenever a thread is parked in mtx_lock's wait, the
\* word still says "contended", so its owner will enter the hand-over loop,
\* or some thread is still responsible for the sleepers.  The optimistic
\* return of mtx_unlock ("hope someone takes the lock") is safe only
\* because of this.
NoLostWakeup ==
  sleepers # {} => m = 2 \/ Responsible # {}

\* mtx_lock and mtx_unlock implement the abstract mutex, hand-over included.
Waiting == {t \in Threads : pc[t] \in LockPcs}
A == INSTANCE AbstractMutex WITH owners <- Owners, waiting <- Waiting
ImplementsMutex == A!ASafety
HandOver == A!AHandOver
============================================================================
