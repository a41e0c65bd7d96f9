------------------------------ MODULE CondVar ------------------------------
(***************************************************************************)
(* cnd_wait, cnd_timedwait, cnd_signal and cnd_broadcast of                *)
(* src/xlibc/thread_impl.c, composed with the mutex of module Mutex: the   *)
(* unlock inside a wait and the locking after it are Mutex's own steps.    *)
(*                                                                         *)
(* Clients are arbitrary: any thread may lock, an owner may wait, and a    *)
(* thread may signal or broadcast with or without the mutex.               *)
(***************************************************************************)
EXTENDS Mutex

CONSTANTS
  SeqMod,      \* c->seq counts modulo SeqMod (2^32 in the code)
  MaxCalls     \* bound on the calls the clients make, all threads together

ASSUME CondAssumption ==
  /\ SeqMod \in Nat \ {0, 1}    \* see ReleasedStaysReleased
  /\ MaxCalls \in Nat

VARIABLES
  seq,         \* c->seq
  c_m,         \* c->m: "none", this mutex, or another one it was used with
  op,          \* the cnd_ call each thread is in
  stage,       \* where in that call
  saved,       \* the local `seq' of a wait
  cndSleepers, \* the threads parked on &c->seq
  due,         \* history: who was blocked when a wake-up call began and still is
  calls        \* number of calls made so far, for the bound

cvars == <<seq, c_m, op, stage, saved, cndSleepers>>
vars  == <<mvars, cvars, due, calls>>

S == INSTANCE Futex WITH word <- seq, sleepers <- cndSleepers

WaitOps  == {"wait", "timedwait"}
WakeOps  == {"signal", "broadcast"}
Ops      == {"none"} \cup WaitOps \cup WakeOps
WaitStages == {"bind", "unlock", "asleep", "relock"}
WakeStages == {"test", "add", "wake"}

\* Inside a wait, past the point where the mutex is given up, and not yet
\* released by a wake-up call: parked, or about to find seq unmoved.
Blocked ==
  {t \in Threads :
     /\ op[t] \in WaitOps
     /\ \/ stage[t] = "asleep" /\ t \in cndSleepers
        \/ stage[t] = "unlock" /\ t \notin Owners /\ saved[t] = seq}

At(t, o, s) == op[t] \in o /\ stage[t] = s

Enter(t, o, s) ==
  /\ op' = [op EXCEPT ![t] = o]
  /\ stage' = [stage EXCEPT ![t] = s]

MoveTo(t, s) == stage' = [stage EXCEPT ![t] = s] /\ UNCHANGED op

Return(t) == Enter(t, "none", "out")

CInit ==
  /\ Init
  /\ seq = 0
  /\ c_m \in {"none", "other"}
  /\ op = [t \in Threads |-> "none"]
  /\ stage = [t \in Threads |-> "out"]
  /\ saved = [t \in Threads |-> 0]
  /\ cndSleepers = {}
  /\ due = [t \in Threads |-> {}]
  /\ calls = 0
----------------------------------------------------------------------------
(* cnd_wait and cnd_timedwait *)

\* int seq = c->seq, by an owner of m.
WaitCall(t) ==
  /\ op[t] = "none"
  /\ pc[t] = "held"
  /\ \E o \in WaitOps : Enter(t, o, "bind")
  /\ saved' = [saved EXCEPT ![t] = seq]
  /\ UNCHANGED <<mvars, seq, c_m, cndSleepers>>

\* Mutant: the wait binds c->m only after it has given the mutex up.
WaitBindLate(t) ==
  /\ At(t, WaitOps, "bind")
  /\ IF c_m = "other" THEN Return(t) ELSE MoveTo(t, "unlock")
  /\ UNCHANGED <<mvars, c_m, seq, saved, cndSleepers>>

\* Bind c->m to the mutex if it is free, or fail with EINVAL, the mutex
\* still held.  The field is never cleared again.
WaitBind(t) ==
  /\ At(t, WaitOps, "bind")
  /\ c_m' = IF c_m = "none" THEN "this" ELSE c_m
  /\ IF c_m = "other" THEN Return(t) ELSE MoveTo(t, "unlock")
  /\ UNCHANGED <<mvars, seq, saved, cndSleepers>>

\* After the wait: cnd_wait goes on with exchange(m, 2) until it owns the
\* mutex, which is the wait loop of mtx_lock; cnd_timedwait tries once.
Relock(t) ==
  /\ MoveTo(t, "relock")
  /\ IF op[t] = "wait" THEN Goto(t, "lock_xchg") ELSE UNCHANGED pc

\* base_futex_wait(&c->seq, seq, ...), once mtx_unlock has returned.
WaitPark(t) ==
  /\ At(t, WaitOps, "unlock")
  /\ pc[t] = "idle"
  /\ \/ S!WaitBlocks(t, saved[t]) /\ MoveTo(t, "asleep") /\ UNCHANGED pc
     \/ S!WaitReturns(saved[t]) /\ Relock(t)
  /\ UNCHANGED <<m, spin, sleepers, seq, c_m, saved>>

WaitWoken(t) ==
  /\ At(t, WaitOps, "asleep")
  /\ t \notin cndSleepers
  /\ Relock(t)
  /\ UNCHANGED <<m, spin, sleepers, seq, c_m, saved, cndSleepers>>

\* The timeout of cnd_timedwait, or a signal interrupting either wait.
WaitInterrupted(t) ==
  /\ S!WaitInterrupted(t)
  /\ UNCHANGED <<mvars, seq, c_m, op, stage, saved>>

\* Mutant: a timed wait returns as the owner whatever the exchange showed.
TimedRelockAssumed(t) ==
  /\ op[t] = "timedwait" /\ stage[t] = "relock"
  /\ m' = 2
  /\ Goto(t, "held")
  /\ Return(t)
  /\ UNCHANGED <<spin, sleepers, seq, c_m, saved, cndSleepers>>

\* Mutant: the one try is exchange(m, 1).
TimedRelockUnmarked(t) ==
  /\ op[t] = "timedwait" /\ stage[t] = "relock"
  /\ m' = 1
  /\ IF m = 0 THEN Goto(t, "held") ELSE UNCHANGED pc
  /\ Return(t)
  /\ UNCHANGED <<spin, sleepers, seq, c_m, saved, cndSleepers>>

\* if (exchange(m, 2)) return thrd_timedout: one try, whatever ended the
\* wait.  A busy mutex is marked contended and left; the caller returns
\* without owning it.
TimedRelock(t) ==
  /\ op[t] = "timedwait" /\ stage[t] = "relock"
  /\ m' = 2
  /\ IF m = 0 THEN Goto(t, "held") ELSE UNCHANGED pc
  /\ Return(t)
  /\ UNCHANGED <<spin, sleepers, seq, c_m, saved, cndSleepers>>
----------------------------------------------------------------------------
(* cnd_signal and cnd_broadcast *)

\* The call begins, with or without the mutex; cnd_broadcast first looks at
\* c->m.
WakeCall(t) ==
  /\ op[t] = "none"
  /\ pc[t] \in {"idle", "held"}
  /\ \/ Enter(t, "signal", "add")
     \/ Enter(t, "broadcast", "test")
  /\ UNCHANGED <<mvars, seq, c_m, saved, cndSleepers>>

BroadcastTest(t) ==
  /\ At(t, WakeOps, "test")
  /\ IF c_m = "none" THEN Return(t) ELSE MoveTo(t, "add")
  /\ UNCHANGED <<mvars, seq, c_m, saved, cndSleepers>>

\* Mutant: the sequence number is not advanced.
WakeNoAdd(t) ==
  /\ At(t, WakeOps, "add")
  /\ MoveTo(t, "wake")
  /\ UNCHANGED <<mvars, c_m, saved, cndSleepers, seq>>

\* Mutant: the sequence number is a flag.
WakeToggle(t) ==
  /\ At(t, WakeOps, "add")
  /\ seq' = 1 - seq
  /\ MoveTo(t, "wake")
  /\ UNCHANGED <<mvars, c_m, saved, cndSleepers>>

\* fetch_add(&c->seq, 1)
WakeAdd(t) ==
  /\ At(t, WakeOps, "add")
  /\ seq' = (seq + 1) % SeqMod
  /\ MoveTo(t, "wake")
  /\ UNCHANGED <<mvars, c_m, saved, cndSleepers>>

WakeFutex(t) ==
  /\ At(t, WakeOps, "wake")
  /\ IF op[t] = "signal" THEN S!Signal ELSE S!Broadcast
  /\ Return(t)
  /\ UNCHANGED <<mvars, seq, c_m, saved>>
----------------------------------------------------------------------------
(* The mutex underneath, and the clients' own calls of it *)

CallMutex(t) ==
  /\ op[t] = "none"
  /\ LockCall(t) \/ TryLock(t)
  /\ UNCHANGED cvars

\* The end of a critical section, or the mtx_unlock(m) inside a wait.
BeginUnlock(t) ==
  /\ op[t] = "none" \/ At(t, WaitOps, "unlock")
  /\ UnlockTest(t)
  /\ UNCHANGED cvars

\* cnd_wait returns with the exchange that makes its caller the owner.
MutexStep(t) ==
  /\ \/ LockStep(t) /\ IF op[t] = "wait" /\ pc'[t] = "held" THEN Return(t)
                                                            ELSE UNCHANGED <<op, stage>>
     \/ UnlockStep(t) /\ UNCHANGED <<op, stage>>
  /\ UNCHANGED <<seq, c_m, saved, cndSleepers>>

\* A signal ends a wait on either word.
Interrupted(t) ==
  \/ WaitInterrupted(t)
  \/ LockInterrupted(t) /\ UNCHANGED cvars
----------------------------------------------------------------------------
ClientCall(t) == WaitCall(t) \/ WakeCall(t) \/ CallMutex(t)

CondStep(t) ==
  \/ WaitBind(t) \/ WaitPark(t) \/ WaitWoken(t) \/ TimedRelock(t)
  \/ BroadcastTest(t) \/ WakeAdd(t) \/ WakeFutex(t)

\* History: a wake-up call is due to everyone blocked when it began.
Track ==
  due' = [t \in Threads |->
            IF op'[t] \notin WakeOps THEN {}
            ELSE IF op[t] = "none" THEN Blocked ELSE due[t] \cap Blocked']

CNext ==
  \E t \in Threads :
    \/ ClientCall(t) /\ calls < MaxCalls /\ calls' = calls + 1 /\ Track
    \/ CondStep(t) /\ UNCHANGED calls /\ Track
    \/ BeginUnlock(t) /\ UNCHANGED calls /\ Track
    \/ MutexStep(t) /\ UNCHANGED calls /\ Track
    \/ Interrupted(t) /\ UNCHANGED calls /\ Track

CSpec == CInit /\ [][CNext]_vars

\* The scheduler runs every runnable thread and critical sections end; calls,
\* timeouts and interruptions need not come.
CFairness ==
  \A t \in Threads :
    /\ WF_vars(CondStep(t) /\ UNCHANGED calls /\ Track)
    /\ WF_vars(BeginUnlock(t) /\ UNCHANGED calls /\ Track)
    /\ WF_vars(MutexStep(t) /\ UNCHANGED calls /\ Track)

CFairSpec == CSpec /\ CFairness
----------------------------------------------------------------------------
\* Type invariant, with the stage a call can be in.
CTypeOK ==
  /\ TypeOK
  /\ seq \in 0..SeqMod - 1
  /\ c_m \in {"none", "this", "other"}
  /\ op \in [Threads -> Ops]
  /\ stage \in [Threads -> {"out"} \cup WaitStages \cup WakeStages]
  /\ \A t \in Threads :
       \/ op[t] = "none" /\ stage[t] = "out"
       \/ op[t] \in WaitOps /\ stage[t] \in WaitStages
       \/ op[t] = "signal" /\ stage[t] \in {"add", "wake"}
       \/ op[t] = "broadcast" /\ stage[t] \in WakeStages
  /\ saved \in [Threads -> 0..SeqMod - 1]
  /\ cndSleepers \subseteq {t \in Threads : stage[t] = "asleep"}

\* cnd_signal never misses the threads blocked when it was called: when it
\* returns, the ones it left blocked are parked and it has just woken
\* another.  The window between a waiter's unlock and its base_futex_wait
\* is closed by the sequence number alone.
SignalWakesOne ==
  [][\A t \in Threads :
       op[t] = "signal" /\ op'[t] = "none" /\ due[t] \cap Blocked' # {}
         => cndSleepers \ cndSleepers' # {}]_vars

\* cnd_broadcast releases every thread blocked when it was called, also on
\* its early return: "no mutex" does mean "no waiters".
BroadcastWakesAll ==
  [][\A t \in Threads :
       op[t] = "broadcast" /\ op'[t] = "none" => due[t] \cap Blocked' = {}]_vars

\* A released waiter cannot block again in the same wait: the sequence
\* number it read does not come back.  True as long as fewer than SeqMod
\* wake-ups fit between the read of seq and the futex call.
ReleasedStaysReleased ==
  [][\A t \in Threads :
       op[t] \in WaitOps /\ stage[t] = "unlock" /\ t \notin Owners /\ t \notin Blocked
         => t \notin Blocked']_vars

\* A released waiter returns from its call.
ReleasedReturns ==
  \A t \in Threads :
    op[t] \in WaitOps /\ stage[t] # "bind" /\ t \notin Owners \cup Blocked
      ~> op[t] = "none"
============================================================================
