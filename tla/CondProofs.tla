----------------------------- MODULE CondProofs -----------------------------
(***************************************************************************)
(* Proofs about CondVar for every set of threads, spin count, modulus of   *)
(* the sequence number and number of calls.  The mutex keeps its promises  *)
(* when cnd_wait and cnd_timedwait enter it through exchange(m, 2) instead *)
(* of mtx_lock, and no wake-up misses a thread it was due to.              *)
(***************************************************************************)
EXTENDS CondVar, MutexProofs, FiniteSetTheorems

USE DEF Goto

\* A thread inside a wait is out of the mutex's code while it is parked and
\* until it tries to get the mutex back; a waiter past the binding has bound
\* the condition variable.
WaitersOutside ==
  \A t \in Threads :
    op[t] \in WaitOps =>
      /\ stage[t] = "asleep" => pc[t] = "idle"
      /\ op[t] = "timedwait" /\ stage[t] = "relock" => pc[t] = "idle"
      /\ stage[t] # "bind" => c_m = "this"

CInv == CTypeOK /\ WaitersOutside

\* What the condition variable does to the mutex by itself: a thread outside
\* goes to the exchange, or makes the exchange that cnd_timedwait stops after.
Reenters(t) ==
  /\ pc[t] = "idle"
  /\ UNCHANGED <<spin, sleepers>>
  /\ \/ m' = m /\ Goto(t, "lock_xchg")
     \/ m' = 2 /\ IF m = 0 THEN Goto(t, "held") ELSE UNCHANGED pc

\* Every step of CondVar is a step of the mutex, a re-entry, or none of it.
LEMMA MutexSteps ==
  ASSUME CInv, [CNext]_vars
  PROVE  [Next]_mvars \/ \E t \in Threads : Reenters(t)
<1> USE DEF mvars
<1>1. ASSUME NEW t \in Threads, WaitCall(t) \/ WakeCall(t) \/ WaitBind(t) \/ BroadcastTest(t) \/ WakeAdd(t) \/ WakeFutex(t) \/ WaitInterrupted(t)
      PROVE  UNCHANGED mvars
  BY <1>1 DEF WaitCall, WakeCall, WaitBind, BroadcastTest, WakeAdd, WakeFutex, WaitInterrupted
<1>2. ASSUME NEW t \in Threads, CallMutex(t) \/ BeginUnlock(t) \/ MutexStep(t) \/ LockInterrupted(t)
      PROVE  Next
  BY <1>2 DEF CallMutex, BeginUnlock, MutexStep, Next
<1>3. ASSUME NEW t \in Threads, WaitPark(t) \/ WaitWoken(t)
      PROVE  UNCHANGED mvars \/ Reenters(t)
  BY <1>3 DEF WaitPark, WaitWoken, Relock, Reenters, CInv, WaitersOutside, At, WaitOps
<1>4. ASSUME NEW t \in Threads, TimedRelock(t)
      PROVE  Reenters(t)
  BY <1>4 DEF TimedRelock, Reenters, CInv, WaitersOutside, WaitOps
<1>5. CASE UNCHANGED vars
  BY <1>5 DEF vars
<1> QED
  BY <1>1, <1>2, <1>3, <1>4, <1>5 DEF CNext, ClientCall, CondStep, Interrupted
----------------------------------------------------------------------------
\* The type invariant of the mutex survives a re-entry.
LEMMA TypeStep ==
  ASSUME CInv, [CNext]_vars
  PROVE  TypeOK'
<1> USE DEF TypeOK, Pcs, LockPcs, OwnerPcs, HandOverPcs
<1>1. CASE [Next]_mvars
  BY <1>1, TypeCorrectStep DEF CInv, CTypeOK
<1>2. ASSUME NEW t \in Threads, Reenters(t)
      PROVE  TypeOK'
  BY <1>2 DEF Reenters, CInv, CTypeOK
<1> QED
  BY <1>1, <1>2, MutexSteps
----------------------------------------------------------------------------
\* How a step of the mutex on behalf of thread t moves it: only t's place
\* changes, and a thread at rest moves only by a call or by its unlock.
LEMMA MutexPlace ==
  ASSUME TypeOK, NEW t \in Threads,
         CallMutex(t) \/ BeginUnlock(t) \/ MutexStep(t) \/ Interrupted(t)
  PROVE  /\ \A u \in Threads \ {t} : pc'[u] = pc[u]
         /\ pc[t] = "idle" /\ op[t] # "none" => pc'[t] = "idle"
<1> USE DEF TypeOK, Pcs, LockPcs, OwnerPcs, HandOverPcs
<1>1. CASE CallMutex(t)
  BY <1>1 DEF CallMutex, LockCall, TryLock
<1>2. CASE BeginUnlock(t)
  BY <1>2 DEF BeginUnlock, UnlockTest
<1>3. CASE MutexStep(t)
  BY <1>3 DEF MutexStep, LockStep, UnlockStep, LockSpin, LockWait, LockWoken, LockExchange,
              UnlockStore, UnlockExchange, UnlockRead, UnlockCas, UnlockWake, NextLook
<1>4. CASE Interrupted(t)
  BY <1>4 DEF Interrupted, WaitInterrupted, LockInterrupted, mvars
<1> QED
  BY <1>1, <1>2, <1>3, <1>4

\* Every action keeps the type invariant and the places of the waiters.
LEMMA CInvStep ==
  ASSUME CInv, [CNext]_vars
  PROVE  CInv'
<1> USE DEF CInv, CTypeOK, WaitersOutside, At, Enter, MoveTo, Return, Ops, WaitOps, WakeOps,
            WaitStages, WakeStages
<1> TypeOK'
  BY TypeStep
<1>1. ASSUME NEW t \in Threads, WaitCall(t)
      PROVE  CInv'
  BY <1>1 DEF WaitCall, mvars
<1>2. ASSUME NEW t \in Threads, WakeCall(t)
      PROVE  CInv'
  BY <1>2 DEF WakeCall, mvars
<1>3. ASSUME NEW t \in Threads, WaitBind(t)
      PROVE  CInv'
  BY <1>3 DEF WaitBind, mvars
<1>4. ASSUME NEW t \in Threads, WaitPark(t)
      PROVE  CInv'
  BY <1>4 DEF WaitPark, Relock, S!WaitBlocks, S!WaitReturns, TypeOK
<1>5. ASSUME NEW t \in Threads, WaitWoken(t)
      PROVE  CInv'
  BY <1>5 DEF WaitWoken, Relock, TypeOK
<1>6. ASSUME NEW t \in Threads, TimedRelock(t)
      PROVE  CInv'
  BY <1>6 DEF TimedRelock, TypeOK
<1>7. ASSUME NEW t \in Threads, BroadcastTest(t)
      PROVE  CInv'
  BY <1>7 DEF BroadcastTest, mvars
<1>8. ASSUME NEW t \in Threads, WakeAdd(t)
      PROVE  CInv'
  <2>1. seq' \in 0..SeqMod - 1
    BY <1>8, CondAssumption DEF WakeAdd
  <2> QED
    BY <1>8, <2>1 DEF WakeAdd, mvars
<1>9. ASSUME NEW t \in Threads, WakeFutex(t)
      PROVE  CInv'
  BY <1>9 DEF WakeFutex, S!Signal, S!Broadcast, mvars
<1>10. ASSUME NEW t \in Threads, CallMutex(t) \/ BeginUnlock(t)
       PROVE  CInv'
  <2>1. UNCHANGED cvars
    BY <1>10 DEF CallMutex, BeginUnlock
  <2> QED
    BY <1>10, <2>1, MutexPlace DEF cvars
<1>11. ASSUME NEW t \in Threads, MutexStep(t)
       PROVE  CInv'
  BY <1>11, MutexPlace DEF MutexStep
<1>12. ASSUME NEW t \in Threads, Interrupted(t)
       PROVE  CInv'
  <2>1. CASE WaitInterrupted(t)
    BY <2>1 DEF WaitInterrupted, S!WaitInterrupted, mvars
  <2>2. CASE LockInterrupted(t) /\ UNCHANGED cvars
    BY <2>2 DEF LockInterrupted, cvars
  <2> QED
    BY <1>12, <2>1, <2>2 DEF Interrupted
<1>13. CASE UNCHANGED vars
  BY <1>13 DEF vars, mvars, cvars
<1> QED
  BY <1>1, <1>2, <1>3, <1>4, <1>5, <1>6, <1>7, <1>8, <1>9, <1>10, <1>11, <1>12, <1>13
     DEF CNext, ClientCall, CondStep

LEMMA CInvInit == CInit => CInv
BY CondAssumption DEF CInit, Init, CInv, CTypeOK, TypeOK, WaitersOutside, Pcs, Ops, WaitOps, WakeOps

\* The type invariant of the condition variable and its mutex: in particular
\* the kernel lists only threads that are inside the wait.
THEOREM CondTypeCorrect == CSpec => []CTypeOK
<1>1. CInv => CTypeOK
  BY DEF CInv
<1> QED
  BY <1>1, CInvInit, CInvStep, PTL DEF CSpec
----------------------------------------------------------------------------
\* The mutex a condition variable is used with keeps at most one owner, also
\* when cnd_timedwait makes its single exchange, and its word stays zero
\* exactly when it has none.
THEOREM CondMutualExclusion == CSpec => []MutualExclusion
<1>1. CInit => MutualExclusion
  BY DEF CInit, Init, MutualExclusion, Owners, OwnerPcs
<1>2. ASSUME CInv, MutualExclusion, [CNext]_vars
      PROVE  MutualExclusion'
  <2> USE <1>2
  <2> TypeOK
    BY DEF CInv, CTypeOK
  <2>1. CASE [Next]_mvars
    BY <2>1, OwnerSteps, ExclusionStep
  <2>2. ASSUME NEW t \in Threads, Reenters(t)
        PROVE  MutualExclusion'
    <3>1. KeepsOwners \/ Takes(t)
      BY <2>2 DEF Reenters, KeepsOwners, Takes, TypeOK, Owners, OwnerPcs, Pcs
    <3> QED
      BY <3>1, ExclusionStep
  <2> QED
    BY <2>1, <2>2, MutexSteps
<1> QED
  BY <1>1, <1>2, CInvInit, CInvStep, PTL DEF CSpec

\* Nor does the way back into the mutex forget a thread parked on it: the
\* waiter of cnd_wait is itself about to mark the word, and the exchange of
\* cnd_timedwait has marked it even when it gives up.
THEOREM CondNoLostWakeup == CSpec => []NoLostWakeup
<1>1. CInit => NoLostWakeup
  BY DEF CInit, Init, NoLostWakeup
<1>2. ASSUME CInv, NoLostWakeup, [CNext]_vars
      PROVE  NoLostWakeup'
  <2> USE <1>2
  <2> TypeOK
    BY DEF CInv, CTypeOK
  <2>1. CASE [Next]_mvars
    BY <2>1, CoveredStep
  <2>2. ASSUME NEW t \in Threads, Reenters(t)
        PROVE  NoLostWakeup'
    <3>1. CASE m' = 2
      BY <3>1 DEF NoLostWakeup
    <3>2. CASE m' = m /\ Goto(t, "lock_xchg")
      BY <2>2, <3>2 DEF Reenters, NoLostWakeup, Responsible, TypeOK, HandOverPcs
    <3> QED
      BY <2>2, <3>1, <3>2 DEF Reenters
  <2> QED
    BY <2>1, <2>2, MutexSteps
<1> QED
  BY <1>1, <1>2, CInvInit, CInvStep, PTL DEF CSpec
----------------------------------------------------------------------------
\* Seen from outside, the way back into the mutex is a request for it, a try
\* that took it, or nothing.
LEMMA ReentryRefines ==
  ASSUME TypeOK, MutualExclusion, NEW t \in Threads, Reenters(t)
  PROVE  [A!ANext]_(A!avars)
<1> USE DEF TypeOK, Owners, Waiting, OwnerPcs, LockPcs, HandOverPcs, Pcs, A!avars
<1>1. CASE m' = m /\ Goto(t, "lock_xchg")
  <2>1. A!ARequest(t)
    BY <1>1 DEF Reenters, A!ARequest
  <2> QED
    BY <2>1 DEF A!ANext
<1>2. CASE m = 0 /\ Goto(t, "held")
  <2>1. A!ATryAcquire(t)
    BY <1>2 DEF Reenters, A!ATryAcquire, MutualExclusion
  <2> QED
    BY <2>1 DEF A!ANext
<1>3. CASE UNCHANGED pc
  BY <1>3
<1> QED
  BY <1>1, <1>2, <1>3 DEF Reenters

\* With condition variables around it the mutex is still the abstract one: no
\* wait of cnd_wait or cnd_timedwait gives a client more than a request, a
\* successful try or a release.
THEOREM CondImplementsMutex == CSpec => ImplementsMutex
<1>1. CInit => A!AInit
  BY DEF CInit, Init, A!AInit, Owners, Waiting, OwnerPcs, LockPcs
<1>2. ASSUME CInv, MutualExclusion, [CNext]_vars
      PROVE  [A!ANext]_(A!avars)
  <2>1. TypeOK
    BY <1>2 DEF CInv, CTypeOK
  <2> QED
    BY <1>2, <2>1, MutexSteps, RefinementStep, ReentryRefines
<1> QED
  BY <1>1, <1>2, CInvInit, CInvStep, CondMutualExclusion, PTL
     DEF CSpec, ImplementsMutex, A!ASafety
----------------------------------------------------------------------------
\* To whom a wake-up call is due.  It never names a thread that is not
\* blocked, and once the sequence number has moved on everyone it names is
\* parked: nobody can still be between the unlock and the futex call with
\* the old number.
DueInv ==
  \A t \in Threads :
    /\ due[t] \subseteq Blocked
    /\ op[t] \notin WakeOps => due[t] = {}
    /\ op[t] \in WakeOps /\ stage[t] = "wake" => due[t] \subseteq cndSleepers

\* The sequence number moves: one less than 2^32 wake-ups are needed to bring
\* an old value back, never one.
LEMMA SeqMoves == ASSUME NEW s \in 0..SeqMod - 1 PROVE (s + 1) % SeqMod # s
<1>1. CASE s + 1 = SeqMod
  BY <1>1, CondAssumption
<1>2. CASE s + 1 < SeqMod
  <2>1. (s + 1) % SeqMod = s + 1
    BY <1>2, CondAssumption
  <2> QED
    BY <2>1
<1> QED
  BY <1>1, <1>2, CondAssumption

\* What one step can do to the call a thread u is in: a parked waiter does
\* not go back before the futex call, a wake-up call begins only by WakeCall
\* and comes to its futex call only by WakeAdd.
LEMMA CallSteps ==
  ASSUME CInv, [CNext]_vars, NEW u \in Threads
  PROVE  /\ op[u] \in WaitOps /\ stage[u] = "asleep" => stage'[u] # "unlock"
         /\ op[u] = "none" /\ op'[u] \in WakeOps => WakeCall(u)
         /\ op'[u] \in WakeOps /\ stage'[u] = "wake" =>
              (op[u] \in WakeOps /\ stage[u] = "wake") \/ WakeAdd(u)
<1> DEFINE Good == /\ op[u] \in WaitOps /\ stage[u] = "asleep" => stage'[u] # "unlock"
                   /\ op[u] = "none" /\ op'[u] \in WakeOps => WakeCall(u)
                   /\ op'[u] \in WakeOps /\ stage'[u] = "wake" =>
                        (op[u] \in WakeOps /\ stage[u] = "wake") \/ WakeAdd(u)
<1> USE DEF CInv, CTypeOK, At, Enter, MoveTo, Return, Ops, WaitOps, WakeOps, WaitStages, WakeStages
<1>1. ASSUME NEW t \in Threads, WaitCall(t)
      PROVE  Good
  BY <1>1 DEF WaitCall
<1>2. ASSUME NEW t \in Threads, WakeCall(t)
      PROVE  Good
  <2>1. CASE t = u
    BY <1>2, <2>1 DEF WakeCall
  <2>2. CASE t # u
    BY <1>2, <2>2 DEF WakeCall
  <2> QED
    BY <2>1, <2>2
<1>3. ASSUME NEW t \in Threads, WaitBind(t)
      PROVE  Good
  BY <1>3 DEF WaitBind
<1>4. ASSUME NEW t \in Threads, WaitPark(t) \/ WaitWoken(t)
      PROVE  Good
  BY <1>4 DEF WaitPark, WaitWoken, Relock
<1>5. ASSUME NEW t \in Threads, TimedRelock(t)
      PROVE  Good
  BY <1>5 DEF TimedRelock
<1>6. ASSUME NEW t \in Threads, BroadcastTest(t)
      PROVE  Good
  BY <1>6 DEF BroadcastTest
<1>7. ASSUME NEW t \in Threads, WakeAdd(t)
      PROVE  Good
  <2>1. CASE t = u
    BY <1>7, <2>1 DEF WakeAdd
  <2>2. CASE t # u
    BY <1>7, <2>2 DEF WakeAdd
  <2> QED
    BY <2>1, <2>2
<1>8. ASSUME NEW t \in Threads, WakeFutex(t)
      PROVE  Good
  BY <1>8 DEF WakeFutex
<1>9. ASSUME NEW t \in Threads, CallMutex(t) \/ BeginUnlock(t) \/ Interrupted(t)
      PROVE  Good
  BY <1>9 DEF CallMutex, BeginUnlock, Interrupted, WaitInterrupted, cvars
<1>10. ASSUME NEW t \in Threads, MutexStep(t)
       PROVE  Good
  BY <1>10 DEF MutexStep
<1>11. CASE UNCHANGED vars
  BY <1>11 DEF vars, cvars
<1> QED
  BY <1>1, <1>2, <1>3, <1>4, <1>5, <1>6, <1>7, <1>8, <1>9, <1>10, <1>11
     DEF CNext, ClientCall, CondStep

\* A blocked thread that is parked stays parked for as long as it is blocked.
LEMMA ParkedStays ==
  ASSUME CInv, [CNext]_vars, NEW u \in Blocked \cap Blocked', u \in cndSleepers
  PROVE  u \in cndSleepers'
<1>1. u \in Threads /\ op[u] \in WaitOps /\ stage[u] = "asleep"
  BY DEF Blocked, CInv, CTypeOK
<1>2. stage'[u] # "unlock"
  BY <1>1, CallSteps
<1> QED
  BY <1>2 DEF Blocked

\* Once the number has moved, a thread still blocked is parked.
LEMMA ParkedAfterAdd ==
  ASSUME CInv, NEW t \in Threads, WakeAdd(t), NEW u \in Blocked \cap Blocked'
  PROVE  u \in cndSleepers'
<1>1. seq' # seq
  BY SeqMoves DEF WakeAdd, CInv, CTypeOK
<1>2. u # t
  BY DEF Blocked, WakeAdd, At, WaitOps, WakeOps
<1>3. stage'[u] = stage[u] /\ saved'[u] = saved[u]
  BY <1>2 DEF WakeAdd, MoveTo, CInv, CTypeOK
<1> QED
  BY <1>1, <1>3 DEF Blocked

LEMMA DueStep ==
  ASSUME CInv, DueInv, [CNext]_vars
  PROVE  DueInv'
<1>1. CASE UNCHANGED vars
  BY <1>1 DEF vars, mvars, cvars, DueInv, Blocked, Owners
<1>2. CASE CNext
  <2>1. Track
    BY <1>2 DEF CNext
  <2> SUFFICES ASSUME NEW t \in Threads
               PROVE  /\ due'[t] \subseteq Blocked'
                      /\ op'[t] \notin WakeOps => due'[t] = {}
                      /\ op'[t] \in WakeOps /\ stage'[t] = "wake" => due'[t] \subseteq cndSleepers'
    BY DEF DueInv
  <2>2. CASE op'[t] \notin WakeOps
    BY <2>1, <2>2 DEF Track
  <2>3. CASE op'[t] \in WakeOps /\ op[t] = "none"
    <3>1. WakeCall(t)
      BY <2>3, CallSteps
    <3>2. Blocked' = Blocked
      BY <3>1 DEF WakeCall, Enter, Blocked, Owners, mvars, CInv, CTypeOK, WaitOps, WakeOps
    <3>3. stage'[t] # "wake"
      BY <3>1 DEF WakeCall, Enter, CInv, CTypeOK
    <3> QED
      BY <2>1, <2>3, <3>2, <3>3 DEF Track
  <2>4. CASE op'[t] \in WakeOps /\ op[t] # "none"
    <3>1. due'[t] = due[t] \cap Blocked' /\ due[t] \subseteq Blocked
      BY <2>1, <2>4 DEF Track, DueInv
    <3>2. ASSUME stage'[t] = "wake"
          PROVE  due'[t] \subseteq cndSleepers'
      <4>1. CASE WakeAdd(t)
        BY <3>1, <4>1, ParkedAfterAdd
      <4>2. CASE op[t] \in WakeOps /\ stage[t] = "wake"
        <5>1. due[t] \subseteq cndSleepers
          BY <4>2 DEF DueInv
        <5> QED
          BY <3>1, <5>1, ParkedStays
      <4> QED
        BY <2>4, <3>2, <4>1, <4>2, CallSteps
    <3> QED
      BY <2>4, <3>1, <3>2
  <2> QED
    BY <2>2, <2>3, <2>4
<1> QED
  BY <1>1, <1>2

\* At any moment, whom a call is due to is blocked, and parked once the
\* sequence number has been advanced.
THEOREM DueHolds == CSpec => [](CInv /\ DueInv)
<1>1. CInit => DueInv
  BY DEF CInit, DueInv, WakeOps
<1> QED
  BY <1>1, CInvInit, CInvStep, DueStep, PTL DEF CSpec
----------------------------------------------------------------------------
\* cnd_broadcast returns only by its early return or after the futex call.
LEMMA WakeReturns ==
  ASSUME CInv, [CNext]_vars, NEW t \in Threads, op[t] \in WakeOps, op'[t] = "none"
  PROVE  \/ WakeFutex(t) /\ stage[t] = "wake"
         \/ BroadcastTest(t) /\ c_m = "none"
<1> USE DEF CInv, CTypeOK, At, Enter, MoveTo, Return, Ops, WaitOps, WakeOps, WaitStages, WakeStages
<1>1. ASSUME NEW u \in Threads, WaitCall(u) \/ WakeCall(u)
      PROVE  FALSE
  BY <1>1 DEF WaitCall, WakeCall
<1>2. ASSUME NEW u \in Threads, WaitBind(u) \/ WaitPark(u) \/ WaitWoken(u) \/ TimedRelock(u) \/ WakeAdd(u)
      PROVE  FALSE
  BY <1>2 DEF WaitBind, WaitPark, WaitWoken, TimedRelock, WakeAdd, Relock
<1>3. ASSUME NEW u \in Threads, CallMutex(u) \/ BeginUnlock(u) \/ MutexStep(u) \/ Interrupted(u)
      PROVE  FALSE
  BY <1>3 DEF CallMutex, BeginUnlock, MutexStep, Interrupted, WaitInterrupted, cvars
<1>4. ASSUME NEW u \in Threads, BroadcastTest(u)
      PROVE  BroadcastTest(t) /\ c_m = "none"
  <2>1. u = t
    BY <1>4 DEF BroadcastTest
  <2> QED
    BY <1>4, <2>1 DEF BroadcastTest
<1>5. ASSUME NEW u \in Threads, WakeFutex(u)
      PROVE  WakeFutex(t) /\ stage[t] = "wake"
  <2>1. u = t
    BY <1>5 DEF WakeFutex
  <2> QED
    BY <1>5, <2>1 DEF WakeFutex
<1>6. CASE UNCHANGED vars
  BY <1>6 DEF vars, cvars
<1> QED
  BY <1>1, <1>2, <1>3, <1>4, <1>5, <1>6 DEF CNext, ClientCall, CondStep

\* cnd_broadcast leaves nobody blocked who was blocked when it was called:
\* after the futex call nobody is parked, and before its early return nobody
\* can have been blocked, because a waiter binds the mutex first.
THEOREM BroadcastHolds == CSpec => BroadcastWakesAll
<1> DEFINE P == \A t \in Threads :
       op[t] = "broadcast" /\ op'[t] = "none" => due[t] \cap Blocked' = {}
<1>1. ASSUME CInv, DueInv, [CNext]_vars
      PROVE  P
  <2> USE <1>1
  <2> SUFFICES ASSUME NEW t \in Threads, op[t] = "broadcast", op'[t] = "none"
               PROVE  due[t] \cap Blocked' = {}
    OBVIOUS
  <2>1. CASE WakeFutex(t) /\ stage[t] = "wake"
    <3>1. cndSleepers' = {} /\ due[t] \subseteq cndSleepers
      BY <2>1 DEF WakeFutex, S!Broadcast, DueInv, WakeOps
    <3> QED
      BY <3>1, ParkedStays DEF DueInv
  <2>2. CASE BroadcastTest(t) /\ c_m = "none"
    <3>1. Blocked = {}
      BY <2>2 DEF Blocked, CInv, WaitersOutside
    <3> QED
      BY <3>1 DEF DueInv
  <2> QED
    BY <2>1, <2>2, WakeReturns DEF WakeOps
<1> QED
  BY <1>1, DueHolds, PTL DEF CSpec, BroadcastWakesAll

\* cnd_signal that leaves somebody blocked who was blocked when it was called
\* has woken another thread.
THEOREM SignalHolds == CSpec => SignalWakesOne
<1> DEFINE P == \A t \in Threads :
       op[t] = "signal" /\ op'[t] = "none" /\ due[t] \cap Blocked' # {}
         => cndSleepers \ cndSleepers' # {}
<1>1. ASSUME CInv, DueInv, [CNext]_vars
      PROVE  P
  <2> USE <1>1
  <2> SUFFICES ASSUME NEW t \in Threads, op[t] = "signal", op'[t] = "none", due[t] # {}
               PROVE  cndSleepers \ cndSleepers' # {}
    OBVIOUS
  <2>1. WakeFutex(t) /\ stage[t] = "wake"
    BY WakeReturns DEF WakeOps, WaitOps, BroadcastTest, At, CInv, CTypeOK
  <2>2. due[t] \subseteq cndSleepers
    BY <2>1 DEF DueInv, WakeOps
  <2> QED
    BY <2>1, <2>2 DEF WakeFutex, S!Signal
<1> QED
  BY <1>1, DueHolds, PTL DEF CSpec, SignalWakesOne
----------------------------------------------------------------------------
(* The sequence number does not come back while a wait is under way *)

\* The wake-up calls that have not added yet.
Pending == {t \in Threads : op[t] \in WakeOps /\ stage[t] \in {"test", "add"}}

\* Calls that were no wake-up calls, as far as the state shows: a wait began
\* with two, its own and the one that locked the mutex.
AnyWait == \E t \in Threads : op[t] \in WaitOps
Busy == \E t \in Threads : pc[t] # "idle"
Spent == IF AnyWait THEN 2 ELSE IF Busy THEN 1 ELSE 0

Counted ==
  /\ calls \in Nat /\ calls <= MaxCalls
  /\ IsFiniteSet(Pending)
  /\ seq + Cardinality(Pending) + Spent <= calls

\* No wait has seen a number that is still to come.
SeenNumbers == \A t \in Threads : op[t] \in WaitOps => saved[t] <= seq

LEMMA NextNumber == ASSUME NEW s \in 0..SeqMod - 1
                    PROVE  /\ (s + 1) % SeqMod \in 0..s + 1
                           /\ s + 1 < SeqMod => (s + 1) % SeqMod = s + 1
<1>1. CASE s + 1 = SeqMod
  BY <1>1, CondAssumption
<1>2. CASE s + 1 < SeqMod
  <2>1. (s + 1) % SeqMod = s + 1
    BY <1>2, CondAssumption
  <2> QED
    BY <1>2, <2>1
<1> QED
  BY <1>1, <1>2, CondAssumption

LEMMA SpentType == Spent \in 0..2 /\ (AnyWait => Spent = 2)
BY DEF Spent

\* What a step does to the calls that are counted.
LEMMA CountSteps ==
  ASSUME CInv, [CNext]_vars
  PROVE  \/ calls' = calls + 1 /\ seq' = seq /\ Pending' = Pending /\ Spent' <= Spent + 1
         \/ /\ calls' = calls + 1 /\ seq' = seq /\ Spent' = Spent
            /\ \E t \in Threads \ Pending : Pending' = Pending \cup {t}
         \/ /\ calls' = calls /\ seq' = (seq + 1) % SeqMod /\ Spent' = Spent
            /\ \E t \in Pending : Pending' = Pending \ {t}
         \/ calls' = calls /\ seq' = seq /\ Pending' \subseteq Pending /\ Spent' <= Spent
<1> DEFINE First  == calls' = calls + 1 /\ seq' = seq /\ Pending' = Pending /\ Spent' <= Spent + 1
           Second == /\ calls' = calls + 1 /\ seq' = seq /\ Spent' = Spent
                     /\ \E t \in Threads \ Pending : Pending' = Pending \cup {t}
           Third  == /\ calls' = calls /\ seq' = (seq + 1) % SeqMod /\ Spent' = Spent
                     /\ \E t \in Pending : Pending' = Pending \ {t}
           Fourth == calls' = calls /\ seq' = seq /\ Pending' \subseteq Pending /\ Spent' <= Spent
<1> USE DEF CInv, CTypeOK, TypeOK, At, Enter, MoveTo, Return, WaitOps, WakeOps
<1>1. ASSUME NEW t \in Threads, WaitCall(t), calls' = calls + 1
      PROVE  First
  <2>1. Pending' = Pending /\ seq' = seq
    BY <1>1 DEF WaitCall, Pending
  <2>2. Busy
    BY <1>1 DEF WaitCall, Busy
  <2> QED
    BY <1>1, <2>1, <2>2 DEF Spent
<1>2. ASSUME NEW t \in Threads, CallMutex(t), calls' = calls + 1
      PROVE  First
  <2>1. Pending' = Pending /\ seq' = seq /\ AnyWait' = AnyWait
    BY <1>2 DEF CallMutex, cvars, Pending, AnyWait
  <2> QED
    BY <1>2, <2>1 DEF Spent
<1>3. ASSUME NEW t \in Threads, WakeCall(t), calls' = calls + 1
      PROVE  Second
  <2>1. Pending' = Pending \cup {t} /\ t \notin Pending /\ seq' = seq
    BY <1>3 DEF WakeCall, Pending
  <2>2. AnyWait' = AnyWait /\ Busy' = Busy
    BY <1>3 DEF WakeCall, mvars, AnyWait, Busy
  <2> QED
    BY <1>3, <2>1, <2>2 DEF Spent
<1>4. ASSUME NEW t \in Threads, WakeAdd(t), calls' = calls
      PROVE  Third
  <2>1. Pending' = Pending \ {t} /\ t \in Pending /\ seq' = (seq + 1) % SeqMod
    BY <1>4 DEF WakeAdd, Pending
  <2>2. AnyWait' = AnyWait /\ Busy' = Busy
    BY <1>4 DEF WakeAdd, mvars, AnyWait, Busy
  <2> QED
    BY <1>4, <2>1, <2>2 DEF Spent
<1>5. ASSUME NEW t \in Threads, calls' = calls,
             WaitBind(t) \/ WaitPark(t) \/ WaitWoken(t) \/ TimedRelock(t)
      PROVE  Fourth
  <2>1. Pending' \subseteq Pending /\ seq' = seq
    BY <1>5 DEF WaitBind, WaitPark, WaitWoken, TimedRelock, Relock, Pending
  <2>2. AnyWait
    BY <1>5 DEF WaitBind, WaitPark, WaitWoken, TimedRelock, AnyWait
  <2> QED
    BY <1>5, <2>1, <2>2 DEF Spent
<1>6. ASSUME NEW t \in Threads, calls' = calls, BroadcastTest(t) \/ WakeFutex(t)
      PROVE  Fourth
  <2>1. Pending' \subseteq Pending /\ seq' = seq
    BY <1>6 DEF BroadcastTest, WakeFutex, Pending
  <2>2. AnyWait' = AnyWait /\ Busy' = Busy
    BY <1>6 DEF BroadcastTest, WakeFutex, mvars, AnyWait, Busy
  <2> QED
    BY <1>6, <2>1, <2>2 DEF Spent
<1>7. ASSUME NEW t \in Threads, calls' = calls, BeginUnlock(t) \/ MutexStep(t) \/ Interrupted(t)
      PROVE  Fourth
  <2>1. Pending' \subseteq Pending /\ seq' = seq /\ (AnyWait' => AnyWait)
    BY <1>7 DEF BeginUnlock, MutexStep, Interrupted, WaitInterrupted, cvars, Pending, AnyWait
  <2>2. Busy' => Busy
    <3>1. CASE WaitInterrupted(t)
      BY <3>1 DEF WaitInterrupted, mvars, Busy
    <3>2. CASE ~WaitInterrupted(t)
      <4>1. pc[t] # "idle"
        BY <1>7, <3>2 DEF BeginUnlock, MutexStep, Interrupted, UnlockTest, LockStep, LockSpin, LockWait,
             LockWoken, LockExchange, UnlockStep, UnlockStore, UnlockExchange, UnlockRead, UnlockCas,
             UnlockWake, LockInterrupted, F!WaitInterrupted, LockPcs
      <4> QED
        BY <4>1 DEF Busy
    <3> QED
      BY <3>1, <3>2
  <2> QED
    BY <1>7, <2>1, <2>2 DEF Spent
<1>8. CASE UNCHANGED vars
  BY <1>8 DEF vars, mvars, cvars, Pending, Spent, AnyWait, Busy
<1> QED
  BY <1>1, <1>2, <1>3, <1>4, <1>5, <1>6, <1>7, <1>8 DEF CNext, ClientCall, CondStep

LEMMA CallsBounded ==
  ASSUME calls \in Nat, calls <= MaxCalls, [CNext]_vars
  PROVE  calls' \in Nat /\ calls' <= MaxCalls
BY CondAssumption DEF CNext, vars

LEMMA CountedStep ==
  ASSUME CInv, Counted, [CNext]_vars
  PROVE  Counted'
<1> USE DEF Counted
<1>1. /\ calls' \in Nat /\ calls' <= MaxCalls
      /\ Cardinality(Pending) \in Nat /\ seq \in 0..SeqMod - 1
      /\ Spent \in 0..2 /\ Spent' \in 0..2
  BY CallsBounded, FS_CardinalityType, SpentType DEF CInv, CTypeOK, Spent
<1>2. IsFiniteSet(Pending') /\ seq' + Cardinality(Pending') + Spent' <= calls'
  <2>1. CASE calls' = calls + 1 /\ seq' = seq /\ Pending' = Pending /\ Spent' <= Spent + 1
    BY <1>1, <2>1
  <2>2. ASSUME calls' = calls + 1, seq' = seq, Spent' = Spent,
               NEW t \in Threads \ Pending, Pending' = Pending \cup {t}
        PROVE  IsFiniteSet(Pending') /\ seq' + Cardinality(Pending') + Spent' <= calls'
    <3>1. IsFiniteSet(Pending') /\ Cardinality(Pending') = Cardinality(Pending) + 1
      BY <2>2, FS_AddElement
    <3> QED
      BY <1>1, <2>2, <3>1
  <2>3. ASSUME calls' = calls, seq' = (seq + 1) % SeqMod, Spent' = Spent,
               NEW t \in Pending, Pending' = Pending \ {t}
        PROVE  IsFiniteSet(Pending') /\ seq' + Cardinality(Pending') + Spent' <= calls'
    <3>1. IsFiniteSet(Pending') /\ Cardinality(Pending') = Cardinality(Pending) - 1
      BY <2>3, FS_RemoveElement
    <3>2. seq' \in 0..seq + 1
      BY <1>1, <2>3, NextNumber
    <3> QED
      BY <1>1, <2>3, <3>1, <3>2
  <2>4. ASSUME calls' = calls, seq' = seq, Pending' \subseteq Pending, Spent' <= Spent
        PROVE  IsFiniteSet(Pending') /\ seq' + Cardinality(Pending') + Spent' <= calls'
    <3>1. /\ IsFiniteSet(Pending') /\ Cardinality(Pending') <= Cardinality(Pending)
          /\ Cardinality(Pending') \in Nat
      BY <2>4, FS_Subset, FS_CardinalityType
    <3> QED
      BY <1>1, <2>4, <3>1
  <2> QED
    BY <2>1, <2>2, <2>3, <2>4, CountSteps
<1> QED
  BY <1>1, <1>2

\* While a wait is under way the number only grows.
LEMMA NumberGrows ==
  ASSUME MaxCalls <= SeqMod + 1, CInv, Counted, AnyWait, [CNext]_vars
  PROVE  seq' >= seq
<1>1. /\ Cardinality(Pending) \in Nat /\ seq \in 0..SeqMod - 1 /\ Spent = 2
      /\ calls \in Nat /\ calls <= MaxCalls /\ seq + Cardinality(Pending) + Spent <= calls
  BY FS_CardinalityType, SpentType DEF CInv, CTypeOK, Counted
<1>2. CASE seq' = seq
  BY <1>1, <1>2
<1>3. ASSUME seq' = (seq + 1) % SeqMod, NEW t \in Pending
      PROVE  seq' >= seq
  <2>1. Cardinality(Pending) >= 1
    BY <1>1, <1>3, FS_EmptySet DEF Counted
  <2>2. seq + 1 < SeqMod
    BY <1>1, <2>1, CondAssumption
  <2> QED
    BY <1>1, <1>3, <2>2, NextNumber
<1> QED
  BY <1>2, <1>3, CountSteps

\* What a step can do to the wait a thread is in.
LEMMA WaiterSteps ==
  ASSUME CInv, [CNext]_vars, NEW t \in Threads, op'[t] \in WaitOps
  PROVE  \/ op[t] \in WaitOps /\ saved'[t] = saved[t]
         \/ op[t] = "none" /\ saved'[t] = seq /\ seq' = seq /\ stage'[t] = "bind"
<1> USE DEF CInv, CTypeOK, At, Enter, MoveTo, Return, Ops, WaitOps, WakeOps
<1>1. ASSUME NEW u \in Threads, WaitCall(u)
      PROVE  \/ op[t] \in WaitOps /\ saved'[t] = saved[t]
             \/ op[t] = "none" /\ saved'[t] = seq /\ seq' = seq /\ stage'[t] = "bind"
  <2>1. CASE u = t
    BY <1>1, <2>1 DEF WaitCall
  <2>2. CASE u # t
    BY <1>1, <2>2 DEF WaitCall
  <2> QED
    BY <2>1, <2>2
<1>2. ASSUME NEW u \in Threads, WakeCall(u) \/ WaitBind(u) \/ BroadcastTest(u) \/ WakeAdd(u) \/ WakeFutex(u)
      PROVE  op[t] \in WaitOps /\ saved'[t] = saved[t]
  BY <1>2 DEF WakeCall, WaitBind, BroadcastTest, WakeAdd, WakeFutex
<1>3. ASSUME NEW u \in Threads, WaitPark(u) \/ WaitWoken(u) \/ TimedRelock(u)
      PROVE  op[t] \in WaitOps /\ saved'[t] = saved[t]
  BY <1>3 DEF WaitPark, WaitWoken, Relock, TimedRelock
<1>4. ASSUME NEW u \in Threads, CallMutex(u) \/ BeginUnlock(u) \/ MutexStep(u) \/ Interrupted(u)
      PROVE  op[t] \in WaitOps /\ saved'[t] = saved[t]
  BY <1>4 DEF CallMutex, BeginUnlock, MutexStep, Interrupted, WaitInterrupted, cvars
<1>5. CASE UNCHANGED vars
  BY <1>5 DEF vars, cvars
<1> QED
  BY <1>1, <1>2, <1>3, <1>4, <1>5 DEF CNext, ClientCall, CondStep

LEMMA SeenNumbersStep ==
  ASSUME MaxCalls <= SeqMod + 1, CInv, Counted, SeenNumbers, [CNext]_vars
  PROVE  SeenNumbers'
<1> SUFFICES ASSUME NEW t \in Threads, op'[t] \in WaitOps PROVE saved'[t] <= seq'
  BY DEF SeenNumbers
<1>1. /\ seq \in 0..SeqMod - 1 /\ saved[t] \in 0..SeqMod - 1
      /\ seq' \in 0..SeqMod - 1
  BY CInvStep DEF CInv, CTypeOK
<1>2. CASE op[t] \in WaitOps /\ saved'[t] = saved[t]
  BY <1>1, <1>2, NumberGrows, CondAssumption DEF SeenNumbers, AnyWait
<1>3. CASE saved'[t] = seq /\ seq' = seq
  BY <1>1, <1>3, CondAssumption
<1> QED
  BY <1>2, <1>3, WaiterSteps

\* A thread parks only on the number it has seen.
LEMMA ParksOnSeen ==
  ASSUME CInv, [CNext]_vars, NEW t \in Threads, op[t] \in WaitOps, stage[t] = "unlock",
         stage'[t] = "asleep"
  PROVE  saved[t] = seq
<1> USE DEF CInv, CTypeOK, At, Enter, MoveTo, Return, Ops, WaitOps, WakeOps
<1>1. ASSUME NEW u \in Threads, WaitPark(u)
      PROVE  saved[t] = seq
  <2>1. CASE u = t
    BY <1>1, <2>1 DEF WaitPark, S!WaitBlocks, Relock
  <2>2. CASE u # t
    BY <1>1, <2>2 DEF WaitPark, Relock
  <2> QED
    BY <2>1, <2>2
<1>2. ASSUME NEW u \in Threads, \/ WaitCall(u) \/ WakeCall(u) \/ WaitBind(u) \/ BroadcastTest(u)
                                \/ WakeAdd(u) \/ WakeFutex(u) \/ WaitWoken(u) \/ TimedRelock(u)
      PROVE  FALSE
  BY <1>2 DEF WaitCall, WakeCall, WaitBind, BroadcastTest, WakeAdd, WakeFutex, WaitWoken, Relock, TimedRelock
<1>3. ASSUME NEW u \in Threads, CallMutex(u) \/ BeginUnlock(u) \/ MutexStep(u) \/ Interrupted(u)
      PROVE  FALSE
  BY <1>3 DEF CallMutex, BeginUnlock, MutexStep, Interrupted, WaitInterrupted, cvars
<1>4. CASE UNCHANGED vars
  BY <1>4 DEF vars, cvars
<1> QED
  BY <1>1, <1>2, <1>3, <1>4 DEF CNext, ClientCall, CondStep

\* A released waiter does not block again in the same wait: while it waits,
\* fewer than SeqMod wake-up calls are left to bring the number back that it
\* read, if all threads together make no more than SeqMod + 1 calls.
THEOREM ReleasedHolds ==
  ASSUME MaxCalls <= SeqMod + 1
  PROVE  CSpec => ReleasedStaysReleased
<1> DEFINE P == \A t \in Threads :
       op[t] \in WaitOps /\ stage[t] = "unlock" /\ t \notin Owners /\ t \notin Blocked
         => t \notin Blocked'
           Inv == CInv /\ Counted /\ SeenNumbers
<1>1. CInit => Inv
  <2> SUFFICES ASSUME CInit PROVE Counted /\ SeenNumbers
    BY CInvInit
  <2>1. Pending = {} /\ ~AnyWait /\ ~Busy
    BY DEF CInit, Init, Pending, AnyWait, Busy, WakeOps, WaitOps
  <2> QED
    BY <2>1, FS_EmptySet, CondAssumption DEF CInit, Counted, SeenNumbers, Spent, WaitOps
<1>2. Inv /\ [CNext]_vars => Inv'
  BY CInvStep, CountedStep, SeenNumbersStep
<1>3. ASSUME Inv, [CNext]_vars
      PROVE  P
  <2> SUFFICES ASSUME NEW t \in Threads, op[t] \in WaitOps, stage[t] = "unlock",
                      t \notin Owners, t \notin Blocked, t \in Blocked'
               PROVE  FALSE
    OBVIOUS
  <2>1. saved[t] # seq /\ saved[t] <= seq /\ seq \in 0..SeqMod - 1 /\ saved[t] \in 0..SeqMod - 1
    BY <1>3 DEF Blocked, SeenNumbers, CInv, CTypeOK
  <2>2. stage'[t] # "asleep"
    BY <1>3, <2>1, ParksOnSeen
  <2>3. op'[t] \in WaitOps /\ stage'[t] = "unlock" /\ saved'[t] = seq'
    BY <2>2 DEF Blocked
  <2>4. saved'[t] = saved[t]
    BY <1>3, <2>3, WaiterSteps
  <2>5. seq' >= seq
    BY <1>3, NumberGrows DEF AnyWait
  <2> QED
    BY <2>1, <2>3, <2>4, <2>5
<1> QED
  BY <1>1, <1>2, <1>3, PTL DEF CSpec, ReleasedStaysReleased
============================================================================
