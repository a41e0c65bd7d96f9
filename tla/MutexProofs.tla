---------------------------- MODULE MutexProofs ----------------------------
(***************************************************************************)
(* Proofs about Mutex for every set of threads and every spin count.       *)
(* TypeOK is inductive; MutualExclusion and NoLostWakeup are inductive     *)
(* relative to it; the refinement of AbstractMutex follows step by step.   *)
(***************************************************************************)
EXTENDS Mutex, TLAPS

USE DEF Goto

\* Every action keeps the type invariant.
LEMMA TypeCorrectStep ==
  ASSUME TypeOK, [Next]_mvars
  PROVE  TypeOK'
<1> USE DEF TypeOK, Pcs, LockPcs, OwnerPcs, HandOverPcs
<1>1. ASSUME NEW t \in Threads, LockCall(t)
      PROVE  TypeOK'
  BY <1>1 DEF LockCall
<1>2. ASSUME NEW t \in Threads, TryLock(t)
      PROVE  TypeOK'
  BY <1>2 DEF TryLock
<1>3. ASSUME NEW t \in Threads, UnlockTest(t)
      PROVE  TypeOK'
  BY <1>3 DEF UnlockTest
<1>4. ASSUME NEW t \in Threads, LockSpin(t)
      PROVE  TypeOK'
  BY <1>4, SpinsAssumption DEF LockSpin
<1>5. ASSUME NEW t \in Threads, LockWait(t)
      PROVE  TypeOK'
  BY <1>5 DEF LockWait, F!WaitBlocks, F!WaitReturns
<1>6. ASSUME NEW t \in Threads, LockWoken(t)
      PROVE  TypeOK'
  BY <1>6 DEF LockWoken
<1>7. ASSUME NEW t \in Threads, LockExchange(t)
      PROVE  TypeOK'
  BY <1>7 DEF LockExchange
<1>8. ASSUME NEW t \in Threads, LockInterrupted(t)
      PROVE  TypeOK'
  BY <1>8 DEF LockInterrupted, F!WaitInterrupted
<1>9. ASSUME NEW t \in Threads, UnlockStore(t)
      PROVE  TypeOK'
  BY <1>9 DEF UnlockStore
<1>10. ASSUME NEW t \in Threads, UnlockExchange(t)
       PROVE  TypeOK'
  BY <1>10 DEF UnlockExchange
<1>11. ASSUME NEW t \in Threads, UnlockRead(t)
       PROVE  TypeOK'
  BY <1>11, SpinsAssumption DEF UnlockRead, NextLook
<1>12. ASSUME NEW t \in Threads, UnlockCas(t)
       PROVE  TypeOK'
  BY <1>12, SpinsAssumption DEF UnlockCas, NextLook
<1>13. ASSUME NEW t \in Threads, UnlockWake(t)
       PROVE  TypeOK'
  BY <1>13 DEF UnlockWake, F!Signal
<1>14. CASE UNCHANGED mvars
  BY <1>14 DEF mvars
<1> QED
  BY <1>1, <1>2, <1>3, <1>4, <1>5, <1>6, <1>7, <1>8, <1>9, <1>10, <1>11,
     <1>12, <1>13, <1>14 DEF Next, LockStep, UnlockStep

\* The type invariant of the mutex: in particular a parked thread is one
\* inside mtx_lock's base_futex_wait, whatever woke or parked the others.
THEOREM TypeCorrect == Spec => []TypeOK
<1>1. Init => TypeOK
  BY DEF Init, TypeOK, Pcs
<1>2. TypeOK /\ [Next]_mvars => TypeOK'
  BY TypeCorrectStep
<1> QED
  BY <1>1, <1>2, PTL DEF Spec
----------------------------------------------------------------------------
\* How a step changes who owns the mutex: nobody, one thread that found the
\* word zero, or the owner that zeroes it.
Takes(t)    == m = 0 /\ m' # 0 /\ Owners' = Owners \cup {t}
GivesUp(t)  == t \in Owners /\ m' = 0 /\ Owners' = Owners \ {t}
KeepsOwners == Owners' = Owners /\ (m' = 0 <=> m = 0)

\* Every step of every thread is one of the three.
LEMMA OwnerSteps ==
  ASSUME TypeOK, [Next]_mvars
  PROVE  KeepsOwners \/ \E t \in Threads : Takes(t) \/ GivesUp(t)
<1> USE DEF TypeOK, Owners, OwnerPcs, Pcs, LockPcs, HandOverPcs, Takes, GivesUp, KeepsOwners
<1>1. ASSUME NEW t \in Threads, LockCall(t) \/ UnlockTest(t) \/ LockWait(t) \/ LockWoken(t)
      PROVE  KeepsOwners
  BY <1>1 DEF LockCall, UnlockTest, LockWait, LockWoken
<1>2. ASSUME NEW t \in Threads, TryLock(t)
      PROVE  Takes(t)
  BY <1>2 DEF TryLock
<1>3. ASSUME NEW t \in Threads, LockSpin(t)
      PROVE  KeepsOwners \/ Takes(t)
  BY <1>3 DEF LockSpin
<1>4. ASSUME NEW t \in Threads, LockExchange(t)
      PROVE  KeepsOwners \/ Takes(t)
  BY <1>4 DEF LockExchange
<1>5. ASSUME NEW t \in Threads, UnlockStore(t) \/ UnlockExchange(t)
      PROVE  GivesUp(t)
  BY <1>5 DEF UnlockStore, UnlockExchange
<1>6. ASSUME NEW t \in Threads, UnlockRead(t) \/ UnlockWake(t)
      PROVE  KeepsOwners
  BY <1>6 DEF UnlockRead, UnlockWake, NextLook
<1>7. ASSUME NEW t \in Threads, UnlockCas(t)
      PROVE  KeepsOwners
  BY <1>7 DEF UnlockCas, NextLook
<1>8. ASSUME NEW t \in Threads, LockInterrupted(t)
      PROVE  KeepsOwners
  BY <1>8 DEF LockInterrupted
<1>9. CASE UNCHANGED mvars
  BY <1>9 DEF mvars
<1> QED
  BY <1>1, <1>2, <1>3, <1>4, <1>5, <1>6, <1>7, <1>8, <1>9 DEF Next, LockStep, UnlockStep

\* Any step that changes ownership in one of the three ways keeps the mutex
\* exclusive.
LEMMA ExclusionStep ==
  ASSUME TypeOK, MutualExclusion,
         KeepsOwners \/ \E t \in Threads : Takes(t) \/ GivesUp(t)
  PROVE  MutualExclusion'
<1>1. CASE KeepsOwners
  BY <1>1 DEF MutualExclusion, KeepsOwners
<1>2. ASSUME NEW t \in Threads, Takes(t)
      PROVE  MutualExclusion'
  BY <1>2 DEF MutualExclusion, Takes
<1>3. ASSUME NEW t \in Threads, GivesUp(t)
      PROVE  MutualExclusion'
  BY <1>3 DEF MutualExclusion, GivesUp
<1> QED
  BY <1>1, <1>2, <1>3

\* At most one thread is between the winning CAS or exchange of mtx_lock
\* and the freeing write of mtx_unlock, and the word is zero exactly when
\* no thread is.
THEOREM MutualExclusionHolds == Spec => []MutualExclusion
<1>1. Init => MutualExclusion
  BY DEF Init, MutualExclusion, Owners, OwnerPcs
<1>2. TypeOK /\ MutualExclusion /\ [Next]_mvars => MutualExclusion'
  BY OwnerSteps, ExclusionStep
<1> QED
  BY <1>1, <1>2, TypeCorrect, PTL DEF Spec
----------------------------------------------------------------------------
\* The hand-over argument.  A step keeps a sleeper covered if it leaves the
\* word contended, or makes its own thread (or one it wakes) responsible,
\* or leaves every responsible thread responsible.
LEMMA CoveredStep ==
  ASSUME TypeOK, NoLostWakeup, [Next]_mvars
  PROVE  NoLostWakeup'
<1> USE DEF TypeOK, NoLostWakeup, Responsible, Pcs, LockPcs, OwnerPcs, HandOverPcs
<1>1. ASSUME NEW t \in Threads, LockCall(t) \/ TryLock(t) \/ UnlockTest(t)
      PROVE  NoLostWakeup'
  BY <1>1 DEF LockCall, TryLock, UnlockTest
<1>2. ASSUME NEW t \in Threads, LockSpin(t)
      PROVE  NoLostWakeup'
  BY <1>2 DEF LockSpin
<1>3. ASSUME NEW t \in Threads, LockWait(t)
      PROVE  NoLostWakeup'
  BY <1>3 DEF LockWait, F!WaitBlocks, F!WaitReturns
<1>4. ASSUME NEW t \in Threads, LockWoken(t)
      PROVE  NoLostWakeup'
  BY <1>4 DEF LockWoken
<1>5. ASSUME NEW t \in Threads, LockExchange(t)
      PROVE  NoLostWakeup'
  BY <1>5 DEF LockExchange
<1>6. ASSUME NEW t \in Threads, UnlockStore(t)
      PROVE  NoLostWakeup'
  BY <1>6 DEF UnlockStore
<1>7. ASSUME NEW t \in Threads, UnlockExchange(t)
      PROVE  NoLostWakeup'
  BY <1>7 DEF UnlockExchange
<1>8. ASSUME NEW t \in Threads, UnlockRead(t)
      PROVE  NoLostWakeup'
  BY <1>8 DEF UnlockRead, NextLook
<1>9. ASSUME NEW t \in Threads, UnlockCas(t)
      PROVE  NoLostWakeup'
  BY <1>9 DEF UnlockCas, NextLook
<1>10. ASSUME NEW t \in Threads, UnlockWake(t)
       PROVE  NoLostWakeup'
  <2>1. CASE sleepers = {}
    BY <1>10, <2>1 DEF UnlockWake, F!Signal
  <2>2. ASSUME NEW s \in sleepers, sleepers' = sleepers \ {s}
        PROVE  NoLostWakeup'
    <3>1. s # t /\ pc'[s] = "lock_asleep" /\ s \notin sleepers'
      BY <1>10, <2>2 DEF UnlockWake
    <3> QED
      BY <3>1
  <2> QED
    BY <1>10, <2>1, <2>2 DEF UnlockWake, F!Signal
<1>11. ASSUME NEW t \in Threads, LockInterrupted(t)
       PROVE  NoLostWakeup'
  <2>1. pc'[t] = "lock_asleep" /\ t \notin sleepers'
    BY <1>11 DEF LockInterrupted, F!WaitInterrupted
  <2> QED
    BY <2>1
<1>12. CASE UNCHANGED mvars
  BY <1>12 DEF mvars
<1> QED
  BY <1>1, <1>2, <1>3, <1>4, <1>5, <1>6, <1>7, <1>8, <1>9, <1>10, <1>11, <1>12
     DEF Next, LockStep, UnlockStep

\* A parked thread is never forgotten: the word is contended or some thread
\* is still going to mark it or to call base_futex_signal.
THEOREM NoLostWakeupHolds == Spec => []NoLostWakeup
<1>1. Init => NoLostWakeup
  BY DEF Init, NoLostWakeup
<1> QED
  BY <1>1, CoveredStep, TypeCorrect, PTL DEF Spec
----------------------------------------------------------------------------
\* One step of the code is one step of the abstract mutex or leaves owners
\* and waiters alone.
LEMMA RefinementStep ==
  ASSUME TypeOK, MutualExclusion, [Next]_mvars
  PROVE  [A!ANext]_(A!avars)
<1> USE DEF TypeOK, Owners, Waiting, OwnerPcs, LockPcs, HandOverPcs, Pcs, A!avars
<1>1. ASSUME NEW t \in Threads, LockCall(t)
      PROVE  A!ARequest(t)
  BY <1>1 DEF LockCall, A!ARequest
<1>2. ASSUME NEW t \in Threads, TryLock(t)
      PROVE  A!ATryAcquire(t)
  BY <1>2 DEF TryLock, A!ATryAcquire, MutualExclusion
<1>3. ASSUME NEW t \in Threads, UnlockTest(t) \/ LockWait(t) \/ LockWoken(t)
      PROVE  UNCHANGED A!avars
  BY <1>3 DEF UnlockTest, LockWait, LockWoken
<1>4. ASSUME NEW t \in Threads, LockSpin(t)
      PROVE  A!AAcquire(t) \/ UNCHANGED A!avars
  <2>1. CASE m = 0
    BY <1>4, <2>1 DEF LockSpin, A!AAcquire, MutualExclusion
  <2>2. CASE m # 0
    BY <1>4, <2>2 DEF LockSpin
  <2> QED
    BY <2>1, <2>2
<1>5. ASSUME NEW t \in Threads, LockExchange(t)
      PROVE  A!AAcquire(t) \/ UNCHANGED A!avars
  <2>1. CASE m = 0
    BY <1>5, <2>1 DEF LockExchange, A!AAcquire, MutualExclusion
  <2>2. CASE m # 0
    BY <1>5, <2>2 DEF LockExchange
  <2> QED
    BY <2>1, <2>2
<1>6. ASSUME NEW t \in Threads, UnlockStore(t) \/ UnlockExchange(t)
      PROVE  A!ARelease(t)
  <2>1. Owners = {t}
    BY <1>6 DEF UnlockStore, UnlockExchange, MutualExclusion
  <2> QED
    BY <1>6, <2>1 DEF UnlockStore, UnlockExchange, A!ARelease
<1>7. ASSUME NEW t \in Threads, UnlockRead(t) \/ UnlockCas(t) \/ UnlockWake(t)
      PROVE  UNCHANGED A!avars
  BY <1>7 DEF UnlockRead, UnlockCas, UnlockWake, NextLook
<1>8. ASSUME NEW t \in Threads, LockInterrupted(t)
      PROVE  UNCHANGED A!avars
  BY <1>8 DEF LockInterrupted
<1>9. CASE UNCHANGED mvars
  BY <1>9 DEF mvars
<1> QED
  BY <1>1, <1>2, <1>3, <1>4, <1>5, <1>6, <1>7, <1>8, <1>9
     DEF Next, LockStep, UnlockStep, A!ANext

\* mtx_lock, mtx_trylock and mtx_unlock implement the abstract mutex: the
\* safety half of what their callers rely on.
THEOREM MutexImplementsAbstract == Spec => ImplementsMutex
<1>1. Init => A!AInit
  BY DEF Init, A!AInit, Owners, Waiting, OwnerPcs, LockPcs
<1>2. TypeOK /\ MutualExclusion /\ [Next]_mvars => [A!ANext]_(A!avars)
  BY RefinementStep
<1> QED
  BY <1>1, <1>2, TypeCorrect, MutualExclusionHolds, PTL
     DEF Spec, ImplementsMutex, A!ASafety
============================================================================
