---------------------------- MODULE EmuTlsProofs ----------------------------
(***************************************************************************)
(* Proofs about EmuTls for every set of threads and variables and every    *)
(* layout of the array, on the one condition that no thread is created     *)
(* before the first access to a thread-local variable is over: without it  *)
(* call_once lets a second thread into a mutex that is still to be zeroed. *)
(***************************************************************************)
EXTENDS EmuTls, MutexProofs, FiniteSetTheorems

USE DEF Goto

ArraysTyped ==
  /\ size \in [Threads -> Nat]
  /\ data \in [Threads -> Seq(Int)]
  /\ made \in [Threads -> Nat]
  /\ handed \in [Threads -> [Controls -> SUBSET Int]]

\* The types the proofs need; the bound of ETypeOK on num follows from
\* counting the variables, at the end.
Typed ==
  /\ TypeOK
  /\ live \subseteq Threads /\ Main \in live
  /\ once \in BOOLEAN /\ keyCreated \in BOOLEAN
  /\ num \in Nat
  /\ index \in [Controls -> Nat]
  /\ at \in [Threads -> Steps]
  /\ control \in [Threads -> Controls \cup {NoControl}]
  /\ idx \in [Threads -> Nat]
  /\ ArraysTyped

\* Where a thread can be in the mutex's code, by its place in emutls.c.
Places ==
  \A t \in Threads :
    /\ at[t] \notin {"number", "store", "unlock"} => pc[t] = "idle"
    /\ at[t] = "number" => pc[t] \in LockPcs \cup {"held"}
    /\ at[t] = "store" => pc[t] = "held"
    /\ at[t] # "out" => t \in live /\ control[t] \in Controls

\* Until emutls_init is over there is one thread, and it is not yet past
\* call_once; afterwards nobody is inside emutls_init.
OneThreadInits ==
  /\ ~keyCreated =>
       /\ live = {Main}
       /\ at[Main] \notin {"number", "store", "unlock"}
       /\ once <=> at[Main] \in {"mtx_init", "tss_create"}
  /\ keyCreated =>
       /\ once
       /\ \A t \in Threads : at[t] \notin {"mtx_init", "tss_create"}

\* Numbers in the making: the owner of the mutex holds the next one, and
\* whoever has left the first read holds the variable's own.
Numbers ==
  /\ UniqueIndex
  /\ \A t \in Threads :
       /\ at[t] = "store" => idx[t] = num + 1 /\ index[control[t]] = 0
       /\ at[t] \in {"unlock", "array", "slot"} => idx[t] # 0 /\ idx[t] = index[control[t]]

EInv == Typed /\ Places /\ OneThreadInits /\ MutualExclusion /\ Numbers

LEMMA EInvInit == EInit => EInv
<1> SUFFICES ASSUME EInit PROVE EInv
  OBVIOUS
<1>1. Typed
  <2>1. TypeOK
    BY DEF EInit, Init, TypeOK, Pcs
  <2>2. data \in [Threads -> Seq(Int)] /\ made \in [Threads -> Nat]
        /\ handed \in [Threads -> [Controls -> SUBSET Int]]
    BY DEF EInit
  <2>3. at \in [Threads -> Steps] /\ live \subseteq Threads /\ Main \in live
    BY EmuTlsAssumption DEF EInit, Steps
  <2> QED
    BY <2>1, <2>2, <2>3 DEF EInit, Typed, ArraysTyped
<1>2. Places /\ OneThreadInits
  BY EmuTlsAssumption DEF EInit, Init, Places, OneThreadInits
<1>3. MutualExclusion
  BY DEF EInit, Init, MutualExclusion, Owners, OwnerPcs
<1>4. Numbers
  BY DEF EInit, Numbers, UniqueIndex
<1> QED
  BY <1>1, <1>2, <1>3, <1>4 DEF EInv
----------------------------------------------------------------------------
\* A step of the mutex on behalf of t leaves every other thread where it is,
\* and takes t along the places its call may visit.
LEMMA MutexPlaces ==
  ASSUME EInv, NEW t \in Threads, MutexStep(t)
  PROVE  /\ Next
         /\ Places'
<1> USE DEF EInv, Typed, ArraysTyped, TypeOK, Pcs, LockPcs, OwnerPcs, HandOverPcs
<1>1. Next
  BY DEF MutexStep, Next
<1>2. at' = at /\ live' = live /\ control' = control
  BY DEF MutexStep, evars
<1>3. \A u \in Threads \ {t} : pc'[u] = pc[u]
  BY DEF MutexStep, LockStep, UnlockStep, UnlockTest, LockSpin, LockWait, LockWoken, LockExchange,
         LockInterrupted, UnlockStore, UnlockExchange, UnlockRead, UnlockCas, UnlockWake, NextLook
<1>4. CASE LockStep(t) \/ LockInterrupted(t)
  <2>1. pc[t] \in LockPcs /\ pc'[t] \in LockPcs \cup {"held"}
    BY <1>4 DEF LockStep, LockSpin, LockWait, LockWoken, LockExchange, LockInterrupted, F!WaitInterrupted
  <2> QED
    BY <1>1, <1>2, <1>3, <2>1 DEF Places
<1>5. CASE (at[t] = "unlock" /\ UnlockTest(t)) \/ UnlockStep(t)
  <2>1. at[t] = "unlock"
    BY <1>5 DEF UnlockStep, UnlockStore, UnlockExchange, UnlockRead, UnlockCas, UnlockWake, Places
  <2> QED
    BY <1>1, <1>2, <1>3, <2>1 DEF Places
<1> QED
  BY <1>4, <1>5 DEF MutexStep

\* The mutex steps of emutls keep the whole invariant.
LEMMA MutexKeeps ==
  ASSUME EInv, NEW t \in Threads, MutexStep(t)
  PROVE  EInv'
<1>1. Next /\ Places'
  BY MutexPlaces
<1>2. TypeOK' /\ MutualExclusion'
  BY <1>1, TypeCorrectStep, OwnerSteps, ExclusionStep DEF EInv, Typed, ArraysTyped
<1>3. UNCHANGED evars
  BY DEF MutexStep
<1> QED
  BY <1>1, <1>2, <1>3 DEF EInv, Typed, ArraysTyped, OneThreadInits, Numbers, UniqueIndex, evars, avars

\* A step of emutls.c that leaves the mutex alone, or takes a thread from
\* outside it to mtx_lock, keeps it typed and exclusive.
LEMMA OutsideStep ==
  ASSUME EInv, UNCHANGED <<spin, sleepers>>, m' = m,
         UNCHANGED pc \/ \E t \in Threads : pc[t] = "idle" /\ Goto(t, "lock_spin")
  PROVE  TypeOK' /\ MutualExclusion'
BY DEF EInv, Typed, ArraysTyped, TypeOK, MutualExclusion, Owners, OwnerPcs, Pcs, LockPcs
----------------------------------------------------------------------------
\* Rounding up to a multiple never falls short.
LEMMA RoundUp ==
  ASSUME NEW x \in Nat, NEW r \in Nat \ {0}
  PROVE  ((x + r - 1) \div r) * r \in Nat /\ ((x + r - 1) \div r) * r >= x
OBVIOUS

\* The array made for an index has a slot for it, header and rounding aside.
LEMMA ArrayHolds ==
  ASSUME NEW i \in Nat
  PROVE  NewDataArraySize(i) \in Nat /\ NewDataArraySize(i) >= i
<1>1. i + HeaderWords \in Nat
  BY EmuTlsAssumption
<1>2. ((i + HeaderWords + RoundTo - 1) \div RoundTo) * RoundTo >= i + HeaderWords
  BY <1>1, RoundUp, EmuTlsAssumption
<1> QED
  BY <1>1, <1>2, RoundUp, EmuTlsAssumption DEF NewDataArraySize
----------------------------------------------------------------------------
\* The words of an array of size n whose thread has allocated k objects: every
\* object is in one slot, and the other slots are null.
Tidy(words, n, k) ==
  /\ words \in Seq(Int) /\ Len(words) = n
  /\ \A i \in 1..n : words[i] \in 0..k
  /\ \A i, j \in 1..n : words[i] # Null /\ words[i] = words[j] => i = j
  /\ \A o \in 1..k : \E i \in 1..n : words[i] = o

\* The move of an array keeps every slot and leaves the new ones null.
LEMMA Moved ==
  ASSUME NEW words, NEW n \in Nat, NEW k \in Nat, Tidy(words, n, k),
         NEW w \in Nat, w >= n
  PROVE  LET moved == Cleared(Reallocated(words, w), n) IN
           /\ Tidy(moved, w, k)
           /\ \A i \in 1..n : moved[i] = words[i]
<1> DEFINE moved == Cleared(Reallocated(words, w), n)
<1>1. DOMAIN words = 1..n /\ DOMAIN Reallocated(words, w) = 1..w
  BY DEF Tidy, Reallocated
<1>2. moved = [i \in 1..w |-> IF i > n THEN Null ELSE words[i]]
  BY <1>1 DEF Cleared, Reallocated
<1>3. \A i \in 1..n : words[i] \in 0..k
  BY DEF Tidy
<1> HIDE DEF moved
<1>4. \A i \in 1..w : moved[i] \in 0..k
  BY <1>2, <1>3 DEF Null
<1>5. moved \in Seq(Int) /\ Len(moved) = w
  <2>1. moved \in [1..w -> Int]
    BY <1>2, <1>4
  <2> QED
    BY <1>2, <2>1
<1>6. \A i \in 1..n : moved[i] = words[i]
  BY <1>2
<1>7. \A i \in 1..w : moved[i] # Null => i \in 1..n
  BY <1>2
<1>8. Tidy(moved, w, k)
  BY <1>4, <1>5, <1>6, <1>7 DEF Tidy
<1> QED
  BY <1>6, <1>8 DEF moved

\* So does a new object in an empty slot.
LEMMA Filled ==
  ASSUME NEW words, NEW n \in Nat, NEW k \in Nat, Tidy(words, n, k),
         NEW s \in 1..n, words[s] = Null
  PROVE  Tidy([words EXCEPT ![s] = k + 1], n, k + 1)
<1> DEFINE filled == [words EXCEPT ![s] = k + 1]
<1>1. DOMAIN words = 1..n
  BY DEF Tidy
<1>2. filled[s] = k + 1 /\ \A i \in 1..n \ {s} : filled[i] = words[i]
  BY <1>1
<1>3. filled \in Seq(Int) /\ Len(filled) = n
  BY <1>1 DEF Tidy
<1>4. \A i \in 1..n : words[i] \in 0..k
  BY DEF Tidy
<1> HIDE DEF filled
<1>5. \A i \in 1..n : filled[i] \in 0..(k + 1)
  BY <1>2, <1>4
<1>6. ASSUME NEW i \in 1..n, NEW j \in 1..n, filled[i] # Null, filled[i] = filled[j]
      PROVE  i = j
  <2>1. CASE i # s /\ j # s
    <3>1. words[i] # Null /\ words[i] = words[j]
      BY <1>2, <1>6, <2>1
    <3> QED
      BY <3>1 DEF Tidy
  <2>2. CASE i = s \/ j = s
    BY <1>2, <1>4, <1>6, <2>2
  <2> QED
    BY <2>1, <2>2
<1>7. ASSUME NEW o \in 1..(k + 1)
      PROVE  \E i \in 1..n : filled[i] = o
  <2>1. CASE o = k + 1
    BY <1>2, <2>1
  <2>2. CASE o \in 1..k
    <3>1. PICK i \in 1..n : words[i] = o
      BY <2>2 DEF Tidy
    <3>2. i # s
      BY <2>2, <3>1 DEF Null
    <3> QED
      BY <1>2, <3>1, <3>2
  <2> QED
    BY <2>1, <2>2
<1> QED
  BY <1>3, <1>5, <1>6, <1>7 DEF Tidy, filled

\* The array of every thread, and what it was handed from it.
Arrays ==
  \A t \in Threads :
    /\ Tidy(data[t], size[t], made[t])
    /\ at[t] = "slot" => idx[t] \in 1..size[t]
    /\ \A c \in Controls : handed[t][c] # {} =>
         /\ index[c] \in 1..size[t] /\ data[t][index[c]] # Null
         /\ handed[t][c] = {data[t][index[c]]}

\* Types are kept by the two steps on the array.
LEMMA ArrayStep ==
  ASSUME Typed, Places, NEW t \in Threads, GetAddressArray(t) \/ GetAddress(t)
  PROVE  ArraysTyped'
<1> USE DEF Typed, ArraysTyped
<1>1. CASE GetAddressArray(t)
  <2> DEFINE n == NewDataArraySize(idx[t])
             moved == Cleared(Reallocated(data[t], n), size[t])
  <2>1. n \in Nat
    BY ArrayHolds
  <2>2. moved \in Seq(Int)
    <3>1. \A i \in DOMAIN data[t] : data[t][i] \in Int
      OBVIOUS
    <3> HIDE DEF n
    <3>2. Reallocated(data[t], n) \in [1..n -> Int]
      BY <3>1 DEF Reallocated, Garbage
    <3>3. moved = [i \in 1..n |-> IF i > size[t] THEN Null ELSE Reallocated(data[t], n)[i]]
      BY <3>2 DEF Cleared
    <3> HIDE DEF moved
    <3>4. moved \in [1..n -> Int]
      BY <3>2, <3>3 DEF Null
    <3> QED
      BY <2>1, <3>3, <3>4
  <2>3. \/ UNCHANGED <<size, data>>
        \/ data' = [data EXCEPT ![t] = moved] /\ size' = [size EXCEPT ![t] = n]
    BY <1>1 DEF GetAddressArray
  <2>4. UNCHANGED <<made, handed>>
    BY <1>1 DEF GetAddressArray
  <2> HIDE DEF moved, n
  <2> QED
    BY <2>1, <2>2, <2>3, <2>4
<1>2. CASE GetAddress(t)
  <2>1. data' \in [Threads -> Seq(Int)] /\ made' \in [Threads -> Nat]
    <3>1. CASE Slot(data[t], idx[t]) = Null
      <4>1. idx[t] \in DOMAIN data[t]
        BY <3>1 DEF Slot, Null, Garbage
      <4>2. [data[t] EXCEPT ![idx[t]] = made[t] + 1] \in Seq(Int)
        BY <4>1
      <4>3. /\ data' = [data EXCEPT ![t][idx[t]] = made[t] + 1]
            /\ made' = [made EXCEPT ![t] = @ + 1]
        BY <1>2, <3>1 DEF GetAddress
      <4>4. data' = [data EXCEPT ![t] = [data[t] EXCEPT ![idx[t]] = made[t] + 1]]
        BY <4>3
      <4> QED
        BY <4>2, <4>3, <4>4
    <3>2. CASE Slot(data[t], idx[t]) # Null
      BY <1>2, <3>2 DEF GetAddress
    <3> QED
      BY <3>1, <3>2
  <2>2. Slot(data'[t], idx[t]) \in Int
    BY <2>1 DEF Slot, Garbage
  <2>3. control[t] \in Controls
    BY <1>2 DEF GetAddress, Step, Places
  <2>4. handed' = [handed EXCEPT ![t] =
                     [handed[t] EXCEPT ![control[t]] = @ \cup {Slot(data'[t], idx[t])}]]
        /\ UNCHANGED size
    BY <1>2, Zenon DEF GetAddress
  <2>5. [handed[t] EXCEPT ![control[t]] = @ \cup {Slot(data'[t], idx[t])}] \in [Controls -> SUBSET Int]
    BY <2>2, <2>3
  <2> QED
    BY <2>1, <2>4, <2>5
<1> QED
  BY <1>1, <1>2
----------------------------------------------------------------------------
\* Every step of every thread keeps the invariant, as long as threads wait
\* for the first access.
LEMMA EInvStep ==
  ASSUME ~EarlySpawn, EInv, [ENext]_vars
  PROVE  EInv'
<1> USE DEF EInv, Typed, Places, OneThreadInits, Numbers, UniqueIndex, Step, Steps
<1>0. UNCHANGED avars => ArraysTyped'
  BY DEF ArraysTyped, avars
<1>1. ASSUME NEW t \in Threads, Spawn(t)
      PROVE  EInv'
  <2>1. TypeOK' /\ MutualExclusion'
    BY <1>1, OutsideStep DEF Spawn, mvars
  <2> QED
    BY <1>0, <1>1, <2>1 DEF Spawn, mvars
<1>2. ASSUME NEW t \in Threads, Exit(t)
      PROVE  EInv'
  <2>1. TypeOK' /\ MutualExclusion'
    BY <1>2, OutsideStep DEF Exit, mvars
  <2>2. ArraysTyped'
    BY <1>2 DEF Exit, ArraysTyped
  <2> QED
    BY <1>2, <2>1, <2>2 DEF Exit, mvars
<1>3. ASSUME NEW t \in Threads, Access(t)
      PROVE  EInv'
  <2>1. TypeOK' /\ MutualExclusion'
    BY <1>3, OutsideStep DEF Access, mvars
  <2>2. PICK c \in Controls : /\ Step(t, "out", IF index[c] = 0 THEN "once" ELSE "array")
                              /\ control' = [control EXCEPT ![t] = c]
                              /\ idx' = [idx EXCEPT ![t] = index[c]]
    BY <1>3 DEF Access
  <2> QED
    BY <1>0, <1>3, <2>1, <2>2 DEF Access, mvars
<1>4. ASSUME NEW t \in Threads, CallOnce(t)
      PROVE  EInv'
  <2>1. TypeOK' /\ MutualExclusion'
    BY <1>4, OutsideStep DEF CallOnce
  <2>2. CASE once
    BY <1>0, <1>4, <2>1, <2>2 DEF CallOnce, LockPcs, TypeOK
  <2>3. CASE ~once
    BY <1>0, <1>4, <2>1, <2>3 DEF CallOnce
  <2> QED
    BY <2>2, <2>3
<1>5. ASSUME NEW t \in Threads, InitMutex(t)
      PROVE  EInv'
  <2>1. Owners = {}
    BY <1>5 DEF InitMutex, Owners, OwnerPcs
  <2>2. TypeOK' /\ MutualExclusion'
    BY <1>5, <2>1, OutsideStep DEF InitMutex, MutualExclusion
  <2> QED
    BY <1>0, <1>5, <2>2 DEF InitMutex
<1>6. ASSUME NEW t \in Threads, InitKey(t)
      PROVE  EInv'
  <2>1. TypeOK' /\ MutualExclusion'
    BY <1>6, OutsideStep DEF InitKey
  <2> QED
    BY <1>0, <1>6, <2>1 DEF InitKey, LockPcs, TypeOK
<1>7. ASSUME NEW t \in Threads, TakeNumber(t)
      PROVE  EInv'
  <2>1. TypeOK' /\ MutualExclusion'
    BY <1>7, OutsideStep DEF TakeNumber, mvars
  <2> QED
    BY <1>0, <1>7, <2>1 DEF TakeNumber, mvars
<1>8. ASSUME NEW t \in Threads, StoreNumber(t)
      PROVE  EInv'
  <2>1. TypeOK' /\ MutualExclusion'
    BY <1>8, OutsideStep DEF StoreNumber, mvars
  <2>2. \A u \in Threads : at[u] = "store" => u = t
    BY <1>8 DEF StoreNumber, MutualExclusion, Owners, OwnerPcs
  <2> QED
    BY <1>0, <1>8, <2>1, <2>2 DEF StoreNumber, mvars
<1>9. ASSUME NEW t \in Threads, Unlocked(t)
      PROVE  EInv'
  <2>1. TypeOK' /\ MutualExclusion'
    BY <1>9, OutsideStep DEF Unlocked, mvars
  <2> QED
    BY <1>0, <1>9, <2>1 DEF Unlocked, mvars
<1>10. ASSUME NEW t \in Threads, GetAddressArray(t) \/ GetAddress(t)
       PROVE  EInv'
  <2>1. TypeOK' /\ MutualExclusion'
    BY <1>10, OutsideStep DEF GetAddressArray, GetAddress, mvars
  <2>2. ArraysTyped'
    BY <1>10, ArrayStep
  <2>3. CASE GetAddressArray(t)
    BY <2>1, <2>2, <2>3 DEF GetAddressArray, mvars
  <2>4. CASE GetAddress(t)
    BY <2>1, <2>2, <2>4 DEF GetAddress, mvars
  <2> QED
    BY <1>10, <2>3, <2>4
<1>11. ASSUME NEW t \in Threads, MutexStep(t)
       PROVE  EInv'
  BY <1>11, MutexKeeps
<1>12. CASE UNCHANGED vars
  BY <1>0, <1>12 DEF vars, mvars, evars, TypeOK, MutualExclusion, Owners
<1> QED
  BY <1>1, <1>2, <1>3, <1>4, <1>5, <1>6, <1>7, <1>8, <1>9, <1>10, <1>11, <1>12 DEF ENext
----------------------------------------------------------------------------
\* Two variables never share a slot number, whatever threads first touch them
\* together: the second read under emutls_mutex decides.
THEOREM UniqueIndexHolds ==
  ASSUME ~EarlySpawn
  PROVE  ESpec => []UniqueIndex
<1>1. EInv => UniqueIndex
  BY DEF EInv, Numbers
<1> QED
  BY <1>1, EInvInit, EInvStep, PTL DEF ESpec

\* A variable's number never changes, so the unlocked first read of
\* emutls_get_index may be trusted once it is not zero.
THEOREM IndexIsFinalHolds ==
  ASSUME ~EarlySpawn
  PROVE  ESpec => IndexIsFinal
<1> DEFINE Final == \A c \in Controls : index[c] # 0 => index'[c] = index[c]
<1>1. ASSUME EInv, [ENext]_vars
      PROVE  Final
  <2>1. ASSUME NEW t \in Threads, StoreNumber(t)
        PROVE  Final
    BY <1>1, <2>1 DEF StoreNumber, Step, EInv, Typed, ArraysTyped, Numbers
  <2>2. ASSUME NEW t \in Threads, ~StoreNumber(t)
        PROVE  Spawn(t) \/ Exit(t) \/ Access(t) \/ CallOnce(t) \/ InitMutex(t) \/ InitKey(t)
                 \/ TakeNumber(t) \/ Unlocked(t) \/ MutexStep(t)
                 \/ GetAddressArray(t) \/ GetAddress(t)
               => UNCHANGED index
    BY <2>2 DEF Spawn, Exit, Access, CallOnce, InitMutex, InitKey, TakeNumber, Unlocked,
                MutexStep, GetAddressArray, GetAddress, evars
  <2> QED
    BY <1>1, <2>1, <2>2 DEF ENext, vars, evars
<1> QED
  BY <1>1, EInvInit, EInvStep, PTL DEF ESpec, IndexIsFinal

\* Arrays are kept by every step.  The steps of other threads only number
\* variables this thread has no object of.
LEMMA ArraysStep ==
  ASSUME ~EarlySpawn, EInv, Arrays, [ENext]_vars
  PROVE  Arrays'
<1>0. EInv'
  BY EInvStep
<1>1. ASSUME NEW t \in Threads, Exit(t)
      PROVE  Arrays'
  <2>1. Tidy(<< >>, 0, 0)
    BY DEF Tidy
  <2>2. data'[t] = << >> /\ size'[t] = 0 /\ made'[t] = 0 /\ handed'[t] = [c \in Controls |-> {}]
    BY <1>1 DEF Exit, EInv, Typed, ArraysTyped
  <2>3. at[t] = "out" /\ UNCHANGED <<at, idx, index>>
    BY <1>1 DEF Exit
  <2>4. \A u \in Threads \ {t} : /\ data'[u] = data[u] /\ size'[u] = size[u]
                                 /\ made'[u] = made[u] /\ handed'[u] = handed[u]
    BY <1>1 DEF Exit, EInv, Typed, ArraysTyped
  <2> QED
    BY <2>1, <2>2, <2>3, <2>4 DEF Arrays
<1>2. ASSUME NEW t \in Threads, StoreNumber(t)
      PROVE  Arrays'
  <2>1. \A c \in Controls : index[c] # 0 => index'[c] = index[c]
    BY <1>2 DEF StoreNumber, Step, EInv, Typed, ArraysTyped, Numbers
  <2>2. UNCHANGED <<data, size, made, handed, idx>>
    BY <1>2 DEF StoreNumber, avars
  <2>3. \A u \in Threads : at'[u] = "slot" => at[u] = "slot"
    BY <1>2 DEF StoreNumber, Step, EInv, Typed, ArraysTyped
  <2>4. \A c \in Controls : \A n \in Nat : index[c] \in 1..n => index[c] # 0
    OBVIOUS
  <2>5. size \in [Threads -> Nat]
    BY DEF EInv, Typed, ArraysTyped
  <2> QED
    BY <2>1, <2>2, <2>3, <2>4, <2>5 DEF Arrays
<1>3. ASSUME NEW t \in Threads, GetAddressArray(t)
      PROVE  Arrays'
  <2>1. idx[t] \in Nat \ {0} /\ size[t] \in Nat /\ made[t] \in Nat
    BY <1>3 DEF GetAddressArray, Step, EInv, Typed, ArraysTyped, Numbers
  <2>2. /\ Tidy(data'[t], size'[t], made[t]) /\ idx[t] \in 1..size'[t]
        /\ \A i \in 1..size[t] : i \in 1..size'[t] /\ data'[t][i] = data[t][i]
    <3>1. CASE idx[t] <= size[t]
      BY <1>3, <2>1, <3>1 DEF GetAddressArray, Arrays
    <3>2. CASE ~(idx[t] <= size[t])
      <4> DEFINE n == NewDataArraySize(idx[t])
      <4>1. n \in Nat /\ n >= idx[t] /\ n >= size[t]
        BY <2>1, <3>2, ArrayHolds
      <4>2. data'[t] = Cleared(Reallocated(data[t], n), size[t]) /\ size'[t] = n
        BY <1>3, <3>2 DEF GetAddressArray, EInv, Typed, ArraysTyped
      <4>3. Tidy(data[t], size[t], made[t])
        BY DEF Arrays
      <4> HIDE DEF n
      <4>4. Tidy(data'[t], n, made[t]) /\ \A i \in 1..size[t] : data'[t][i] = data[t][i]
        BY <2>1, <4>1, <4>2, <4>3, Moved
      <4> QED
        BY <2>1, <4>1, <4>2, <4>4
    <3> QED
      BY <3>1, <3>2
  <2>3. \A u \in Threads \ {t} : data'[u] = data[u] /\ size'[u] = size[u] /\ at'[u] = at[u]
    BY <1>3 DEF GetAddressArray, Step, EInv, Typed, ArraysTyped
  <2>4. UNCHANGED <<made, handed, idx, index>>
    BY <1>3 DEF GetAddressArray
  <2> QED
    BY <2>2, <2>3, <2>4 DEF Arrays
<1>4. ASSUME NEW t \in Threads, GetAddress(t)
      PROVE  Arrays'
  <2> DEFINE i == idx[t]
             c == control[t]
  <2>0. at[t] = "slot" /\ t \in Threads
    BY <1>4 DEF GetAddress, Step
  <2>1. i \in 1..size[t] /\ c \in Controls /\ i = index[c] /\ size[t] \in Nat /\ made[t] \in Nat
    <3>1. i \in 1..size[t]
      BY <2>0 DEF Arrays
    <3>2. c \in Controls /\ i = index[c]
      BY <2>0 DEF EInv, Places, Numbers
    <3> QED
      BY <3>1, <3>2 DEF EInv, Typed, ArraysTyped
  <2>2. Tidy(data[t], size[t], made[t]) /\ Slot(data[t], i) = data[t][i]
    <3>1. Tidy(data[t], size[t], made[t])
      BY DEF Arrays
    <3> QED
      BY <2>1, <3>1 DEF Tidy, Slot
  <2>3. /\ Tidy(data'[t], size[t], made'[t]) /\ data'[t][i] # Null
        /\ \A j \in 1..size[t] : data[t][j] # Null => data'[t][j] = data[t][j]
    <3>1. CASE data[t][i] = Null
      <4>1. data'[t] = [data[t] EXCEPT ![i] = made[t] + 1] /\ made'[t] = made[t] + 1
        BY <1>4, <2>2, <3>1 DEF GetAddress, EInv, Typed, ArraysTyped
      <4>2. Tidy(data'[t], size[t], made'[t])
        BY <2>1, <2>2, <3>1, <4>1, Filled
      <4>3. data'[t][i] = made[t] + 1 /\ \A j \in DOMAIN data[t] : j # i => data'[t][j] = data[t][j]
        BY <2>1, <2>2, <4>1 DEF Tidy
      <4>4. DOMAIN data[t] = 1..size[t]
        BY <2>2 DEF Tidy
      <4> QED
        BY <2>1, <3>1, <4>2, <4>3, <4>4 DEF Null
    <3>2. CASE data[t][i] # Null
      BY <1>4, <2>2, <3>2 DEF GetAddress
    <3> QED
      BY <3>1, <3>2
  <2>4. Slot(data'[t], i) = data'[t][i]
    BY <2>1, <2>3 DEF Tidy, Slot
  <2>5. handed[t][c] \subseteq {data'[t][i]}
    BY <2>1, <2>3 DEF Arrays
  <2>6. handed'[t][c] = {data'[t][i]}
    BY <1>4, <2>1, <2>4, <2>5 DEF GetAddress, EInv, Typed, ArraysTyped
  <2>7. \A d \in Controls \ {c} : handed'[t][d] = handed[t][d]
    BY <1>4 DEF GetAddress, EInv, Typed, ArraysTyped
  <2>8. \A u \in Threads \ {t} : /\ data'[u] = data[u] /\ made'[u] = made[u] /\ handed'[u] = handed[u]
                                 /\ at'[u] = at[u] /\ idx'[u] = idx[u]
    BY <1>4 DEF GetAddress, Step, EInv, Typed, ArraysTyped
  <2>9. UNCHANGED <<size, index>> /\ at'[t] = "out"
    BY <1>4 DEF GetAddress, Step, EInv, Typed, ArraysTyped
  <2>10. \A d \in Controls : handed'[t][d] # {} =>
           /\ index[d] \in 1..size[t] /\ data'[t][index[d]] # Null
           /\ handed'[t][d] = {data'[t][index[d]]}
    <3>1. ASSUME NEW d \in Controls \ {c}, handed[t][d] # {}
          PROVE  /\ index[d] \in 1..size[t] /\ data'[t][index[d]] # Null
                 /\ handed[t][d] = {data'[t][index[d]]}
      BY <2>3, <3>1 DEF Arrays
    <3> QED
      BY <2>1, <2>3, <2>6, <2>7, <3>1
  <2> QED
    BY <2>3, <2>8, <2>9, <2>10 DEF Arrays
<1>5. ASSUME NEW t \in Threads,
             Spawn(t) \/ Access(t) \/ CallOnce(t) \/ InitMutex(t) \/ InitKey(t)
               \/ TakeNumber(t) \/ Unlocked(t) \/ MutexStep(t)
      PROVE  /\ UNCHANGED <<data, size, made, handed, index>>
             /\ \A u \in Threads : at'[u] = "slot" => at[u] = "slot" /\ idx'[u] = idx[u]
  BY <1>5 DEF Spawn, Access, CallOnce, InitMutex, InitKey, TakeNumber, Unlocked,
              MutexStep, Step, evars, avars, EInv, Typed, ArraysTyped
<1>6. CASE UNCHANGED vars
  BY <1>6 DEF vars, evars, avars, Arrays
<1>7. ASSUME /\ UNCHANGED <<data, size, made, handed, index>>
             /\ \A u \in Threads : at'[u] = "slot" => at[u] = "slot" /\ idx'[u] = idx[u]
      PROVE  Arrays'
  BY <1>7 DEF Arrays
<1> QED
  BY <1>1, <1>2, <1>3, <1>4, <1>5, <1>6, <1>7 DEF ENext

LEMMA ArraysInit == EInit => Arrays
<1> SUFFICES ASSUME EInit PROVE Arrays
  OBVIOUS
<1>1. Tidy(<< >>, 0, 0)
  BY DEF Tidy
<1> QED
  BY <1>1 DEF EInit, Arrays

\* Every slot a thread uses lies inside the array it has, whatever the header
\* and the rounding: the bound of the unchecked access array->data[index].
THEOREM SlotsInArrayHolds ==
  ASSUME ~EarlySpawn
  PROVE  ESpec => []SlotsInArray
<1>1. Arrays => SlotsInArray
  BY DEF Arrays, Tidy, SlotsInArray
<1> QED
  BY <1>1, EInvInit, EInvStep, ArraysInit, ArraysStep, PTL DEF ESpec

\* A thread is given one object for each variable until it exits, for any
\* number of variables, any order of accesses and moves of the array.
THEOREM ObjectsSurviveHolds ==
  ASSUME ~EarlySpawn
  PROVE  ESpec => []ObjectsSurviveGrowth
<1>1. EInv /\ Arrays => ObjectsSurviveGrowth
  <2> SUFFICES ASSUME EInv, Arrays,
                      NEW t \in Threads, NEW c \in Controls, handed[t][c] # {}
               PROVE  /\ \E k \in 1..made[t] : handed[t][c] = {k}
                      /\ \A d \in Controls : c # d => handed[t][c] \cap handed[t][d] = {}
    BY DEF ObjectsSurviveGrowth
  <2>1. /\ index[c] \in 1..size[t] /\ data[t][index[c]] # Null
        /\ handed[t][c] = {data[t][index[c]]}
    BY DEF Arrays
  <2>2. data[t][index[c]] \in 1..made[t]
    BY <2>1 DEF Arrays, Tidy, EInv, Typed, ArraysTyped, Null
  <2>3. ASSUME NEW d \in Controls, c # d, handed[t][d] # {}
        PROVE  handed[t][c] \cap handed[t][d] = {}
    <3>1. index[d] \in 1..size[t] /\ handed[t][d] = {data[t][index[d]]}
      BY <2>3 DEF Arrays
    <3>2. index[c] # index[d]
      BY <2>1, <2>3 DEF EInv, Typed, ArraysTyped, Numbers, UniqueIndex
    <3>3. data[t][index[c]] # data[t][index[d]]
      BY <2>1, <3>1, <3>2 DEF Arrays, Tidy
    <3> QED
      BY <2>1, <3>1, <3>3
  <2> QED
    BY <2>1, <2>2, <2>3
<1> QED
  BY <1>1, EInvInit, EInvStep, ArraysInit, ArraysStep, PTL DEF ESpec

\* At its end a thread frees exactly the objects it has allocated, each once.
THEOREM ExitFreesHolds ==
  ASSUME ~EarlySpawn
  PROVE  ESpec => ExitFreesObjects
<1> DEFINE Occupied(t) == {i \in 1..size[t] : Slot(data[t], i) # Null}
           Freed(t) == /\ {Slot(data[t], i) : i \in Occupied(t)} = 1..made[t]
                       /\ \A i, j \in Occupied(t) : Slot(data[t], i) = Slot(data[t], j) => i = j
<1>1. ASSUME EInv, Arrays, NEW t \in Threads
      PROVE  Freed(t)
  <2>1. Tidy(data[t], size[t], made[t]) /\ made[t] \in Nat
    BY <1>1 DEF Arrays, EInv, Typed, ArraysTyped
  <2>2. \A i \in 1..size[t] : Slot(data[t], i) = data[t][i]
    BY <2>1 DEF Tidy, Slot
  <2>3. \A i \in 1..size[t] : data[t][i] # Null => data[t][i] \in 1..made[t]
    BY <2>1 DEF Tidy, Null
  <2>4. \A o \in 1..made[t] : o # Null /\ \E i \in 1..size[t] : data[t][i] = o
    BY <2>1 DEF Tidy, Null
  <2>5. {Slot(data[t], i) : i \in Occupied(t)} = 1..made[t]
    BY <2>2, <2>3, <2>4
  <2> QED
    BY <2>1, <2>2, <2>5 DEF Tidy
<1>2. EInv /\ Arrays => \A t \in live : t \notin live' => Freed(t)
  BY <1>1 DEF EInv, Typed, ArraysTyped
<1> QED
  BY <1>2, EInvInit, EInvStep, ArraysInit, ArraysStep, PTL DEF ESpec, ExitFreesObjects
----------------------------------------------------------------------------
Numbered == {c \in Controls : index[c] # 0}

\* A step numbers one variable more or none.
LEMMA CountStep ==
  ASSUME EInv, Cardinality(Numbered) = num, [ENext]_vars
  PROVE  Cardinality(Numbered') = num'
<1>1. ASSUME NEW t \in Threads, StoreNumber(t)
      PROVE  Cardinality(Numbered') = num'
  <2>1. at[t] = "store" /\ control[t] \in Controls /\ idx[t] = num + 1 /\ index[control[t]] = 0
    BY <1>1 DEF StoreNumber, Step, EInv, Typed, ArraysTyped, Places, Numbers
  <2>2. Numbered' = Numbered \cup {control[t]} /\ control[t] \notin Numbered
    BY <1>1, <2>1 DEF StoreNumber, Numbered, EInv, Typed, ArraysTyped
  <2>3. IsFiniteSet(Numbered)
    BY FS_Subset, EmuTlsAssumption DEF Numbered
  <2>4. Cardinality(Numbered') = Cardinality(Numbered) + 1
    BY <2>2, <2>3, FS_AddElement
  <2> QED
    BY <1>1, <2>1, <2>4 DEF StoreNumber
<1>2. ASSUME NEW t \in Threads,
             Spawn(t) \/ Exit(t) \/ Access(t) \/ CallOnce(t) \/ InitMutex(t) \/ InitKey(t)
               \/ TakeNumber(t) \/ Unlocked(t) \/ MutexStep(t)
                 \/ GetAddressArray(t) \/ GetAddress(t)
      PROVE  UNCHANGED <<num, index>>
  BY <1>2 DEF Spawn, Exit, Access, CallOnce, InitMutex, InitKey, TakeNumber, Unlocked,
              MutexStep, GetAddressArray, GetAddress, evars
<1>3. UNCHANGED <<num, index>> => Cardinality(Numbered') = num'
  BY DEF Numbered
<1> QED
  BY <1>1, <1>2, <1>3 DEF ENext, vars, evars

\* The type invariant, with no more numbers given out than there are variables.
THEOREM EmuTlsTypeCorrect ==
  ASSUME ~EarlySpawn
  PROVE  ESpec => []ETypeOK
<1> DEFINE Inv == EInv /\ Cardinality(Numbered) = num
<1>1. EInit => Inv
  <2> SUFFICES ASSUME EInit PROVE Inv
    OBVIOUS
  <2>1. Numbered = {} /\ num = 0
    BY DEF EInit, Numbered
  <2> QED
    BY <2>1, EInvInit, FS_EmptySet
<1>2. Inv /\ [ENext]_vars => Inv'
  BY EInvStep, CountStep
<1>3. Inv => ETypeOK
  <2> SUFFICES ASSUME Inv PROVE ETypeOK
    OBVIOUS
  <2>1. Cardinality(Numbered) <= Cardinality(Controls) /\ Cardinality(Controls) \in Nat
    BY FS_Subset, FS_CardinalityType, EmuTlsAssumption DEF Numbered
  <2>2. num \in 0..Cardinality(Controls)
    BY <2>1 DEF EInv, Typed, ArraysTyped
  <2> QED
    BY <2>2 DEF EInv, Typed, ArraysTyped, ETypeOK
<1> QED
  BY <1>1, <1>2, <1>3, PTL DEF ESpec
============================================================================
