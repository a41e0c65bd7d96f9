------------------------------ MODULE EmuTls -------------------------------
(***************************************************************************)
(* Emulated thread-local storage: __emutls_get_address of                  *)
(* src/xlibc/emutls.c with call_once of src/xlibc/libc.c and the mutex of  *)
(* module Mutex.  Every access of a thread-local variable, errno included, *)
(* runs this code.                                                         *)
(***************************************************************************)
EXTENDS Mutex, Sequences

CONSTANTS
  Main,         \* the thread the process starts with
  Controls,     \* the __emutls_control objects, one per variable
  NoControl,    \* no control: the thread is outside
  HeaderWords,  \* sizeof(emutls_address_array) in words (2 in the code)
  RoundTo,      \* array sizes are rounded up to this many words (16)
  EarlySpawn    \* may threads be created before the first access is over?

ASSUME EmuTlsAssumption ==
  /\ Main \in Threads
  /\ IsFiniteSet(Controls) /\ NoControl \notin Controls
  /\ HeaderWords \in Nat
  /\ RoundTo \in Nat \ {0}
  /\ EarlySpawn \in BOOLEAN

VARIABLES
  live,        \* threads created so far and not yet exited
  once,        \* the once_flag of emutls_init_once
  keyCreated,  \* emutls_key_created: tss_create has returned
  num,         \* emutls_num_object
  index,       \* control->object.index, 0 until one is assigned
  at,          \* where each thread is in __emutls_get_address
  control,     \* the control it was called with
  idx,         \* its local `index'
  size,        \* array->size of each thread, 0 while there is no array
  data,        \* array->data of each thread: the words it was allocated with
  made,        \* how many objects the thread has allocated: their names
  handed       \* the addresses it was ever given for each variable

avars == <<size, data, made, handed>>
evars == <<live, once, keyCreated, num, index, at, control, idx, avars>>
vars  == <<mvars, evars>>

\* What a word of an array can hold: nothing, the k-th object its thread
\* allocated (k > 0), or what the heap had there before.
Null == 0
Garbage == -1

Step(t, from, to) == at[t] = from /\ at' = [at EXCEPT ![t] = to]

EInit ==
  /\ Init
  /\ live = {Main}
  /\ once = FALSE
  /\ keyCreated = FALSE
  /\ num = 0
  /\ index = [c \in Controls |-> 0]
  /\ at = [t \in Threads |-> "out"]
  /\ control = [t \in Threads |-> NoControl]
  /\ idx = [t \in Threads |-> 0]
  /\ size = [t \in Threads |-> 0]
  /\ data = [t \in Threads |-> << >>]
  /\ made = [t \in Threads |-> 0]
  /\ handed = [t \in Threads |-> [c \in Controls |-> {}]]
----------------------------------------------------------------------------
(* Life of a thread, as thrd_create and the end of the thread drive it *)

Spawn(t) ==
  /\ t \notin live
  /\ at[t] = "out"
  /\ EarlySpawn \/ keyCreated
  /\ live' = live \cup {t}
  /\ UNCHANGED <<mvars, once, keyCreated, num, index, at, control, idx, avars>>

\* emutls_key_destructor with no rounds to skip: emutls_shutdown frees the
\* objects, then the array goes.  The id may be used by a later thread.
Exit(t) ==
  /\ t \in live \ {Main}
  /\ at[t] = "out"
  /\ live' = live \ {t}
  /\ size' = [size EXCEPT ![t] = 0]
  /\ data' = [data EXCEPT ![t] = << >>]
  /\ made' = [made EXCEPT ![t] = 0]
  /\ handed' = [handed EXCEPT ![t] = [c \in Controls |-> {}]]
  /\ UNCHANGED <<mvars, once, keyCreated, num, index, at, control, idx>>
----------------------------------------------------------------------------
(* emutls_get_index *)

\* The acquire load of the fast path.
Access(t) ==
  /\ t \in live
  /\ \E c \in Controls :
       /\ Step(t, "out", IF index[c] = 0 THEN "once" ELSE "array")
       /\ control' = [control EXCEPT ![t] = c]
       /\ idx' = [idx EXCEPT ![t] = index[c]]
  /\ UNCHANGED <<mvars, live, once, keyCreated, num, index, avars>>

\* Mutant: the index is assigned without taking the mutex.
CallOnceUnlocked(t) ==
  /\ once' = TRUE
  /\ IF once
       THEN Step(t, "once", "number") /\ Goto(t, "held")
       ELSE Step(t, "once", "mtx_init") /\ UNCHANGED pc
  /\ UNCHANGED <<m, spin, sleepers, live, keyCreated, num, index, control, idx, avars>>

\* call_once: test_and_set lets the first caller run emutls_init and every
\* other one straight through to emutls_lock.
CallOnce(t) ==
  /\ once' = TRUE
  /\ IF once
       THEN Step(t, "once", "number") /\ Goto(t, "lock_spin")
       ELSE Step(t, "once", "mtx_init") /\ UNCHANGED pc
  /\ UNCHANGED <<m, spin, sleepers, live, keyCreated, num, index, control, idx, avars>>

\* emutls_init: mtx_init zeroes the word ...
InitMutex(t) ==
  /\ Step(t, "mtx_init", "tss_create")
  /\ m' = 0
  /\ UNCHANGED <<pc, spin, sleepers, live, once, keyCreated, num, index, control, idx, avars>>

\* ... and tss_create makes the key; emutls_lock follows.
InitKey(t) ==
  /\ Step(t, "tss_create", "number")
  /\ keyCreated' = TRUE
  /\ Goto(t, "lock_spin")
  /\ UNCHANGED <<m, spin, sleepers, live, once, num, index, control, idx, avars>>

\* Mutant: no second look at the index once the mutex is held.
TakeNumberBlind(t) ==
  /\ pc[t] = "held"
  /\ Step(t, "number", "store")
  /\ idx' = [idx EXCEPT ![t] = num + 1]
  /\ UNCHANGED <<mvars, live, once, keyCreated, num, index, control, avars>>

\* With the mutex held: read the index again, and number the control if it
\* still has none.  The increment and the store are steps of their own, so
\* that a broken mutex would show.
TakeNumber(t) ==
  /\ pc[t] = "held"
  /\ LET c == control[t] IN
       IF index[c] = 0
         THEN /\ Step(t, "number", "store")
              /\ idx' = [idx EXCEPT ![t] = num + 1]
         ELSE /\ Step(t, "number", "unlock")
              /\ idx' = [idx EXCEPT ![t] = index[c]]
  /\ UNCHANGED <<mvars, live, once, keyCreated, num, index, control, avars>>

StoreNumber(t) ==
  /\ Step(t, "store", "unlock")
  /\ num' = idx[t]
  /\ index' = [index EXCEPT ![control[t]] = idx[t]]
  /\ UNCHANGED <<mvars, live, once, keyCreated, control, idx, avars>>

Unlocked(t) ==
  /\ pc[t] = "idle"
  /\ Step(t, "unlock", "array")
  /\ UNCHANGED <<mvars, live, once, keyCreated, num, index, control, idx, avars>>

\* The steps of mtx_lock and mtx_unlock inside emutls_get_index.
MutexStep(t) ==
  /\ \/ LockStep(t)
     \/ at[t] = "unlock" /\ UnlockTest(t)
     \/ UnlockStep(t)
     \/ LockInterrupted(t)
  /\ UNCHANGED evars
----------------------------------------------------------------------------
(* emutls_get_address_array and the rest of __emutls_get_address; the array *)
(* is the thread's own, so that no other thread sees what is in it          *)

\* Mutant: the header is not added before rounding up.
NewDataArraySizeShort(i) ==
  ((i + RoundTo - 1) \div RoundTo) * RoundTo - HeaderWords

NewDataArraySize(i) ==
  ((i + HeaderWords + RoundTo - 1) \div RoundTo) * RoundTo - HeaderWords

\* malloc and realloc to n words: the words there were, as far as they fit,
\* and whatever the heap holds behind them.
Reallocated(words, n) ==
  [i \in 1..n |-> IF i \in DOMAIN words THEN words[i] ELSE Garbage]

\* Mutant: memset clears the moved array from its start.
ClearedWhole(words, from) == [i \in DOMAIN words |-> Null]

\* Mutant: memset is given one word too few.
ClearedShort(words, from) ==
  [i \in DOMAIN words |-> IF i > from /\ i < Len(words) THEN Null ELSE words[i]]

\* memset of the words behind the first `from'; all of them in a first array.
Cleared(words, from) ==
  [i \in DOMAIN words |-> IF i > from THEN Null ELSE words[i]]

\* emutls_get_address_array, by the thread for itself.  No array has size 0,
\* so that one test covers malloc and realloc; memset starts at the old size,
\* and emutls_check_array_set_size stores the new one.
GetAddressArray(t) ==
  /\ Step(t, "array", "slot")
  /\ IF idx[t] <= size[t]
       THEN UNCHANGED <<size, data>>
       ELSE LET n == NewDataArraySize(idx[t]) IN
              /\ data' = [data EXCEPT ![t] = Cleared(Reallocated(@, n), size[t])]
              /\ size' = [size EXCEPT ![t] = n]
  /\ UNCHANGED <<mvars, live, once, keyCreated, num, index, control, idx, made, handed>>

\* What array->data[i-1] reads: outside the array, what the heap has there.
Slot(words, i) == IF i \in DOMAIN words THEN words[i] ELSE Garbage

\* The end of __emutls_get_address: an object goes into the slot if there is
\* none, and the slot is returned.
GetAddress(t) ==
  /\ Step(t, "slot", "out")
  /\ IF Slot(data[t], idx[t]) = Null
       THEN /\ data' = [data EXCEPT ![t][idx[t]] = made[t] + 1]
            /\ made' = [made EXCEPT ![t] = @ + 1]
       ELSE UNCHANGED <<data, made>>
  /\ handed' = [handed EXCEPT ![t][control[t]] = @ \cup {Slot(data'[t], idx[t])}]
  /\ control' = [control EXCEPT ![t] = NoControl]
  /\ idx' = [idx EXCEPT ![t] = 0]
  /\ UNCHANGED <<mvars, live, once, keyCreated, num, index, size>>
----------------------------------------------------------------------------
ENext ==
  \E t \in Threads :
    \/ Spawn(t) \/ Exit(t) \/ Access(t)
    \/ CallOnce(t) \/ InitMutex(t) \/ InitKey(t)
    \/ TakeNumber(t) \/ StoreNumber(t) \/ Unlocked(t) \/ MutexStep(t)
    \/ GetAddressArray(t) \/ GetAddress(t)

ESpec == EInit /\ [][ENext]_vars
----------------------------------------------------------------------------
Steps == {"out", "once", "mtx_init", "tss_create", "number", "store", "unlock", "array", "slot"}

\* Type invariant; no more numbers are given out than there are variables.
ETypeOK ==
  /\ TypeOK
  /\ live \subseteq Threads
  /\ once \in BOOLEAN /\ keyCreated \in BOOLEAN
  /\ num \in 0..Cardinality(Controls)
  /\ index \in [Controls -> Nat]
  /\ at \in [Threads -> Steps]
  /\ control \in [Threads -> Controls \cup {NoControl}]
  /\ idx \in [Threads -> Nat]
  /\ size \in [Threads -> Nat]
  /\ data \in [Threads -> Seq(Int)]
  /\ made \in [Threads -> Nat]
  /\ handed \in [Threads -> [Controls -> SUBSET Int]]

\* Two variables never share a slot, and the numbers stay within the count:
\* the double-checked assignment under emutls_mutex hands each out once.
UniqueIndex ==
  /\ \A c, d \in Controls : c # d /\ index[c] # 0 => index[c] # index[d]
  /\ \A c \in Controls : index[c] <= num

\* A variable keeps its slot: a thread that resolved it through the fast
\* path and one that numbers it under the mutex never disagree.
IndexIsFinal ==
  [][\A c \in Controls : index[c] # 0 => index'[c] = index[c]]_vars

\* The slot of every variable a thread has an object of lies inside the
\* memory of its array, also after another variable made the array grow: the
\* bound of the unchecked access array->data[index].
SlotsInArray ==
  \A t \in Threads, c \in Controls :
    handed[t][c] # {} => index[c] \in 1..size[t] /\ size[t] = Len(data[t])

\* Until it exits, a thread is given one object for a variable, the same every
\* time and no other variable's, however often the array has moved in between;
\* never what realloc or the neighbouring memory happened to hold.
ObjectsSurviveGrowth ==
  \A t \in Threads, c \in Controls : handed[t][c] # {} =>
    /\ \E k \in 1..made[t] : handed[t][c] = {k}
    /\ \A d \in Controls : c # d => handed[t][c] \cap handed[t][d] = {}

\* When a thread exits, emutls_shutdown frees every object the thread has
\* allocated, each once, and nothing else: what it finds in the slots up to
\* array->size.
ExitFreesObjects ==
  [][\A t \in live : t \notin live' =>
       LET Occupied == {i \in 1..size[t] : Slot(data[t], i) # Null} IN
         /\ {Slot(data[t], i) : i \in Occupied} = 1..made[t]
         /\ \A i, j \in Occupied : Slot(data[t], i) = Slot(data[t], j) => i = j]_vars

\* call_once returns only after the function has been executed, by whatever
\* thread: src/xlibc/libc.c:844 "Another thread has already executed the
\* function, do nothing."
OnceMeansExecuted ==
  \A t \in Threads : at[t] = "number" => keyCreated
============================================================================
