# Verification of distx

distx is a distribution of programs that run unchanged on Linux and Windows:
a loader for ELF files (`xload`), a C library over the host's system calls
(`xlibc`), a build tool (`xbuild`), a window layer (`xgui`) and the scripts that
fetch and build packages. This directory models the parts of it in which order,
failure and concurrency matter, checks the models with TLC on small instances and
proves the main results about them with TLAPS.

1. [The system](#1-the-system)
2. [Modules and code](#2-modules-and-code)
3. [Runs](#3-runs)
4. [Proofs](#4-proofs)
5. [What the code does that its text does not say](#5-what-the-code-does-that-its-text-does-not-say)
6. [Plan](#6-plan)
7. [What is not modelled](#7-what-is-not-modelled)

To repeat a check: `tlc -workers 2 -config MCMutex.cfg MCMutex`, and likewise for
the other configurations; to repeat a proof: `tlapm MutexProofs.tla`.

## 1. The system

| Component | Source | State it keeps | Operations | What is hard | What makes it correct |
|---|---|---|---|---|---|
| Futex | `xlibc/base/futex.c` | the host's queue of parked threads | `base_futex_wait`, `_signal`, `_broadcast` | compare-and-sleep is atomic, everything around it is not; spurious ends | a thread sleeps only if the word still has the value it named |
| Mutex | `xlibc/thread_impl.c` | one word, 0 / 1 / 2 | `mtx_lock`, `mtx_trylock`, `mtx_unlock` | spinning lockers, an unlocker that frees the word and then hopes somebody else takes over its duty to wake | one owner; no parked thread is forgotten; a free mutex that is waited for is taken |
| Condition variable | `xlibc/thread_impl.c` | a sequence number, the mutex it is bound to | `cnd_wait`, `cnd_timedwait`, `cnd_signal`, `cnd_broadcast` | the window between the waiter's unlock and its sleep; timeouts; the relock | a wake-up call reaches the threads blocked when it began; released waiters return |
| Once, threads | `xlibc/libc.c` | a flag | `call_once`, `thrd_create` | second callers while the first is inside | the function has been executed when `call_once` returns |
| Emulated TLS | `xlibc/emutls.c` | a number per variable, a counter, an array of slots per thread | `__emutls_get_address`, the key's destructor | double-checked numbering, arrays that move | one slot per variable, for ever; slots lie in the array; an object stays the thread's until it exits, and is then freed |
| Loader | `xload/load_elf.c` | the vector of libraries, the link_map list, the C stack | load, link, init, `dlopen2`, fini, exit | recursion over cyclic dependencies while the vector moves; callbacks into user code that open more | every library loaded, linked, initialised and finalised once and in order; the load uses no stale pointer |
| xbuild | `xbuild/main.cpp` | `building`, `alreadyBuilt`, and the files with their times | `buildTarget`, `execTarget`, dependency files | commands that fail or die half way, edits meanwhile, equal times, cycles | dependencies first and once; a success leaves nothing stale; a second build does nothing |
| Processes | `xlibc/proc.c` | none | `base_proc_exec`, `base_proc_wait`, command lines for Windows | how a child's death is reported; quoting | a command that failed is seen to fail |
| Asynchronous loop | `xlibc/base/loop_impl.c` | the host's AIO context, one closure per write | `base_loop_create`, `base_fs_write_async`, `base_loop_run` | writes complete in any order, callbacks submit more, a submit is refused and nobody looks | one callback per write the host took, its closure alive until then |
| Exit handlers | `xlibc/libc.c` | an array that moves | `__cxa_atexit` and the destructor `fini` that runs it | handlers and destructors that register handlers while it is walked | every handler once and in order |
| Streams | `xlibc/fs.c`, `libc.c` | file offset, the `eof` of a `FILE`, the host's errno | `fopen` to `fclose` | short and interrupted transfers, an errno that a success does not reset | a reader that stops at the end has the whole file |
| Conversions | `xlibc/unicode.c`, `fs.c`, `qsort.c`, `libc.c`, `printf.c`, `proc.c` | none | UTF-8/16, paths, sorting, searching, `strto*`, `printf`, quoting | boundaries and overflow; pairs of functions that must agree | agreement with a reference definition, or with each other |
| Symbols | `xload/load_elf.c` | none | `findSymbol`, `verneedstr`, `lookup` | versions name a file, hash chains name an entry | a relocation gets the symbol its version names |
| xgui on Wayland | `xgui/wayland/*.c` | globals bound so far, size, buffers | registry, configure, ping, close | the compositor's queue of events against the client's of requests | no request is a protocol error; what is seen has the size last agreed on |
| distx.py | `distx.py` | files on disk | expand, download, run | the scheme of variables it shares with xbuild | each expands a template as it is meant to |

How they meet. Every access of a thread-local variable, `errno` included, runs
emulated TLS, which uses `call_once` and the mutex; the condition variable unlocks
and locks the mutex inside a wait; both park through the futex. The loader calls
constructors, `main` and destructors, and these call back into `dlopen2` and
`exit2`. xbuild runs its commands through the process functions and learns
how they ended from the exit byte alone; the rest passes through the file system.
The destructor that runs the exit handlers is one of those `fini_libs` calls, so that
destructors of other libraries come before and after it. Paths of streams go through the
conversions, arguments of processes through the quoting.

The hazards, each with its line and the properties that watch it, are in
`PROJECT.json` under `hazards`.

## 2. Modules and code

Three module layers: a component (`Mutex`, `CondVar`, ...), its instance for TLC
(`MC...` with one or more `.cfg`), and its theorems (`...Proofs`). `MCLibraries` is the instance for
the parts of xlibc and xgui that share no state: its variable `part` picks one, and the others stand still. `Mutex` stands
over `Futex` (by INSTANCE); `CondVar` and `EmuTls` EXTEND `Mutex`, so that the mutex
they use is the one that is checked and proved by itself, step for step.
`AbstractMutex` is what a mutex promises: a set of owners of at most one member, a
set of waiters, and that a mutex which stays free while somebody waits is taken. It does not promise
who takes it: newcomers may overtake a sleeper for ever. The map in `PROJECT.json` gives the lines of every definition.

**Futex.** A word and the set of threads parked on it. A wait blocks if the
word has the expected value, returns at once if not, and may end for no reason, which
covers signals, timeouts and the spurious returns of the host. A wake-up takes any sleeper.

**Mutex.** `pc` says where in `mtx_lock` or `mtx_unlock` a thread is; each atomic
access of the C code is one action, and only those. The plain read of `*m` at the
head of `mtx_unlock` is a step of its own. `LockSpins` and `UnlockSpins` are the 100 and
200 turns of the loops. Any thread may call; only the owner unlocks.

**CondVar.** `op` and `stage` place a thread in one of the four calls. `saved`
is the local `seq` of a wait, `c_m` the binding to a mutex, which starts unbound or bound to
another. A wait unlocks with Mutex's own actions and locks
again with `LockExchange`; a timed wait makes a single exchange. The variable `due`
is history: the threads that were blocked when a wake-up call began and still are.

**EmuTls.** `at` places a thread in `__emutls_get_address`. The slot numbers
are read once outside and once under the mutex; taking a number and storing it are
separate steps, so that a mutex that failed would show. `once` and `keyCreated` are
the two ends of `call_once(emutls_init)`. `EarlySpawn` says whether threads may
be created before the first access is over. Each thread has its array: `size` is what the code
stores in it and `data` the words of its memory, which `realloc` moves with their contents to one of the new length
whose other words are garbage until `memset` has cleared them. A word is null, garbage or
an object, numbered by the order in which the thread allocated them (`made`). `handed` is history: the addresses the
thread was ever given for a variable.

**Loader.** The C call stack is a variable of frames: function, library, the generation of
the vector its pointer was taken from, loop position. `gen` counts how often the
vector moved, so a pointer is stale exactly when its generation is not `gen`. Files are
chosen at the start: a DT_NEEDED list and whether there is a DT_SONAME. What the load itself does with its pointers is checked to be
right. `init_lib`, `fini_libs` and `main` do read through a stale one when user code has opened libraries and the vector moved:
that is undefined, and the model has both outcomes, the freed block that still holds what it held, so that the code goes on, and
`DanglingRead`, after which `status` is "undefined" and nothing more is said. The safety properties hold in all states before that.

**XBuild.** `stack` is the recursion of `buildTarget`, `job` the loop over the commands.
Files have a time and no contents; `outdated` is history and says of which targets the file is not the
work of one good run on what is there now, `unseen` which of those their times
do not give away. A command ends with exit code 0, with another, or by a signal; whenever
it is not the good end of the last command it may have left its files in any state.
`ExitCode` is what `base_proc_wait` makes of it. The user edits and removes
files at any time, and time may stand still between two writes.

**AtExit.** The array is a function on `1 .. at_exit_size`; moving it copies `at_exit_cnt`
entries and leaves garbage behind them. `phase` follows `fini_libs`: destructors of libraries before xlibc,
`fini` with its index `i`, destructors after it. Whatever runs may register. `registered` and `ran` are history.

**AsyncLoop.** A write is with the host (`inFlight`), completed (`ring`), in its callback (`current`)
or answered. `io_submit` may refuse and `io_getevents` may be interrupted, both unnoticed by the
code. The program is in `main`, inside `base_loop_run` or in a callback, and leaves only by `exit`.

**Streams.** One `FILE` over one file on the host. Bytes are their positions; a read returns fewer than asked
for, or fails; another program lets the file grow. `hostErrno` is the host's errno, zero or not, which only failures
write. `seen` is history: what a program that does nothing but read has.

**Wayland.** Client and compositor with a queue each way. The compositor follows the rules in the comments of
the two protocol headers: it proposes sizes, pings and closes when it likes, and puts `error` where a request breaks
them. Shared memory may be refused, and the connection lost.

**Text** and the modules under it hold algorithms without state: `Unicode`, `CmdLine`, `Paths`,
`Numbers`, `Printf`, `Sort`, `Symbols`, and over it **Structures** with `Expand`, whose
RECURSIVE operators are kept apart so that `Text` can be reasoned about. `Give` picks one input of one kind, and a property per kind compares what
the code computes with a definition of what it is for. Loops are iterations of a turn
on the locals (`Iterate`) or folds; in `Unicode` and `CmdLine` each loop of the C code is one turn (`Utf8to16Turn`, `CountTurn`, ...) on `Locals`,
where a length function and the conversion it sizes differ in what they add up. What the code walks as bytes is a sequence of the units the algorithm
tells apart: code points and bytes in `Unicode`, components in `Paths`, digits in `Numbers`, conversions and
their arguments in `Printf`, names with a hash value in `Symbols`, names of variables in `Expand`. Integers wrap around:
`Half` is half the range of `long` in `Numbers`, and `HalfOf` that of each modifier in `Printf`, where `%ld` prints what `strtol` reads.

## 3. Runs

| Run | Question | Bounds, and why they are enough |
|---|---|---|
| `mutex` | one owner, no lost wake-up, abstract mutex implemented, hand-over | 3 threads: owner, newcomer and sleeper are the roles the code distinguishes; 2 turns per loop give a first, a next and a last turn |
| `condvar_safety` | no wake-up misses the threads it was due to; the mutex stays a mutex | 3 threads, 7 calls: two waiters and two wake-up calls, or a timed wait against a signal and a new owner; `SeqMod` 6 lets the sequence number wrap |
| `condvar_liveness` | a released waiter comes back | 2 threads without symmetry, under fairness |
| `emutls` | one number per variable, slots in the array, objects kept while it moves and all found at the end | 3 threads, 2 variables, arrays rounded to 3 words, so that the second variable outgrows the first array; threads exit and their ids come again |
| `emutls_early` | violation: `call_once` lets a second caller through early | 2 threads |
| `loader` | libraries loaded, linked, initialised, finalised once and in order; pointers current | an executable and two libraries with every dependency list between them, cycles included; a vector of 2, so that it moves at the third; 2 opens from any user code |
| `loader_soname` | violation: a library without a soname passes its check | the same files |
| `xbuild` | dependencies first and once; success leaves nothing stale; second build idle | chain, diamond, cycle, undefined target, a target named "target"; the declarations of the repository's own `xbuild.json` files and two others; 3 invocations, 1 edit, 2 clock ticks: failure, repair and an idle build fit |
| `xbuild_cycle` | violation: a cycle is not reported | the same projects |
| `xbuild_killed` | violation: a killed command passes for done | the same projects |
| `libraries` | exit handlers, asynchronous writes, a stream, a window, and every algorithm of `Text` and `Structures` | a first array of 1, so that it moves twice within 4 handlers; 3 writes, so that two are pending while one is answered; a file of 3 bytes read by 2; 3 configure events, of which two may be under way; for texts every code point at which a length changes; for command lines the path of the loader with and without backslashes and arguments with runs of backslashes before quotes, at the end and elsewhere; for paths a buffer of 20 characters, so that names, slashes and the 0 meet its end; numbers of 7 bits with texts of up to nine digits, so that every kind of overflow occurs; `int` of 5 bits for printing; arrays of up to 5 elements; two libraries with two symbols and colliding hashes; keys with two variables of two values, one variable of none |
| `stream_eof` | violation: the end of a file is not reported | 2 bytes, 1 failure |

**Properties**, in the words of the modules' comments:

- `MutualExclusion` ties the word to the owners, in both directions. `NoLostWakeup`:
  while a thread is parked the word is 2 or somebody is responsible for
  the sleepers. `ImplementsMutex` and `HandOver` are the abstract mutex as
  a PROPERTY, under the mapping owners = threads between the winning access and the
  freeing one, waiting = threads in `mtx_lock`.
- `SignalWakesOne`, `BroadcastWakesAll`: what a wake-up call owes to those blocked when
  it began. `ReleasedStaysReleased`: a waiter once released does not fall asleep in the
  same wait. It is true while fewer than `SeqMod` wake-ups fit into the window: of the
  seven calls one locks and one waits, which leaves five wake-ups against `SeqMod` 6. In the
  code the width is 2^32. `ReleasedReturns`: released waiters come back.
- `UniqueIndex`, `IndexIsFinal`, `SlotsInArray` (the size stored is that of the memory, and the slots lie in it),
  `ObjectsSurviveGrowth` (a thread is given one object per variable until it exits, never another's and never what the heap
  held) and `ExitFreesObjects` (what it finds in its slots at its end is all it allocated, once) for emulated TLS.
- `LoadedOnce`, `LoadPointersCurrent`, `SafeWithinVector` (the vector
  is not written past its end, and what is kept across user code is good as long as it never moved; beyond that the code is wrong), `LinkedBeforeRun`, `DebuggerSeesAll`,
  `DependenciesFirst`, `MainAfterInit`, `OnceEach` for the loader.
- `DependenciesBuiltOnce`; `SuccessIsFresh`, with the three exceptions that modification times cannot
  show named in its comment and tracked by `unseen`; `NothingToDo`.
- `HandlersRunOnce`: what `fini` has called is what was registered before its end, in order.
  `AnsweredOnce` and `WritesAnswered`: the safety and the liveness of asynchronous writes. `ReaderComplete`: `feof` never holds early.
  `NoProtocolError` and `SizeFollowsConfigure`: the window against any order of events.
- `ConversionsFit` (to Windows an allocation computed by a length function is filled and never passed, for any bytes; back
  from Windows for ASCII), `ArgumentsArrive` (Windows splits a command line into as many arguments as were given; the path of the loader, which has
  backslashes, arrives with them doubled, the others as they were where their backslashes are before quotes or at the end), `PathMeaning` (the
  host is asked for what the path means, or for nothing: what is refused and what goes past the buffer is told by the length), `NumbersExact`,
  `PrintedRight` (printed numbers are read back; buffers are handed on full), `SortedAndFound`, `SymbolsBound`, `TemplatesExpanded` (xbuild's expansion in two shared
  maps gives a template its meaning, and distx.py's in tables of its own the same but for keys, in which it writes
  a variable as a list). The comment of each names the inputs for which
  the code does otherwise, and the formula excludes exactly those.

Each component that theorems are about has one type invariant. They are proved (section 4) and left out of the
runs. Deadlock is checked in the mutex and emulated
TLS runs. It is off where the system ends: the calls of the condition variable
are bounded, the loader's process exits, xbuild's invocations are bounded, and of the `libraries` each comes to an end.

**Fairness.** `FairSpec` and `CFairSpec` are weakly fair in the steps inside a call:
the host's scheduler runs every runnable thread, and a critical section ends. Nothing
obliges a client to call, a timeout to expire or an interruption to come. `HandOver` is the
abstract mutex's own weak fairness: a mutex that stays free while threads wait for it is
taken by one of them. It says nothing for a single waiter, since the code lets newcomers overtake it.
`ReleasedReturns` names a single waiter, and holds there because the calls are bounded.
`AsyncFairness`, for `WritesAnswered`: the host completes what it took, `io_getevents` hands out what is
completed (interruptions come, but not for ever), and a callback returns or exits. Nothing obliges a submit to be accepted.

## 4. Proofs

The theorems hold for every set of threads, all spin counts, every width of the
sequence number above 1, files and windows of any number and size, and so on. They use the assumptions named in the
component modules (`SpinsAssumption`, `CondAssumption`, `EmuTlsAssumption`, `LoaderAssumption`, `XBuildAssumption`,
`AtExitAssumption`, `StreamsAssumption`, `WaylandAssumption`, `PathsAssumption`, `SymbolsAssumption`,
`NumbersAssumption`, `NumberInputsAssumption`, `SortAssumption`). They say no more than that
bounds are numbers and that files, projects and names have the shape they have. `RelocationsAssumption` is what a linker
guarantees: hash tables, chains and version records fit together, and no two libraries have the same soname.
`PathInputsAssumption` says that paths are sequences of components, `TextsAssumption`, `MalformedAssumption` and `CommandLinesAssumption` that
strings end at their first 0 and that text has no half of a surrogate pair. `ArraysAssumption` keeps arrays below half the address space, as no
allocator gives more (a pointer difference would not fit). `PrintInputsAssumption` gives each directive of a format the arguments it asks for, of their
kind: otherwise the code reads what nobody passed. `PrintfAssumption` and `LongAssumption` say that no modifier has more room than `long`, for
`print_number` takes 64 bits, and `BufferSizesAssumption` that a buffer has room for a byte, since a size of 0 has no bound.

**MutexProofs.** `TypeOK` is inductive (`TypeCorrectStep`). The word changes between zero and
non-zero in two ways only, and `OwnerSteps` says so once: a step leaves owners and
zero-ness alone, or takes a free mutex, or gives it up. `MutualExclusionHolds` follows from
that alone (`ExclusionStep`). `NoLostWakeupHolds`: a step that unmarks the word or removes a
responsible thread makes its own thread or the woken one responsible
(`CoveredStep`). `MutexImplementsAbstract`: `RefinementStep` maps each action to one of the
abstract mutex or to a stutter. The lemmas are about any state and step, not
about `Spec`, so that the other components use them for the steps they share.

**CondProofs.** `CInv` = `CTypeOK` plus the places of waiters: whoever is asleep, or about to
make the one exchange of a timed wait, is outside of `mtx_lock`, and past `bind` the condition variable is
bound to the mutex. `MutexSteps` shows that every step of the condition variable is a step of
the mutex, or leaves it alone, or is one of the two re-entries (`Reenters`). With that the
mutex theorems carry over: `CondTypeCorrect`, `CondMutualExclusion`, `CondNoLostWakeup`, `CondImplementsMutex`.
`BroadcastHolds` and `SignalHolds` rest on `DueInv`: who is due is blocked, and once the
sequence number was advanced (`SeqMoves`: it is then a different one) whoever is still blocked
is parked, where the futex call finds him. `ReleasedHolds` counts: while anyone waits, two of the calls are spent on
it, the lock and the wait, so that the wake-ups made and the calls left cannot bring the number round to the one that was read
(`Counted`, `SeenNumbers`). It is a theorem for `MaxCalls <= SeqMod + 1`, and that bound is sharp: one call more, and the
number can come back, in the code after 2^32 wake-ups within one wait.

**EmuTlsProofs.** Under `~EarlySpawn`: `EInv` = types, places (who is where in the mutex),
`OneThreadInits` (before the key exists there is one thread, after it the once flag is set),
`MutualExclusion`, and `Numbers` (a thread about to store holds the next number, and for a
variable that has none). The mutual exclusion of the mutex is what makes `Numbers`
inductive: two threads between taking and storing a number would break it. `UniqueIndexHolds` and
`IndexIsFinalHolds` follow. Without the assumption the results are false in the code: the run `emutls_early` shows how it begins.
`EmuTlsTypeCorrect` adds that no more numbers are given out than there are variables, by counting (`CountStep`).

`Arrays` adds to `EInv`, for each thread: its array has as many words as the size stored says, and is `Tidy`, which
is that every word is null or an object of the thread, that no object is in two words and none is nowhere; and what the
thread was handed for a variable is in the variable's slot and nothing else. `Moved` shows that an array moved by `realloc` and cleared from its old size
on is tidy when it was, `Filled` that a new object in a null word keeps it so; the arithmetic of rounding up is `RoundUp` and `ArrayHolds`.
`SlotsInArrayHolds`, `ObjectsSurviveHolds` and `ExitFreesHolds` follow. All three assume `~EarlySpawn`, too: the slots of two variables
are different because their numbers are.

**LoaderProofs.** For any files with any dependency lists, any first size of the vector and any number of opens.
`LoaderInv` says of the call stack which function calls which (`Shape`), that a load calls
nothing but loads (`LoadsOnTop`) and `fini_libs` nothing but destructors and what they open (`FiniOnTop`); that the pointer of the innermost load or
open is current (`Current`); that paths are distinct; and, for each library, that all it needs is loaded or
a load of it is under way that has come to some position of its list (`Loading`). The last is what `LinkedBeforeRun` needs and what a
cycle makes difficult: the dependency that is met a second time is loaded but its own load is not over. The proof has two
layers. First, every action is a *move* (`Stepping`): what it does to the stack (`Turn`, `TurnPush`, `Push`, `PushTwo`, `Pop`,
`PopReturn`, `Restart`) and to the vector (`Quiet`, `MarksOnly`, `Extended`), where sequences are taken apart once
and for all. Then each conjunct is kept by every move. `LoaderTypeCorrect`, `EachLoadedOnce`, `LoadingPointersCurrent`, `SafeUntilGrown`
and `CodeRunsLinked` follow. Three more invariants stand on `LoaderInv` and the same moves:

- `OnceInv` adds that at most one call of `init_lib` for a library is under way, and a
  library that was started but not constructed has one that has not passed its constructor (`Initialised`); that `init_libs` has started all it
  passed (`Passed`); and that `fini_libs` was never called, or is under way and has run exactly the destructors before its position, or
  is over (`Ended`). `ConstructedAndDestroyedOnce` and `MainComesAfterInit` follow.
- `DebugInv` adds that the link_map list holds exactly the libraries whose load is over, each once, and that one that is not in it has its load on the
  stack (`Listed`). `DebuggerAlwaysSees` follows, because user code never runs on top of a load.
- `OrderInv` adds to `OnceInv` that a call of `init_lib` under another one is for something that depends on what the upper is for (`Reaching`)
  and that whatever a call has passed in its list is started (`Begun`). A dependency that is started but not constructed therefore has a call
  below the one that now runs the constructor, and depends on it in turn: `ConstructedInOrder`. Dependence is the least closed set
  (`Reaches`), which makes its transitivity a fact about sets and spares an induction.

**XBuildProofs.** For any projects, cycles and targets named "target" included, and any numbers of builds, edits and
failures. `CallInv`: each call was made for the dependency its caller is at (`Chain`), what a caller has left behind is built (`Behind`),
a target that is being built is not built (`Unbuilt`), and what is built has all its dependencies built (`Closed`).
`DependenciesBuiltOnceHolds` is the case of a target at the end of its list.

`SuccessIsFreshHolds` rests on `TimesInv`: a target that is outdated, and not for a reason that times cannot show, has an
output that is missing or older than something xbuild looks at (`StaleShows`); a good run leaves the dependency
file it is to leave (`Traces`), and the job under way is on its way to that (`Progress`). `Fresh`, what is built in this invocation is the work
of good runs, is then kept when `execTarget` finds nothing to do. `NothingToDoHolds` adds that the
file a job has just written is the newest of all (`Newest`), so that what is built is up to date as xbuild sees it (`BuiltCurrent`), and that
after a success all the goal needs stays so (`Settled`). The proofs put two conditions into the properties that no
run had asked for: xbuild vouches for a target only if it declares no output that another target makes (`Declared`), and it
stays idle only if everything it comes to can be seen to be up to date, not the goal alone (`NothingToDo`).

**LibraryProofs.** `AtExitInv`: the first `at_exit_cnt` entries are what was registered, also after a move (`RoomForOne`), and what
`fini` has called is a beginning of it, as long as its index says. `HandlersRunOnceHolds` follows at the end of the walk.
`AsyncInv`: a write is with the host, completed, in its callback, or answered and freed, never two of these (`OnePlace`).
`AnsweredOnceHolds` follows. `StreamInv`: a program that only reads has exactly what lies before the offset (`Passing`), and a
read delivers nothing only at the end (`DeliveredFits`). `ReaderCompleteHolds` follows.

For the window the invariant relates the two queues and the compositor's view: serials that are not acknowledged are under way
once each and in order, in either queue (`Serials`); buffers that are made and not seen yet are under way in the order of their
numbers (`Creates`); a buffer is attached right behind its creation and committed right behind that (`Attaches`); one that is released or destroyed
is not on the screen and will not be put there (`Releases`); the size the client has is the one of some configure event, and every later one is
under way behind its size (`Follows`); and no buffer comes before an acknowledgement (`Configured`). Each is stated for any queues and servers, so that
the server's and the client's steps are lemmas about popping and pushing (`Acts`, `Displays`). `NoProtocolErrorHolds` and
`SizeFollowsConfigureHolds` follow.

**TextProofs.** The loops of the C code are recursive functions over their rounds, and what they compute is an induction. The
library's induction theorem takes a predicate as its parameter, which the provers cannot instantiate, so `SetInduction` is stated with the *set*
of numbers for which the claim holds and proved by the least counterexample (`Least`). `Recursion`, that such functions exist, is
then an induction of this kind, stated for a step that is a function.

- `SymbolsBoundHolds`: `lookup` begins at the last entry of the bucket (`WalkBegins`), each step goes down and passes no entry of
  the name (`WalkGoesOn`), hence `LookupFinds`. A version is of one file, so `verneedstr` has no choice (`OneProvider`).
- `PathMeaningHolds`, for any limit of the buffer: what a path means and what `Clean` makes of it are both one component at a time (`MeaningUnfolds`,
  `CleanUnfolds`). Each round of the rewriting loop keeps `OnTheWay`: what is written so far means what the components read so far do, and
  where the next is "..", it ends in a name that can be taken away. The characters written never pass those read, so that a path that has
  room as it is given is not refused, and a round that writes no slash of its own ends a character before the buffer does.
- `SortedAndFoundHolds`: `Stages` and `StagesHold` are the induction over the turns of a loop whose invariant is given as the set of states
  after each turn. `GatherPartly` is the turn of Lomuto's loop and `PartitionSplits` its outcome; `QsortSorts` is an induction over the
  length, for which `SeqRecursion` first shows that a function that calls itself on shorter sequences exists. For `bsearch` the
  invariant (`Between`) says that the key is nowhere outside of the bounds, or that the upper bound has wrapped around, and each turn leaves
  out an element at least (`SearchTurn`); that twice the length is below `Size` is what makes the wrapped search read outside at once.
- `NumbersExactHolds`, for integers of any size that holds a digit. `strtol` lets the product wrap and then divides: `OverflowFound` shows that the
  division cannot give the previous result back, because the wrapped product is smaller than the true one by at least the whole range,
  which is larger than any digit. `wcstoull` asks for room before it multiplies. Each loop keeps
  what it has parsed (`Parsed`, `Roomed`): the number itself or, from the first overflow on, that the number has no room.
  `wcstoll` and `atoi` wrap at every digit, which is the same as wrapping once at the end (`WrappingWraps`). `StrtolReads` and `WcstollReads`
  compare the digits they take after a prefix with those of the definition.
**StringProofs.** More of the same kind, from the lemmas of `TextProofs`.

- `ConversionsFitHolds`, for strings of any length. That on the way to Windows the length function counts what the conversion writes, on any bytes,
  malformed ones included, is an induction over two loops in lockstep (`IteratePair`, `Agree`). For text, `FlattenSeq` of the encoded characters is laid out so that
  the n-th begins where the ones before it end (`Laid`, `LaidOut`), and decoding there gives the character back (`Utf8Decodes`, `Utf16Decodes`,
  over all code points). The loop is then after k turns where k characters end (`IterateReaches`). Back from Windows, `Utf16to8Ascii` shows that the swapped
  increments do no harm where both are 1, which is all the theorem says of the bound there, and `ThereAndBack` puts the two ways together.
- `ArgumentsArriveHolds`, for any number of arguments of any length. `EscapeRenders`: what the loop of `wincmd` writes for an argument
  is its units with a backslash before each that needs one (`Escapes`), and what `wincmdlen` counts is its length; it also keeps that a
  backslash which is not at the end of its run is the work of a backslash or quote in the text (`Runs`). `LineIsLined` lays the line out, one
  `Block` per argument. The parser jumps over runs of backslashes: `Run` is defined downwards, `RunIs` finds its value, and
  `RunInBlock` what it is behind the j-th unit, 2m at the closing quote and before a unit that is not escaped, 2m + 1 before a quote. Its
  invariant (`ParsedTo`) says of which argument it is where, and that what it has read is a beginning of the units, unless backslashes are
  doubled there; every turn goes ahead or is at the end (`Ahead`). The first argument Windows reads by a simpler rule, up to
  the next quote: it has the escaped units as they are (`InFirst`, `PastQuote`), that is each backslash twice when there are no quotes
  (`EscapesTwice`). A path of a file on Windows has none.
- `PrintedRightHolds`, for formats of any length, any width and integers of any size. The loop that makes the digits keeps that they and what is left of the
  number are the number, and ends, since a number that is divided gets smaller (`DigitTurned`, `DigitsMake`); there is no 0 in front but
  that of 0 itself (`Bare`). `MeantIs` shows that the value C gives to an argument is the only one of the range that differs from it by a multiple of
  the type's numbers, so it is the one the code takes. `Prints` splits what is printed into a padding and a body, `PrintsNumber`
  reads the padding as C wants it, and `ReadBack` gives the body to `strtol`, where `StrtolExact` is at hand. `PrintsInOrder` is an induction over the
  directives with `LaidOut` for the list of all arguments: the k-th directive finds its own there (`PrintedSame`). `CutUp` says
  that a sequence cut into pieces is whole again when they are joined, for the buffers of `vfprintf`.

**Model-checked only.** The liveness properties (`HandOver`, `ReleasedReturns`, `WritesAnswered`), for fairness is beyond
the prover. `TemplatesExpanded`, which is about RECURSIVE operators, for which tlapm has no SMT.

## 5. What the code does that its text does not say

Shown by a run that ends in a violation:

- `call_once` returns to second callers "Another thread has already executed the function"
  (`libc.c:844`) while the function is still running. Two threads that first touch a
  thread-local variable together lock a mutex that `mtx_init` then zeroes.
  `test_programs/testc_tls.c` creates its threads before any access.
- "library %s has no soname" (`load_elf.c:538`) tests a field that is always set.
- "circular dependency on" (`main.cpp:227`) looks up the name `"target"`: cycles
  exhaust the stack, and a target of that name makes an acyclic build fail.
- "exec failed" (`main.cpp:212`) is not reported for a command that dies by a signal, because
  `base_proc_wait` takes the exit byte of any status (`proc.c:254`); a child whose `execve` fails dies
  by a trap and is one.
- A read "returns -1 == BASE_FS_EOF on if eof was reached" (`base/fs.h:30-36`) only as long as no call of the
  host has failed: `fs.c:190` looks at an errno nobody resets. A program that tries to open a file that is not there, and then reads
  another until `feof`, never ends.

Part of the models, and not contradicted by any text:

- `cnd_timedwait` reports a timeout without owning the mutex when another thread holds it, even after a
  genuine signal (`thread_impl.c:204`).
- `c->m` is bound at the first wait and never released.
- `mtx_unlock` touches the word up to 200 times after freeing it.
- Handles of `xload_open`, the frames of `init_lib` and `fini_libs` and the pointer of `main` dangle once the vector has moved, from the ninth library on, and are
  read all the same (`DanglingRead`); `dlopen2` runs no
  constructors though `fini_libs` runs the destructors; `set_basedir` leaves its copy
  without a final NUL (`load_elf.c:294-295`).
- A compiler that fails after writing its file leaves xbuild with "already built"; one that leaves a
  dependency file without a colon stops every later invocation.
- `base_loop_run` has no end: `loop.h:10-12` says that it returns when there is no more to do, but it waits for ever. `base_loop_create` reports
  success with `*loop_ptr` unset when `epoll_create` fails. A write that `io_submit` refuses is accepted and never answered.
- `exit` in a handler starts `fini` again from the first; handlers that destructors behind xlibc's register never run.
- `fopen(.., "w")` does not truncate, `"a"` is unknown (`libc.c:657` tests "w+" twice); `eof` survives `fseek`; `fseek` returns
  the position instead of 0; the result of `lseek` is cut to an int (`fs.c:138`).
- Paths: a ".." behind another, behind "." or behind a doubled slash takes away the wrong component; "/" and "/a/.." become the empty path;
  "/_zwolf" behind a doubled slash is not seen, and "/_zwolfish" is taken for it. An installation whose own path begins so is mapped twice.
  A path of more than 4197 characters may be refused with EINVAL (`fs.c:294`, `321`), and one with many "." or doubled slashes can take
  its slashes past the end of the buffer of 4200 bytes, which only names are checked against (`fs.c:330-333`).
- `utf16to8` advances by the lengths of the wrong side (`unicode.c:186-187`): only ASCII survives, and for
  other text it can step over the 0 and run on behind the string. `wincmd` doubles every backslash, but
  Windows halves only those before a quote: `C:\\dir` arrives for `C:\dir`.
- `strtol` and `strtoul` do not skip the "0x" of base 16; `wcstoll` and `wcstoull` do, but know no "0X". `printf` writes the zeros of a width before the minus sign, has garbage for the smallest
  `long`, ignores the width of `%s` and traps at conversions it does not know; `snprintf` of size 0 has no bound.
- `bsearch` reads far outside for a key below the first element and in an empty array (`libc.c:2794`).
- `lookup` takes the first entry of the name, whatever its version and whether it is defined; its index has 16 bits, so that in a file of
  more than 65535 symbols the walk of a chain may go astray.
- The window: without a listener for close the program aborts; a lost connection is polled for ever; a frame that could not be allocated is attached
  as the null buffer, which unmaps the window.
- xbuild leaves a variable of several values in braces where it stands outside an array, where distx.py ends with a KeyError; and only distx.py
  reads the "env" of its file into the variables. distx.py formats keys with lists of one value (`distx.py:43-45`), so that the keys
  of "env" in `xbuild/distx-build.json:20-22` become `['llvm']-['x86_64']` and the like.
- `xbuild --sh mkdir` ends with 0 when it could not make the directory.

## 6. Plan

The order was that of importance; a tick marks what is there.

1. ✔ `Futex`, `AbstractMutex`, `Mutex`, `MutexProofs`
2. ✔ `CondVar`, `CondProofs` (composes the mutex)
3. ✔ `EmuTls`, `EmuTlsProofs` (composes the mutex and `call_once`)
4. ✔ `Loader`, `LoaderProofs`
5. ✔ `XBuild` with the process functions, `XBuildProofs`
6. ✔ `AtExit`, `AsyncLoop`, `Streams`, `LibraryProofs`
7. ✔ Algorithms over bounded inputs: `Unicode`, `CmdLine`, `Paths`, `Numbers`, `Printf`, `Sort`, `Symbols` in `Text`; `Expand` in
   `Structures`; `TextProofs` for paths, symbols, numbers, sorting and searching; `StringProofs` for conversions, command
   lines and printing
8. ✔ `Wayland`, with its theorems in `LibraryProofs`
9. Open: a life-time for the mutex (an owner that destroys it while the previous one is in its hand-over loop); two threads
   in `dlopen2`, which takes no lock; a condition variable as an abstract specification of its own; `Expand` without RECURSIVE
   operators, for a theorem about `TemplatesExpanded`.

## 7. What is not modelled

- Relocation arithmetic, program headers and the mapping of segments: straight-line computation over
  well-formed files. The loader's view of a file is its dependencies and, in `Symbols`, its symbols.
- `dlclose2` does nothing; `dlsym2` is a `lookup`; threads in the loader, which takes no lock.
- Durations: a timed wait may end at any time, so no length is judged.
- Allocation failure, which aborts or is unchecked throughout.
- Opening a library of the host (`ZWOLF_OPEN_EXTERNAL`): it leaves the loader's state as it was.
- A failing `waitpid`: xbuild installs no signal handler that could interrupt it.
- The JSON syntax and the checks of types in `xbuild.json`, each of which ends the program; the downloads of `distx.py`,
  one after the other, and its commands, whose exit status it ignores.
- A second `exit` while handlers run, which C leaves undefined. `vasprintf`, which uses its `va_list` twice.
- `stat`, `realpath`, listing and renaming of directories, memory: calls of the host with little logic around them.
- Strings, `strtod`, `mktime` and `strftime`, arithmetic, byte order, `setjmp`: pure and short, or floating point and assembly. (`mktime` counts
  the days of the months so that it is right in January only, `time.c:211-253`.)
- Windows branches, except where they decide what the common code sees or a conversion is for them.
- The dispatch of xgui and its Windows window: a table of functions, and a procedure over the host's messages without state of its own.
- The JSON parser, `elf.h`, the Wayland headers and the openlibm, llvm and qt recipes: vendored or generated. About half of the
  repository's lines are of this kind: 6110 in `wayland-client-protocol.h`, 4164 in `elf.h`, 2280 in `xdg-shell-client-protocol.h`, and the parser twice;
  test programs and declarations are most of the rest. That is why the mapped lines are a small share of all lines and a large one
  of `thread_impl.c`, `load_elf.c`, `loop_impl.c`, `unicode.c`, `fs.c`, `printf.c`, `xgui_wayland.c` and `xbuild/main.cpp`.
