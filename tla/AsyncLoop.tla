----------------------------- MODULE AsyncLoop -----------------------------
(***************************************************************************)
(* The asynchronous writes of src/xlibc/base/loop_impl.c: base_loop_create,*)
(* base_fs_write_async and base_loop_run, over the host's io_setup,        *)
(* io_submit and io_getevents, in a program like                           *)
(* src/test_programs/testc_loop.c.  A closure is allocated for each write, *)
(* travels through the host as a number, is called and freed.              *)
(*                                                                         *)
(* The program is one thread; the host completes writes at any time and in *)
(* any order.  io_submit and io_getevents may fail, and nobody looks.      *)
(***************************************************************************)
EXTENDS Naturals, Sequences, SequencesExt

CONSTANT Writes      \* the writes the program may ask for

VARIABLES
  loop,       \* *loop_ptr: "none", "ready", or "unset" after a success that set nothing
  where,         \* "main", "wait" (inside io_getevents), "callback", "exited", "crashed"
  inFlight,   \* writes the host has taken
  ring,       \* completed writes that io_getevents has not handed out
  closures,   \* the closures allocated
  current     \* the write whose callback runs

\* History, for the properties.
VARIABLES
  asked,      \* writes base_fs_write_async returned 0 for
  answers     \* the callbacks made, in order

loopVars == <<loop, where, inFlight, ring, closures, current, asked, answers>>

AsyncInit ==
  /\ loop = "none" /\ where = "main"
  /\ inFlight = {} /\ ring = <<>> /\ closures = {} /\ current = {}
  /\ asked = {} /\ answers = <<>>
----------------------------------------------------------------------------
\* The program's own code runs: main or a callback.
Runs == where \in {"main", "callback"}

\* base_loop_create returns what io_setup returned, whatever epoll_create did.
LoopCreate ==
  /\ where = "main" /\ loop = "none"
  /\ \/ loop' = "ready" /\ UNCHANGED where      \* both succeed
     \/ loop' = "unset" /\ UNCHANGED where      \* epoll_create fails: 0, and *loop_ptr not set
     \/ where' = "exited" /\ UNCHANGED loop     \* io_setup fails: the program gives up
  /\ UNCHANGED <<inFlight, ring, closures, current, asked, answers>>

\* Whoever uses a loop that was never set dereferences a wild pointer.
UseUnset ==
  /\ Runs /\ loop = "unset"
  /\ where' = "crashed"
  /\ UNCHANGED <<loop, inFlight, ring, closures, current, asked, answers>>

\* base_fs_write_async: 0 is returned also when io_submit refused.
FsWriteAsync(w) ==
  /\ Runs /\ loop = "ready"
  /\ w \notin asked
  /\ closures' = closures \cup {w}
  /\ asked' = asked \cup {w}
  /\ \/ inFlight' = inFlight \cup {w}
     \/ UNCHANGED inFlight
  /\ UNCHANGED <<loop, where, ring, current, answers>>

\* base_loop_run: there is no way back.
LoopRun ==
  /\ where = "main" /\ loop = "ready"
  /\ where' = "wait"
  /\ UNCHANGED <<loop, inFlight, ring, closures, current, asked, answers>>

\* The host has carried out a write, or failed to (external).
Complete(w) ==
  /\ w \in inFlight
  /\ inFlight' = inFlight \ {w}
  /\ ring' = Append(ring, w)
  /\ UNCHANGED <<loop, where, closures, current, asked, answers>>

\* Mutant: the loop ends when it is interrupted.
InterruptedEnds ==
  /\ where = "wait"
  /\ where' = "main"
  /\ UNCHANGED <<loop, inFlight, ring, closures, current, asked, answers>>

\* read # 1: a signal, nothing happens.
Interrupted ==
  /\ where = "wait"
  /\ UNCHANGED loopVars

\* read = 1: one event, and its closure is called.
GetEvents ==
  /\ where = "wait" /\ ring # <<>>
  /\ ring' = Tail(ring)
  /\ current' = {Head(ring)}
  /\ where' = IF Head(ring) \in closures THEN "callback" ELSE "crashed"
  /\ answers' = Append(answers, Head(ring))
  /\ UNCHANGED <<loop, inFlight, closures, asked>>

\* Mutant: the closure is not freed.
CallbackReturnsKept ==
  /\ where = "callback"
  /\ current' = {}
  /\ where' = "wait"
  /\ UNCHANGED <<loop, inFlight, ring, closures, asked, answers>>

\* The callback returns: its closure is freed.
CallbackReturns ==
  /\ where = "callback"
  /\ closures' = closures \ current
  /\ current' = {}
  /\ where' = "wait"
  /\ UNCHANGED <<loop, inFlight, ring, asked, answers>>

\* exit, the only way out of base_loop_run.
AsyncExit ==
  /\ Runs
  /\ where' = "exited"
  /\ UNCHANGED <<loop, inFlight, ring, closures, current, asked, answers>>

Host == \E w \in Writes : Complete(w)
LoopStep == GetEvents \/ CallbackReturns

AsyncNext ==
  \/ LoopCreate \/ UseUnset \/ LoopRun \/ Interrupted
  \/ LoopStep \/ AsyncExit \/ Host
  \/ \E w \in Writes : FsWriteAsync(w)

\* The host completes what it has taken, io_getevents hands it out although
\* it may be interrupted, and callbacks return unless they exit.
AsyncFairness ==
  /\ \A w \in Writes : WF_loopVars(Complete(w))
  /\ WF_loopVars(GetEvents)
  /\ WF_loopVars(CallbackReturns)

AsyncSpec == AsyncInit /\ [][AsyncNext]_loopVars /\ AsyncFairness
----------------------------------------------------------------------------
AsyncTypeOK ==
  /\ loop \in {"none", "ready", "unset"}
  /\ where \in {"main", "wait", "callback", "exited", "crashed"}
  /\ inFlight \subseteq Writes /\ ring \in Seq(Writes)
  /\ closures \subseteq Writes /\ current \subseteq Writes
  /\ asked \subseteq Writes /\ answers \in Seq(Writes)

\* A write is answered at most once, and only while its closure is there;
\* closures are freed when answered, so that what is left at any time belongs
\* to writes the host still has, or refused (loop_impl.c:43-45, 64, 83).
AnsweredOnce ==
  /\ IsInjective(answers)
  /\ inFlight \cup ToSet(ring) \subseteq closures
  /\ ToSet(answers) \cap closures = current

\* Every write the host has taken is answered once the loop runs, in whatever
\* order writes complete and whatever the callbacks start, unless a callback
\* leaves the program (loop_impl.c:39-48).
WritesAnswered ==
  \A w \in Writes : w \in inFlight /\ where \in {"wait", "callback"} ~>
                      (\E k \in DOMAIN answers : answers[k] = w) \/ where = "exited"
============================================================================
