------------------------------- MODULE AtExit -------------------------------
(***************************************************************************)
(* The exit handlers of src/xlibc/libc.c: __cxa_atexit and the destructor  *)
(* fini that runs them.  fini is one of the destructors fini_libs of       *)
(* src/xload/load_elf.c calls in load order: the libraries loaded before   *)
(* xlibc have theirs first, the others after it.                           *)
(*                                                                         *)
(* Handlers, destructors and the program itself may register handlers      *)
(* while the list is walked.  The entries are a function on 1 .. size, so  *)
(* that what a move of the array does not copy is lost.                    *)
(***************************************************************************)
EXTENDS Naturals, Sequences

CONSTANTS
  Handlers,      \* what may be registered: a function with its argument
  FirstSize,     \* entries of the first array, 10 in the code
  MaxHandlers,   \* bound on the registrations explored
  Garbage        \* what malloc's memory holds

ASSUME AtExitAssumption ==
  FirstSize \in Nat \ {0} /\ MaxHandlers \in Nat /\ Garbage \notin Handlers

VARIABLES
  at_exit_entries,
  at_exit_cnt,
  at_exit_size,
  phase,     \* "main", then the walk of fini_libs: "before", "fini", "after", "exited"
  i,         \* index of fini
  calling    \* the entry that fini has called and that has not returned, or none

\* History, for the properties.
VARIABLES
  registered, \* everything passed to __cxa_atexit, in order
  ran,        \* everything fini has called
  inTime      \* how many were registered when fini came to its end

atExitVars == <<at_exit_entries, at_exit_cnt, at_exit_size, phase, i, calling,
                registered, ran, inTime>>
list == <<at_exit_entries, at_exit_cnt, at_exit_size, registered>>

AtExitInit ==
  /\ at_exit_entries = <<>> /\ at_exit_cnt = 0 /\ at_exit_size = 0
  /\ phase = "main" /\ i = 1 /\ calling = {}
  /\ registered = <<>> /\ ran = <<>> /\ inTime = 0
----------------------------------------------------------------------------
(* __cxa_atexit *)

\* An array of n entries of which the first k are copied from the old one.
Moved(n, k) == [e \in 1 .. n |-> IF e <= k THEN at_exit_entries[e] ELSE Garbage]

\* Mutant: the copy forgets the last entry.
RoomShortCopy ==
  IF at_exit_size = 0 THEN Moved(FirstSize, 0)
  ELSE IF at_exit_cnt >= at_exit_size THEN Moved(2 * at_exit_size, at_exit_cnt - 1)
  ELSE at_exit_entries

\* The array with room for one more entry.
Room ==
  IF at_exit_size = 0 THEN Moved(FirstSize, 0)
  ELSE IF at_exit_cnt >= at_exit_size THEN Moved(2 * at_exit_size, at_exit_cnt)
  ELSE at_exit_entries

\* Whatever runs, the program, a destructor or a handler, may register.
Registering == phase \in {"main", "before", "after"} \/ calling # {}

CxaAtExit(h) ==
  /\ Registering
  /\ Len(registered) < MaxHandlers
  /\ at_exit_entries' = [Room EXCEPT ![at_exit_cnt + 1] = h]
  /\ at_exit_size' = Len(Room)
  /\ at_exit_cnt' = at_exit_cnt + 1
  /\ registered' = Append(registered, h)
  /\ UNCHANGED <<phase, i, calling, ran, inTime>>
----------------------------------------------------------------------------
(* exit, fini_libs and fini *)

\* main returns or somebody calls exit: fini_libs begins.  A second exit, from
\* a handler or a destructor, is undefined in C and not modelled.
Exit ==
  /\ phase = "main"
  /\ phase' = "before"
  /\ UNCHANGED <<list, i, calling, ran, inTime>>

\* The destructors of the libraries before xlibc are through.
FiniStart ==
  /\ phase = "before"
  /\ phase' = "fini" /\ i' = 1
  /\ UNCHANGED <<list, calling, ran, inTime>>

FiniCall ==
  /\ phase = "fini" /\ calling = {}
  /\ i <= at_exit_cnt
  /\ calling' = {at_exit_entries[i]}
  /\ ran' = Append(ran, at_exit_entries[i])
  /\ UNCHANGED <<list, phase, i, inTime>>

HandlerReturns ==
  /\ calling # {}
  /\ calling' = {}
  /\ i' = i + 1
  /\ UNCHANGED <<list, phase, ran, inTime>>

FiniReturn ==
  /\ phase = "fini" /\ calling = {}
  /\ i > at_exit_cnt
  /\ phase' = "after"
  /\ inTime' = Len(registered)
  /\ UNCHANGED <<list, i, calling, ran>>

\* The destructors of the libraries after xlibc are through: exit of the host.
HostExit ==
  /\ phase = "after"
  /\ phase' = "exited"
  /\ UNCHANGED <<list, i, calling, ran, inTime>>

AtExitNext ==
  \/ \E h \in Handlers : CxaAtExit(h)
  \/ Exit \/ FiniStart \/ FiniCall \/ HandlerReturns \/ FiniReturn \/ HostExit

AtExitSpec == AtExitInit /\ [][AtExitNext]_atExitVars
----------------------------------------------------------------------------
AtExitTypeOK ==
  /\ at_exit_size \in Nat /\ at_exit_cnt \in 0 .. at_exit_size
  /\ at_exit_entries \in [1 .. at_exit_size -> Handlers \cup {Garbage}]
  /\ phase \in {"main", "before", "fini", "after", "exited"}
  /\ i \in Nat \ {0}
  /\ calling \subseteq Handlers \cup {Garbage} /\ (calling # {} => phase = "fini")
  /\ registered \in Seq(Handlers) /\ Len(registered) = at_exit_cnt
  /\ ran \in Seq(Handlers \cup {Garbage}) /\ inTime \in 0 .. Len(registered)

\* When the process exits, fini has called every handler that was registered
\* before it came to its end, those included that a handler registered, exactly
\* once, in the order of registration and never a word that no one wrote,
\* however often the array moved meanwhile (libc.c:1513-1519, 1529-1531).  Only
\* what a destructor behind xlibc's registers is never called.
HandlersRunOnce == phase \in {"after", "exited"} => ran = SubSeq(registered, 1, inTime)
============================================================================
