------------------------------- MODULE Loader -------------------------------
(***************************************************************************)
(* The loader of src/xload/load_elf.c: the vector of loaded libraries, the *)
(* recursive load of DT_NEEDED entries, linking, constructors, the         *)
(* destructors at exit, and xload_open / xload_exit called back from the   *)
(* code being loaded.  The C call stack is a variable, because the pointers*)
(* its frames hold into the vector are what can go wrong.                  *)
(*                                                                         *)
(* One thread runs.  A library is the path it is opened by; set_basedir    *)
(* makes its soname the end of that path, so the path stands for both.  Of *)
(* a file only its DT_NEEDED list and whether it has a DT_SONAME are kept; *)
(* every library is taken to have a constructor, a destructor and a symbol *)
(* to bind.  Opening a library of the system (ZWOLF_OPEN_EXTERNAL) changes *)
(* nothing here and is left out.                                           *)
(***************************************************************************)
EXTENDS Integers, Sequences, FiniteSets

CONSTANTS
  Libs,        \* the library files
  Exe,         \* the one named on the command line
  Disks,       \* what the files may hold: [Libs -> [needed, soname]]
  VecLength,   \* the first size of the vector, 8 in the code
  MaxOpens     \* bound on the calls of xload_open

ASSUME LoaderAssumption ==
  /\ Exe \in Libs
  /\ Disks \subseteq [Libs -> [needed : Seq(Libs), soname : BOOLEAN]]
  /\ VecLength \in Nat \ {0}
  /\ MaxOpens \in Nat

VARIABLES
  disk,       \* the files, one of Disks
  libs,       \* libs->libs[0 .. libs_count-1]
  capacity,   \* libs->vec_length
  gen,        \* how often the vector was moved
  stack,      \* the C call stack, innermost frame last
  handles,    \* what xload_open returned: an index, and the gen it is good for
  spliced,    \* our link_map list hangs on the system's _r_debug list
  linkMap,    \* global_libs: the paths in the order they were appended
  status,     \* "running", "exited", "error" or "undefined"
  opens       \* calls of xload_open so far

vars == <<disk, libs, capacity, gen, stack, handles, spliced, linkMap, status, opens>>

Loaded == {libs[i].path : i \in DOMAIN libs}
IndexOf(f) == CHOOSE i \in DOMAIN libs : libs[i].path = f
Needed(f) == disk[f].needed
Needs(f) == {Needed(f)[k] : k \in DOMAIN Needed(f)}

\* A frame of function fn works on library i through a pointer taken when the
\* vector was at generation g; k is the position of its loop.
Frame(fn, i, g) == [fn |-> fn, i |-> i, g |-> g, k |-> 1]

Top == stack[Len(stack)]
InFrame(fn) == status = "running" /\ stack # <<>> /\ Top.fn = fn
Below == SubSeq(stack, 1, Len(stack) - 1)
Advance == Append(Below, [Top EXCEPT !.k = @ + 1])
Self == libs[Top.i].path
User == {"ctor", "main", "dtor"}
InUser == \E fn \in User : InFrame(fn)

LInit ==
  /\ disk \in Disks
  /\ libs = <<[path |-> Exe, linked |-> FALSE, started |-> FALSE, inits |-> 0, finis |-> 0]>>
  /\ capacity = VecLength
  /\ gen = 0
  /\ stack = <<Frame("start", 1, 0), Frame("load", 1, 0)>>
  /\ handles = {}
  /\ spliced = FALSE
  /\ linkMap = <<>>
  /\ status = "running"
  /\ opens = 0
----------------------------------------------------------------------------
(* load_absolute *)

Fresh(f) == [path |-> f, linked |-> FALSE, started |-> FALSE, inits |-> 0, finis |-> 0]

\* Mutant: the vector moves one entry early.
AddLibEager(f) ==
  /\ libs' = Append(libs, Fresh(f))
  /\ IF Len(libs) + 1 >= capacity
       THEN capacity' = 2 * capacity /\ gen' = gen + 1
       ELSE UNCHANGED <<capacity, gen>>

\* Mutant: the vector moves one entry late.
AddLibLate(f) ==
  /\ libs' = Append(libs, Fresh(f))
  /\ IF Len(libs) > capacity
       THEN capacity' = 2 * capacity /\ gen' = gen + 1
       ELSE UNCHANGED <<capacity, gen>>

\* add_loaded_lib: a full vector is copied to one of twice the size and freed,
\* which leaves every pointer into it dangling.
AddLib(f) ==
  /\ libs' = Append(libs, Fresh(f))
  /\ IF Len(libs) >= capacity
       THEN capacity' = 2 * capacity /\ gen' = gen + 1
       ELSE UNCHANGED <<capacity, gen>>

\* Mutant: the path is compared only with the last library loaded.
FoundLastOnly(f) == libs[Len(libs)].path = f

\* The search of load_absolute for a library that is already there.
Found(f) == f \in Loaded

\* Mutant: a load that called load goes on with the pointer it had.
ReturnToStale(s, g) ==
  [s EXCEPT ![Len(s)].g = IF s[Len(s)].fn = "load" THEN @ ELSE g]

\* load_absolute returns a pointer of generation g to the frames s: a load
\* ignores it and reads `&libs->libs[lib_idx]' again, main and dlopen2 keep it.
ReturnTo(s, g) ==
  [s EXCEPT ![Len(s)].g = IF s[Len(s)].fn = "load" THEN gen ELSE g]

\* A call of load_absolute by the innermost of the frames s.
CallLoad(f, s) ==
  IF Found(f)
    THEN stack' = ReturnTo(s, gen) /\ UNCHANGED <<libs, capacity, gen>>
    ELSE AddLib(f) /\ stack' = Append(s, Frame("load", Len(libs) + 1, gen'))

\* The next DT_NEEDED entry; load() needs the base directory, which the first
\* library with a soname, the executable, has set.
LoadNeeded ==
  /\ InFrame("load")
  /\ Top.k <= Len(Needed(Self))
  /\ disk[Exe].soname
  /\ CallLoad(Needed(Self)[Top.k], Advance)
  /\ UNCHANGED <<disk, handles, spliced, linkMap, status, opens>>

\* All entries seen: the library joins the link_map list and load_absolute
\* returns.  The check for a soname before that looks at abs_path, always set.
LoadReturn ==
  /\ InFrame("load")
  /\ Top.k > Len(Needed(Self))
  /\ linkMap' = Append(linkMap, Self)
  /\ stack' = ReturnTo(Below, Top.g)
  /\ UNCHANGED <<disk, libs, capacity, gen, handles, spliced, status, opens>>

\* ERR: the file cannot be read or mapped, or there is no base directory; the
\* process exits and no destructor runs.  set_basedir leaves its copy without
\* a final NUL, so that what follows in memory may make any path unreadable.
LoadFails ==
  /\ InFrame("load")
  /\ status' = "error"
  /\ UNCHANGED <<disk, libs, capacity, gen, stack, handles, spliced, linkMap, opens>>
----------------------------------------------------------------------------
(* link, add_local_libs and the first half of main() *)

\* findSymbol gives up at the first library of the vector without a soname.
Linkable == \A f \in Loaded : disk[f].soname

\* link() of every library in the vector.
LinkAll == libs' = [i \in DOMAIN libs |-> [libs[i] EXCEPT !.linked = TRUE]]

LinkFails ==
  /\ InFrame("start") \/ InFrame("open")
  /\ ~Linkable
  /\ status' = "error"
  /\ UNCHANGED <<disk, libs, capacity, gen, stack, handles, spliced, linkMap, opens>>

\* main() of the loader links everything, shows the list to the debugger and
\* calls init_libs; its own pointer to the executable waits in the frame.
MainLink ==
  /\ InFrame("start")
  /\ Linkable
  /\ LinkAll
  /\ spliced' = TRUE
  /\ stack' = <<Frame("init_libs", 1, Top.g)>>
  /\ UNCHANGED <<disk, capacity, gen, handles, linkMap, status, opens>>
----------------------------------------------------------------------------
(* init_libs and init_lib *)

\* Mutant: init_started is tested and never set.
CallInitUnmarked(i, s) ==
  IF libs[i].started
    THEN stack' = s /\ UNCHANGED libs
    ELSE stack' = Append(s, Frame("init", i, gen)) /\ UNCHANGED libs

\* init_lib(&libs->libs[i]) by the innermost of the frames s.
CallInit(i, s) ==
  IF libs[i].started
    THEN stack' = s /\ UNCHANGED libs
    ELSE /\ libs' = [libs EXCEPT ![i].started = TRUE]
         /\ stack' = Append(s, Frame("init", i, gen))

\* Mutant: the number of libraries is read once, before the loop.
InitNextCounted ==
  /\ InFrame("init_libs")
  /\ IF Top.k <= Len(libs) - opens
       THEN CallInit(Top.k, Advance)
       ELSE stack' = <<Frame("main", Top.i, Top.g)>> /\ UNCHANGED libs
  /\ UNCHANGED <<disk, capacity, gen, handles, spliced, linkMap, status, opens>>

\* The loop of init_libs reads libs_count anew each time round, so it reaches
\* what a constructor opened; then main_f is looked up in the pointer main()
\* took before, and called.
InitNext ==
  /\ InFrame("init_libs")
  /\ IF Top.k <= Len(libs)
       THEN CallInit(Top.k, Advance)
       ELSE stack' = <<Frame("main", Top.i, Top.g)>> /\ UNCHANGED libs
  /\ UNCHANGED <<disk, capacity, gen, handles, spliced, linkMap, status, opens>>

\* Mutant: a library's own constructor runs before those it needs.
InitDependencySkipped ==
  /\ InFrame("init")
  /\ Top.k <= Len(Needed(Self))
  /\ stack' = Advance
  /\ UNCHANGED <<disk, libs, capacity, gen, handles, spliced, linkMap, status, opens>>

InitDependency ==
  /\ InFrame("init")
  /\ Top.k <= Len(Needed(Self))
  /\ CallInit(IndexOf(Needed(Self)[Top.k]), Advance)
  /\ UNCHANGED <<disk, capacity, gen, handles, spliced, linkMap, status, opens>>

\* The dependencies are done: the library's own constructor runs.  Where the
\* pointer of the frame dangles this is one outcome, DanglingRead the other.
InitSelf ==
  /\ InFrame("init")
  /\ Top.k = Len(Needed(Self)) + 1
  /\ libs' = [libs EXCEPT ![Top.i].inits = @ + 1]
  /\ stack' = Append(Advance, Frame("ctor", Top.i, Top.g))
  /\ UNCHANGED <<disk, capacity, gen, handles, spliced, linkMap, status, opens>>

InitReturn ==
  /\ InFrame("init")
  /\ Top.k > Len(Needed(Self)) + 1
  /\ stack' = Below
  /\ UNCHANGED <<disk, libs, capacity, gen, handles, spliced, linkMap, status, opens>>
----------------------------------------------------------------------------
(* fini_libs, in load order and whether or not a library was initialised; the
   process ends when it returns *)

FiniNext ==
  /\ InFrame("fini_libs")
  /\ IF Top.k <= Len(libs)
       THEN /\ libs' = [libs EXCEPT ![Top.k].finis = @ + 1]
            /\ stack' = Append(Advance, Frame("dtor", Top.k, gen))
            /\ UNCHANGED status
       ELSE stack' = Below /\ status' = "exited" /\ UNCHANGED libs
  /\ UNCHANGED <<disk, capacity, gen, handles, spliced, linkMap, opens>>
----------------------------------------------------------------------------
(* Undefined behaviour *)

\* The code below an xload_open that moved the vector reads its entry through
\* the pointer it took before: init_lib the name tables and the constructors
\* left (918, 931-935), main() the table of symbols (1055-1057), fini_libs the
\* destructors left (953-955).  The block is freed.  Either it still holds the
\* entry, which nobody has written to since, and the steps above go on with
\* it; or anything follows, and nothing more is said of the process.
DanglingRead ==
  /\ \/ InFrame("init")
     \/ InFrame("init_libs") /\ Top.k > Len(libs)
     \/ InFrame("dtor")
  /\ Top.g # gen
  /\ status' = "undefined"
  /\ UNCHANGED <<disk, libs, capacity, gen, stack, handles, spliced, linkMap, opens>>
----------------------------------------------------------------------------
(* The program's own code: constructors, main and destructors *)

UserReturn ==
  /\ InFrame("ctor") \/ InFrame("dtor")
  /\ stack' = Below
  /\ UNCHANGED <<disk, libs, capacity, gen, handles, spliced, linkMap, status, opens>>

\* main_f returns, or a constructor or main calls xload_exit: fini_libs runs
\* on top of whatever is on the stack and the process ends there.
UserExit ==
  /\ InFrame("ctor") \/ InFrame("main")
  /\ stack' = Append(stack, Frame("fini_libs", 1, gen))
  /\ UNCHANGED <<disk, libs, capacity, gen, handles, spliced, linkMap, status, opens>>

\* xload_open: the link_map list comes off the system's while the vector and
\* the list change.
Open(f) ==
  /\ InUser
  /\ opens < MaxOpens
  /\ opens' = opens + 1
  /\ spliced' = FALSE
  /\ LET i == IF Found(f) THEN IndexOf(f) ELSE Len(libs) + 1
     IN CallLoad(f, Append(stack, Frame("open", i, gen)))
  /\ UNCHANGED <<disk, handles, linkMap, status>>

\* Mutant: only the opened library itself is linked.
OpenReturnLinkOne ==
  /\ InFrame("open")
  /\ Linkable
  /\ libs' = [libs EXCEPT ![Top.i].linked = TRUE]
  /\ handles' = handles \cup {[i |-> Top.i, g |-> Top.g]}
  /\ spliced' = TRUE
  /\ stack' = Below
  /\ UNCHANGED <<disk, capacity, gen, linkMap, status, opens>>

\* Mutant: the list is not put back when the library was there already.
OpenReturnUnspliced ==
  /\ InFrame("open")
  /\ Linkable
  /\ LinkAll
  /\ handles' = handles \cup {[i |-> Top.i, g |-> Top.g]}
  /\ spliced' = ~libs[Top.i].linked
  /\ stack' = Below
  /\ UNCHANGED <<disk, capacity, gen, linkMap, status, opens>>

\* The load is back: everything new is linked, the handle keeps the pointer
\* into the vector, and no constructor is run.  Looking a symbol up in a handle
\* (xload_sym) changes nothing and is left out: a dangling one is only counted.
OpenReturn ==
  /\ InFrame("open")
  /\ Linkable
  /\ LinkAll
  /\ handles' = handles \cup {[i |-> Top.i, g |-> Top.g]}
  /\ spliced' = TRUE
  /\ stack' = Below
  /\ UNCHANGED <<disk, capacity, gen, linkMap, status, opens>>
----------------------------------------------------------------------------
LoadStep == LoadNeeded \/ LoadReturn \/ LoadFails
LinkStep == LinkFails \/ MainLink
InitStep == InitNext \/ InitDependency \/ InitSelf \/ InitReturn
UserStep == UserReturn \/ UserExit \/ \E f \in Libs : Open(f)

LNext ==
  LoadStep \/ LinkStep \/ InitStep \/ FiniNext \/ UserStep \/ OpenReturn \/ DanglingRead

LSpec == LInit /\ [][LNext]_vars
----------------------------------------------------------------------------
LTypeOK ==
  /\ disk \in [Libs -> [needed : Seq(Libs), soname : BOOLEAN]]
  /\ \A i \in DOMAIN libs :
       libs[i] \in [path : Libs, linked : BOOLEAN, started : BOOLEAN, inits : Nat, finis : Nat]
  /\ capacity \in Nat /\ Len(libs) <= capacity
  /\ gen \in Nat
  /\ \A d \in DOMAIN stack :
       /\ stack[d].fn \in User \cup {"start", "load", "open", "init_libs", "init", "fini_libs"}
       /\ stack[d].i \in DOMAIN libs
       /\ stack[d].g \in 0 .. gen
       /\ stack[d].k \in Nat \ {0}
  /\ \A h \in handles : h.i \in DOMAIN libs /\ h.g \in 0 .. gen
  /\ spliced \in BOOLEAN
  /\ linkMap \in Seq(Libs)
  /\ status \in {"running", "exited", "error", "undefined"}
  /\ opens \in 0 .. MaxOpens

\* Dependencies that form a cycle are still loaded once each, because
\* load_absolute enters the path before it loads what the library needs
\* (load_elf.c:364).
LoadedOnce == \A i, j \in DOMAIN libs : libs[i].path = libs[j].path => i = j

\* Whenever load_absolute or dlopen2 goes on after a nested load, its pointer
\* is into the vector as it is now, however often the vector moved below it.
LoadPointersCurrent == InFrame("load") \/ InFrame("open") => Top.g = gen

\* No library is entered behind the end of the vector; and as long as the
\* program holds no more than its first size, no pointer kept across a
\* constructor or in a handle dangles, and nobody has read through one that does.
SafeWithinVector ==
  /\ Len(libs) <= capacity
  /\ Len(libs) <= VecLength =>
       /\ \A d \in DOMAIN stack : stack[d].g = gen
       /\ \A h \in handles : h.g = gen
       /\ status # "undefined"

\* Code of a library runs only when everything in the vector is linked and
\* what it needs is loaded, however the library came in.
LinkedBeforeRun ==
  InUser => \A i \in DOMAIN libs : libs[i].linked /\ Needs(libs[i].path) \subseteq Loaded

\* Whenever the program's code runs, a debugger finds every library on the
\* system's list, once.
DebuggerSeesAll ==
  InUser => /\ spliced
            /\ Len(linkMap) = Len(libs)
            /\ {linkMap[i] : i \in DOMAIN linkMap} = Loaded

\* The libraries f depends on, directly or not.
Dependencies(f) ==
  {g \in Libs : \A S \in SUBSET Libs :
     Needs(f) \subseteq S /\ (\A h \in S : Needs(h) \subseteq S) => g \in S}

\* A constructor runs only after the constructors of the libraries it needs,
\* save those that depend on it in turn.
DependenciesFirst ==
  InFrame("ctor") =>
    \A f \in Needs(Self) : libs[IndexOf(f)].inits > 0 \/ Self \in Dependencies(f)

\* When main_f is called, every library then in the vector, those that a
\* constructor opened included, has been initialised exactly once.
MainAfterInit ==
  [][stack' # stack /\ stack' # <<>> /\ stack'[Len(stack')].fn = "main" /\ InFrame("init_libs")
       => \A i \in DOMAIN libs : libs[i].inits = 1]_vars

\* The error text of load_elf.c:538-540, "library %s has no soname": what
\* passed that check has one.
PassedHasSoname == \A i \in DOMAIN linkMap : disk[linkMap[i]].soname

\* No constructor ever runs twice, and a process that exits has run every
\* destructor once.
OnceEach ==
  /\ \A i \in DOMAIN libs : libs[i].inits <= 1 /\ libs[i].finis <= 1
  /\ status = "exited" => \A i \in DOMAIN libs : libs[i].finis = 1
============================================================================
