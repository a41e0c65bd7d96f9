------------------------------- MODULE XBuild -------------------------------
(***************************************************************************)
(* The build of src/xbuild/main.cpp: the recursion of buildTarget over the *)
(* targets of xbuild.json, the decision of execTarget whether a target is  *)
(* up to date, the commands it runs through base_proc_exec and             *)
(* base_proc_wait of src/xlibc/proc.c, and one invocation after another    *)
(* on the same files, which a user edits and removes meanwhile.            *)
(*                                                                         *)
(* A target makes at most one file, which bears the target's name here.    *)
(* What a command reads and writes is not in xbuild.json: `reads' and      *)
(* `makes' say it.  A dependency file lists what the compiler read.        *)
(***************************************************************************)
EXTENDS Naturals, Sequences, FiniteSets

CONSTANTS
  Names,       \* names of targets, defined or not
  Sources,     \* files that no target makes
  Goal,        \* argv[1]
  Literal,     \* the name "target"
  Projects,    \* the contents xbuild.json may have
  MaxDepth,    \* frames of buildTarget the C stack has room for
  MaxBuilds, MaxClock, MaxEdits   \* bounds on the behaviours explored

Files == Sources \cup Names

Target == [targets : Seq(Names), makeDeps : BOOLEAN, outputs : SUBSET Files,
           inputs : SUBSET Files, exec : Nat, reads : SUBSET Files, makes : BOOLEAN]

ASSUME XBuildAssumption ==
  /\ Goal \in Names /\ Sources \cap Names = {}
  /\ \A p \in Projects : DOMAIN p \subseteq Names /\ \A t \in DOMAIN p : p[t] \in Target
  /\ MaxDepth \in Nat \ {0} /\ MaxBuilds \in Nat /\ MaxClock \in Nat \ {0} /\ MaxEdits \in Nat

VARIABLES
  project,      \* `targets' of main()
  mtime,        \* the files' times, Missing for no file
  depFile,      \* the make-deps file of a target: "none", "good" or "bad"
  clock,        \* the file system's time, which may stand still
  status,       \* of the invocation: "none", "running" or how it ended
  stack,        \* the calls of buildTarget, innermost last
  alreadyBuilt,
  building,
  job,          \* the loop over the commands of the innermost target
  builds, edits \* for the bounds

files == <<mtime, depFile, clock>>
calls == <<status, stack, alreadyBuilt, building, job>>

\* History, for the properties.
VARIABLES
  outdated,     \* targets whose file is not the work of one good run on what is there now
  unseen,       \* those of them whose times do not show it
  disturbed,    \* something was edited since the invocation began
  killed,       \* a command of the invocation died by a signal
  settled       \* the invocation began right after an undisturbed success

history == <<outdated, unseen, disturbed, killed, settled>>
vars == <<project, files, calls, builds, edits, history>>

Missing == 0
NoJob == [cmd |-> 0, wrote |-> FALSE, clean |-> TRUE]
Top == stack[Len(stack)]
Below == SubSeq(stack, 1, Len(stack) - 1)
Return == IF Below = <<>> THEN Below ELSE [Below EXCEPT ![Len(Below)].k = @ + 1]
Current == project[Top.target]
Readers(f) == {t \in DOMAIN project : f \in project[t].reads}
----------------------------------------------------------------------------
XInit ==
  /\ project \in Projects
  /\ mtime = [f \in Files |-> IF f \in Sources THEN 1 ELSE Missing]
  /\ depFile = [t \in Names |-> "none"]
  /\ clock = 1
  /\ status = "none"
  /\ stack = <<>> /\ alreadyBuilt = {} /\ building = {} /\ job = NoJob
  /\ builds = 0 /\ edits = 0
  /\ outdated = DOMAIN project /\ unseen = {}
  /\ disturbed = FALSE /\ killed = FALSE /\ settled = FALSE

\* main(): empty maps, and the call for the goal.
Start ==
  /\ status # "running"
  /\ builds < MaxBuilds
  /\ builds' = builds + 1
  /\ status' = "running"
  /\ stack' = <<>> /\ alreadyBuilt' = {} /\ building' = {} /\ job' = NoJob
  /\ settled' = (status = "done" /\ ~disturbed /\ ~killed)
  /\ disturbed' = FALSE /\ killed' = FALSE
  /\ UNCHANGED <<project, files, edits, outdated, unseen>>
----------------------------------------------------------------------------
(* buildTarget: the call, up to its loop over the dependencies *)

\* The next thing to happen is the call buildTarget(t).
Calls(t) ==
  /\ status = "running"
  /\ job = NoJob
  /\ IF stack = <<>> THEN t = Goal
                     ELSE Top.k <= Len(Current.targets) /\ t = Current.targets[Top.k]

\* exit(-1) from wherever the recursion is.
Exit(s) ==
  /\ status' = s
  /\ stack' = <<>> /\ alreadyBuilt' = {} /\ building' = {} /\ job' = NoJob

Ends(s) == Exit(s) /\ UNCHANGED <<project, files, builds, edits, history>>

NoTarget(t) == Calls(t) /\ t \notin DOMAIN project /\ Ends("no target")

CallBuilt(t) ==
  /\ Calls(t)
  /\ t \in DOMAIN project \cap alreadyBuilt
  /\ stack' = [stack EXCEPT ![Len(stack)].k = @ + 1]
  /\ UNCHANGED <<project, files, status, alreadyBuilt, building, job, builds, edits, history>>

\* if (building.count("target") != 0): the name looked up is always the same.
Circular(t) ==
  /\ Calls(t)
  /\ t \in DOMAIN project \ alreadyBuilt
  /\ Literal \in building
  /\ Ends("circular")

\* The recursion is deeper than the C stack.
Overflow(t) ==
  /\ Calls(t)
  /\ t \in DOMAIN project \ alreadyBuilt
  /\ Literal \notin building
  /\ Len(stack) = MaxDepth
  /\ Ends("overflow")

\* Mutant: a target that was built is built again.
EnterAgain(t) ==
  /\ Calls(t)
  /\ t \in DOMAIN project
  /\ Literal \notin building
  /\ Len(stack) < MaxDepth
  /\ stack' = Append(stack, [target |-> t, k |-> 1])
  /\ building' = building \cup {t}
  /\ UNCHANGED <<project, files, status, alreadyBuilt, job, builds, edits, history>>

Enter(t) ==
  /\ Calls(t)
  /\ t \in DOMAIN project \ alreadyBuilt
  /\ Literal \notin building
  /\ Len(stack) < MaxDepth
  /\ stack' = Append(stack, [target |-> t, k |-> 1])
  /\ building' = building \cup {t}
  /\ UNCHANGED <<project, files, status, alreadyBuilt, job, builds, edits, history>>
----------------------------------------------------------------------------
(* execTarget *)

\* dep.outputs and dep.inputs of t, after readMakeDepFile.
Listed(t) == project[t].makeDeps /\ depFile[t] = "good"
Outputs(t) == project[t].outputs \cup IF Listed(t) THEN {t} ELSE {}
Inputs(t) == project[t].inputs \cup IF Listed(t) THEN project[t].reads ELSE {}

\* Mutant: an input as old as an output counts as newer.
UpToDateStrict(t) ==
  /\ Outputs(t) # {}
  /\ Missing \notin {mtime[f] : f \in Outputs(t) \cup Inputs(t)}
  /\ \A o \in Outputs(t), i \in Inputs(t) : mtime[i] < mtime[o]

\* Mutant: an input that another target makes is not compared.
UpToDateLax(t) ==
  /\ Outputs(t) # {}
  /\ Missing \notin {mtime[f] : f \in Outputs(t) \cup Inputs(t)}
  /\ \A o \in Outputs(t), i \in Inputs(t) \cap Sources : mtime[i] <= mtime[o]

\* There are outputs, everything listed is there, and no input is newer than
\* the oldest output.
UpToDate(t) ==
  /\ Outputs(t) # {}
  /\ Missing \notin {mtime[f] : f \in Outputs(t) \cup Inputs(t)}
  /\ \A o \in Outputs(t), i \in Inputs(t) : mtime[i] <= mtime[o]

\* All dependencies of the innermost target are done, and no command runs.
AtExec == status = "running" /\ job = NoJob /\ stack # <<>> /\ Top.k > Len(Current.targets)

\* readMakeDepFile finds no colon.
BadDepFile == AtExec /\ Current.makeDeps /\ depFile[Top.target] = "bad" /\ Ends("bad file")

\* execTarget and buildTarget return to the caller, or to main().
Built ==
  /\ alreadyBuilt' = alreadyBuilt \cup {Top.target}
  /\ stack' = Return
  /\ status' = IF Below = <<>> THEN "done" ELSE status
  /\ job' = NoJob
  /\ UNCHANGED <<project, files, building, builds, edits>>

ReadsFile == ~(Current.makeDeps /\ depFile[Top.target] = "bad")

\* "already built"
UpToDateReturn ==
  /\ AtExec /\ ReadsFile
  /\ UpToDate(Top.target)
  /\ Built
  /\ UNCHANGED history

BeginExec ==
  /\ AtExec /\ ReadsFile
  /\ ~UpToDate(Top.target)
  /\ job' = [NoJob EXCEPT !.cmd = 1]
  /\ UNCHANGED <<project, files, status, stack, alreadyBuilt, building, builds, edits, history>>

\* The last command has returned; a target without commands comes here at once.
Finish ==
  /\ job # NoJob
  /\ job.cmd > Current.exec
  /\ Built
  /\ IF job.clean THEN outdated' = outdated \ {Top.target} /\ unseen' = unseen \ {Top.target}
                  ELSE UNCHANGED <<outdated, unseen>>
  /\ UNCHANGED <<disturbed, killed, settled>>
----------------------------------------------------------------------------
(* The commands and base_proc_wait *)

Outcomes == {"zero", "nonzero", "killed"}

\* base_proc_wait hands on the second byte of the status, which is zero for a
\* child that a signal killed; a child whose execve fails traps and is one.
ExitCode(o) == IF o = "nonzero" THEN 1 ELSE 0

\* What the command has done to the files: a good last one leaves everything
\* made; any other may have left the file and the dependency file in any state.
Effects(t, wrote, dep) ==
  /\ mtime' = [mtime EXCEPT ![t] = IF wrote THEN clock ELSE @]
  /\ depFile' = [depFile EXCEPT ![t] = dep]
  /\ UNCHANGED clock

\* Whether this end of the last command leaves all that the target makes.
Complete(o, wrote, dep) ==
  o = "zero" /\ job.cmd = Current.exec =>
    /\ Current.makes => wrote \/ job.wrote
    /\ Current.makeDeps => dep = "good"

\* One turn of the loop of execTarget.
Command(o, wrote, dep) ==
  /\ job.cmd <= Current.exec
  /\ Effects(Top.target, wrote, dep)
  /\ IF ExitCode(o) # 0
       THEN Exit("failed")
       ELSE /\ job' = [cmd |-> job.cmd + 1, wrote |-> job.wrote \/ wrote,
                       clean |-> job.clean /\ o = "zero"]
            /\ UNCHANGED <<status, stack, alreadyBuilt, building>>
  /\ UNCHANGED <<project, builds, edits>>

\* History: f was written at the present time; a target that reads it is no
\* longer the work of what is there, and sees it if f is on its list and the
\* clock has moved since it was made.
Written(f, t) ==
  LET seen == {r \in Readers(f) : f \in Inputs(r) /\ mtime[r] < clock}
  IN  /\ outdated' = outdated \cup Readers(f) \cup t
      /\ unseen' = (unseen \ seen) \cup {r \in Readers(f) : mtime[r] = clock} \cup t

\* Until its target is finished a file is half made, and newer than all it is
\* made from.
CommandEnds ==
  \E o \in Outcomes, wrote \in BOOLEAN, dep \in {"none", "good", "bad"} :
    /\ job # NoJob
    /\ wrote => Current.makes
    /\ dep # depFile[Top.target] => Current.makeDeps /\ dep # "none"
    /\ Complete(o, wrote, dep)
    /\ Command(o, wrote, dep)
    /\ IF wrote THEN Written(Top.target, {Top.target}) ELSE UNCHANGED <<outdated, unseen>>
    /\ killed' = (killed \/ o = "killed")
    /\ UNCHANGED <<disturbed, settled>>
----------------------------------------------------------------------------
(* The user, at any time *)

Touch(f, time) ==
  /\ edits < MaxEdits
  /\ edits' = edits + 1
  /\ mtime' = [mtime EXCEPT ![f] = time]
  /\ disturbed' = TRUE
  /\ job' = [job EXCEPT !.clean = @ /\ ~(job # NoJob /\ f \in Current.reads \cup {Top.target})]
  /\ UNCHANGED <<project, depFile, clock, status, stack, alreadyBuilt, building, builds, killed, settled>>

Edit(f) == Touch(f, clock) /\ Written(f, {})

Remove(f) ==
  /\ mtime[f] # Missing
  /\ Touch(f, Missing)
  /\ outdated' = outdated \cup Readers(f) \cup ({f} \cap DOMAIN project)
  /\ unseen' = unseen \ ({f} \cup {r \in Readers(f) : f \in Inputs(r)})

Tick ==
  /\ clock < MaxClock
  /\ clock' = clock + 1
  /\ UNCHANGED <<project, mtime, depFile, calls, builds, edits, history>>

User == Tick \/ (\E f \in Sources : Edit(f)) \/ (\E f \in Files : Remove(f))
----------------------------------------------------------------------------
BuildTarget(t) == NoTarget(t) \/ CallBuilt(t) \/ Circular(t) \/ Overflow(t) \/ Enter(t)
ExecTarget == BadDepFile \/ UpToDateReturn \/ BeginExec \/ CommandEnds \/ Finish

XNext == Start \/ (\E t \in Names : BuildTarget(t)) \/ ExecTarget \/ User

XSpec == XInit /\ [][XNext]_vars
----------------------------------------------------------------------------
XTypeOK ==
  /\ \A t \in DOMAIN project : project[t] \in Target
  /\ mtime \in [Files -> 0 .. clock]
  /\ depFile \in [Names -> {"none", "good", "bad"}]
  /\ clock \in 1 .. MaxClock
  /\ status \in {"none", "running", "done", "failed", "no target", "circular", "overflow", "bad file"}
  /\ Len(stack) <= MaxDepth
  /\ \A d \in DOMAIN stack : stack[d].target \in DOMAIN project /\ stack[d].k \in Nat \ {0}
  /\ alreadyBuilt \subseteq building /\ building \subseteq DOMAIN project
  /\ job \in [cmd : Nat, wrote : BOOLEAN, clean : BOOLEAN]
  /\ unseen \subseteq outdated

\* The targets t needs, directly or not.
Dependencies(t) ==
  LET Direct(u) == IF u \in DOMAIN project
                     THEN {project[u].targets[k] : k \in DOMAIN project[u].targets} ELSE {}
  IN {u \in Names : \A S \in SUBSET Names :
        Direct(t) \subseteq S /\ (\A v \in S : Direct(v) \subseteq S) => u \in S}

\* xbuild.json tells xbuild all that the commands of t read, and names no
\* file as its output that another target makes.
Declared(t) ==
  /\ project[t].makeDeps \/ project[t].reads \subseteq project[t].inputs
  /\ project[t].reads \cap Names \subseteq Dependencies(t)
  /\ project[t].outputs \subseteq {t}

\* Besides, it names the file of t, which commands make, and everything t reads
\* or is said to read is there: once made, t can be seen to be up to date.
Checkable(t) ==
  /\ Declared(t)
  /\ project[t].inputs \cap Names \subseteq Dependencies(t)
  /\ project[t].outputs # {} \/ project[t].makeDeps
  /\ project[t].makes /\ project[t].exec > 0
  /\ \A f \in project[t].reads \cup project[t].inputs : mtime[f] # Missing

\* execTarget comes to a target once in an invocation, and after everything
\* the target needs; a target on a cycle it never comes to.
DependenciesBuiltOnce ==
  AtExec => Top.target \notin alreadyBuilt /\ Dependencies(Top.target) \subseteq alreadyBuilt

\* When xbuild succeeds and nothing was edited meanwhile, every target it
\* went through is the work of one good run of its commands on the files as
\* they are now.  The exceptions are what modification times cannot show: a
\* file half made by an earlier failure, an edit while a command read, and an
\* edit in the tick in which the file was made.
SuccessIsFresh ==
  status = "done" /\ ~disturbed /\ ~killed =>
    \A t \in alreadyBuilt : Declared(t) => t \notin outdated \ unseen

\* Built again right after a success, a target runs no command if it and all
\* that it needs can be seen to be up to date.
NothingToDo ==
  [][settled /\ ~disturbed /\ job = NoJob /\ job' # NoJob =>
       \E t \in Dependencies(Top.target) \cup {Top.target} : ~Checkable(t)]_vars

\* main.cpp:227, "circular dependency on": a target that needs itself is
\* reported, the recursion does not go on until the stack is used up.
CycleReported == status # "overflow"

\* main.cpp:212, "exec failed": xbuild succeeds only when all its commands did.
SuccessMeansCommandsSucceeded == status = "done" => ~killed
============================================================================
