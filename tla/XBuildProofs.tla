---------------------------- MODULE XBuildProofs ----------------------------
(***************************************************************************)
(* Proofs about XBuild for every set of targets, every xbuild.json and any *)
(* number of invocations, edits and failing commands.                      *)
(***************************************************************************)
EXTENDS XBuild, SequenceTheorems, TLAPS

Frame == [target : Names, k : Nat]
TargetsOf(d) == project[stack[d].target].targets

\* The types of the recursion, ...
CallTypes ==
  /\ project \in Projects
  /\ stack \in Seq(Frame) /\ Len(stack) <= MaxDepth
  /\ alreadyBuilt \subseteq building /\ building \subseteq DOMAIN project

\* ... of the invocation and its commands, and of the files.
JobTypes ==
  /\ status \in {"none", "running", "done", "failed", "no target", "circular", "overflow", "bad file"}
  /\ job \in [cmd : Nat, wrote : BOOLEAN, clean : BOOLEAN]

FileTypes ==
  /\ mtime \in [Files -> 0 .. clock]
  /\ depFile \in [Names -> {"none", "good", "bad"}]
  /\ clock \in 1 .. MaxClock
  /\ unseen \subseteq outdated

\* Each call was made for the dependency its caller is at, ...
Chain ==
  \A d \in 1 .. Len(stack) - 1 :
    stack[d].k <= Len(TargetsOf(d)) /\ stack[d + 1].target = TargetsOf(d)[stack[d].k]

\* ... and what the caller has left behind is built.
Behind ==
  \A d \in 1 .. Len(stack) :
    /\ stack[d].k \in 1 .. Len(TargetsOf(d)) + 1
    /\ \A j \in 1 .. stack[d].k - 1 : TargetsOf(d)[j] \in alreadyBuilt

\* A target that is being built is not built, also when it is entered again
\* from below: then it never comes to its end.
Unbuilt == \A d \in 1 .. Len(stack) : stack[d].target \in building \ alreadyBuilt

Closed ==
  \A t \in alreadyBuilt : \A j \in 1 .. Len(project[t].targets) :
    project[t].targets[j] \in alreadyBuilt

\* The loop over the commands is that of the innermost call, past its last
\* dependency; and nothing is built before the first call.
AtEnd ==
  /\ job # NoJob => stack # <<>> /\ Top.k > Len(Current.targets)
  /\ status = "running" /\ stack = <<>> => alreadyBuilt = {}

CallInv == CallTypes /\ Chain /\ Behind /\ Unbuilt /\ Closed /\ AtEnd
----------------------------------------------------------------------------
LEMMA ProjectTypes ==
  ASSUME NEW p \in Projects, NEW t \in DOMAIN p
  PROVE  /\ t \in Names /\ t \in Files
         /\ p[t] \in Target /\ p[t].targets \in Seq(Names)
         /\ Len(p[t].targets) \in Nat
         /\ \A j \in 1 .. Len(p[t].targets) : p[t].targets[j] \in Names
<1>1. p[t] \in Target /\ t \in Names
  BY XBuildAssumption
<1>2. p[t].targets \in Seq(Names)
  BY <1>1 DEF Target
<1> QED
  BY <1>1, <1>2, ElementOfSeq, LenProperties DEF Files

LEMMA NextFrame ==
  \A g \in Frame : LET h == [g EXCEPT !.k = @ + 1]
                   IN h \in Frame /\ h.target = g.target /\ h.k = g.k + 1
  BY DEF Frame

\* The loop of a caller takes one step.
LEMMA Bumped ==
  ASSUME NEW s \in Seq(Frame), s # <<>>,
         NEW b, b = [s EXCEPT ![Len(s)].k = @ + 1]
  PROVE  /\ b \in Seq(Frame) /\ Len(b) = Len(s) /\ Len(s) \in Nat \ {0}
         /\ \A d \in 1 .. Len(s) : /\ b[d].target = s[d].target
                                   /\ b[d].k = IF d = Len(s) THEN s[d].k + 1 ELSE s[d].k
<1> DEFINE e == [s[Len(s)] EXCEPT !.k = @ + 1]
<1>1. Len(s) \in Nat \ {0} /\ Len(s) \in 1 .. Len(s)
  BY EmptySeq
<1>2. \A d \in 1 .. Len(s) : s[d] \in Frame
  BY ElementOfSeq
<1>3. e \in Frame /\ e.target = s[Len(s)].target /\ e.k = s[Len(s)].k + 1
  <2>1. s[Len(s)] \in Frame
    BY <1>1, <1>2
  <2> QED
    BY ONLY <2>1, NextFrame DEF e
<1>4. b = [s EXCEPT ![Len(s)] = e]
  OBVIOUS
<1>5. /\ [s EXCEPT ![Len(s)] = e] \in Seq(Frame)
      /\ Len([s EXCEPT ![Len(s)] = e]) = Len(s)
      /\ \A j \in 1 .. Len(s) : [s EXCEPT ![Len(s)] = e][j] = IF j = Len(s) THEN e ELSE s[j]
  <2> HIDE DEF e
  <2> QED
    BY <1>1, <1>3, ExceptSeq
<1> HIDE DEF e
<1> QED
  BY <1>1, <1>3, <1>4, <1>5

\* What is left of a sequence without its end.
LEMMA Prefix ==
  ASSUME NEW S, NEW s \in Seq(S), NEW n \in Nat, n <= Len(s)
  PROVE  /\ SubSeq(s, 1, n) \in Seq(S) /\ Len(SubSeq(s, 1, n)) = n
         /\ \A d \in 1 .. n : SubSeq(s, 1, n)[d] = s[d]
<1>1. \A d \in 1 .. n : s[d] \in S
  BY ElementOfSeq, LenProperties
<1>2. SubSeq(s, 1, n) \in Seq(S)
  BY <1>1, SubSeqProperties
<1> QED
  BY <1>2, LenProperties

\* What a return leaves of the stack.
LEMMA Returned ==
  ASSUME stack \in Seq(Frame), stack # <<>>
  PROVE  /\ Below \in Seq(Frame) /\ Return \in Seq(Frame)
         /\ Len(stack) \in Nat \ {0} /\ Len(Return) = Len(stack) - 1
         /\ Below = <<>> <=> Len(stack) = 1
         /\ Below = <<>> => Return = <<>>
         /\ \A d \in 1 .. Len(stack) - 1 :
              /\ Return[d].target = stack[d].target
              /\ Return[d].k = IF d = Len(stack) - 1 THEN stack[d].k + 1 ELSE stack[d].k
<1>1. Len(stack) \in Nat \ {0}
  BY EmptySeq
<1>2. /\ Below \in Seq(Frame) /\ Len(Below) = Len(stack) - 1
      /\ \A d \in 1 .. Len(stack) - 1 : Below[d] = stack[d]
  <2>1. Len(stack) - 1 \in Nat /\ Len(stack) - 1 <= Len(stack)
    BY <1>1
  <2> QED
    BY <2>1, Prefix DEF Below
<1>3. Below = <<>> <=> Len(stack) = 1
  BY <1>1, <1>2, EmptySeq
<1>4. CASE Below = <<>>
  <2>1. Return = Below /\ Len(stack) = 1
    BY <1>3, <1>4 DEF Return
  <2> QED
    BY <1>1, <1>2, <1>4, <2>1
<1>5. CASE Below # <<>>
  <2>1. Return = [Below EXCEPT ![Len(Below)].k = @ + 1]
    BY <1>5 DEF Return
  <2> QED
    BY <1>1, <1>2, <1>3, <1>5, <2>1, Bumped
<1> QED
  BY <1>4, <1>5
----------------------------------------------------------------------------
\* exit() from anywhere, and a new invocation, leave no calls.
LEMMA Emptied ==
  ASSUME CallTypes, UNCHANGED project,
         stack' = <<>>, alreadyBuilt' = {}, building' = {}, job' = NoJob
  PROVE  CallInv'
<1>1. stack' \in Seq(Frame) /\ Len(stack') = 0
  BY EmptySeq
<1>3. CallTypes'
  BY <1>1, XBuildAssumption DEF CallTypes
<1> QED
  BY <1>1, <1>3 DEF CallInv, Chain, Behind, Unbuilt, Closed, AtEnd

\* A call that finds its target built.
LEMMA CallBuiltStep ==
  ASSUME CallInv, NEW t \in Names, CallBuilt(t)
  PROVE  CallInv'
<1> USE DEF CallInv, CallTypes
<1>1. stack # <<>> /\ Top.k <= Len(Current.targets) /\ t = Current.targets[Top.k] /\ t \in alreadyBuilt
  BY DEF CallBuilt, Calls, AtEnd
<1>2. /\ stack' \in Seq(Frame) /\ Len(stack') = Len(stack) /\ Len(stack) \in Nat \ {0}
      /\ \A d \in 1 .. Len(stack) :
           /\ stack'[d].target = stack[d].target
           /\ stack'[d].k = IF d = Len(stack) THEN stack[d].k + 1 ELSE stack[d].k
  BY <1>1, Bumped DEF CallBuilt
<1>3. UNCHANGED <<project, status, alreadyBuilt, building, job>> /\ job = NoJob
  BY DEF CallBuilt, Calls
<1>4. \A d \in 1 .. Len(stack) : TargetsOf(d)' = TargetsOf(d)
  BY <1>2, <1>3 DEF TargetsOf
<1>5. Chain'
  BY <1>2, <1>3, <1>4 DEF Chain
<1>6. Behind'
  <2> SUFFICES ASSUME NEW d \in 1 .. Len(stack)
               PROVE  /\ stack'[d].k \in 1 .. Len(TargetsOf(d)) + 1
                      /\ \A j \in 1 .. stack'[d].k - 1 : TargetsOf(d)[j] \in alreadyBuilt
    BY <1>2, <1>3, <1>4 DEF Behind
  <2>1. Len(TargetsOf(d)) \in Nat
    BY ProjectTypes DEF TargetsOf, Unbuilt
  <2> DEFINE k == stack[d].k
             targets == TargetsOf(d)
  <2>a. k \in 1 .. Len(targets) + 1 /\ \A j \in 1 .. k - 1 : targets[j] \in alreadyBuilt
    BY DEF Behind
  <2>2. CASE d = Len(stack)
    <3>1. stack'[d].k = k + 1
      BY <1>2, <2>2
    <3>2. k = Top.k /\ targets = Current.targets
      BY <2>2 DEF Top, Current, TargetsOf
    <3>3. k <= Len(targets) /\ targets[k] \in alreadyBuilt
      BY <1>1, <3>2
    <3> HIDE DEF k, targets
    <3>4. k + 1 \in 1 .. Len(targets) + 1 /\ \A j \in 1 .. k : targets[j] \in alreadyBuilt
      BY ONLY <2>1, <2>a, <3>3 DEF targets
    <3> QED
      BY ONLY <2>a, <3>1, <3>4 DEF k, targets
  <2>3. CASE d # Len(stack)
    <3>1. stack'[d].k = stack[d].k
      BY <1>2, <2>3
    <3> QED
      BY ONLY <2>a, <3>1
  <2> QED
    BY <2>2, <2>3
<1>7. Unbuilt' /\ Closed' /\ AtEnd'
  BY <1>1, <1>2, <1>3 DEF Unbuilt, Closed, AtEnd
<1> QED
  BY <1>2, <1>3, <1>5, <1>6, <1>7

\* A call that begins to build.
LEMMA EnterStep ==
  ASSUME CallInv, NEW t \in Names, Enter(t)
  PROVE  CallInv'
<1> USE DEF CallInv, CallTypes
<1> DEFINE f == [target |-> t, k |-> 1]
<1>1. f \in Frame /\ Len(stack) \in Nat
  BY LenProperties DEF Frame
<1>2. /\ stack' \in Seq(Frame) /\ Len(stack') = Len(stack) + 1
      /\ \A d \in 1 .. Len(stack) : stack'[d] = stack[d]
      /\ stack'[Len(stack) + 1] = f
  <2>1. stack' = Append(stack, f)
    BY DEF Enter
  <2> HIDE DEF f
  <2> QED
    BY <1>1, <2>1, AppendProperties
<1>3. /\ UNCHANGED <<project, status, alreadyBuilt, job>> /\ job = NoJob
      /\ building' = building \cup {t} /\ t \in DOMAIN project \ alreadyBuilt /\ Len(stack) < MaxDepth
  BY DEF Enter, Calls
<1>4. /\ \A d \in 1 .. Len(stack) : TargetsOf(d)' = TargetsOf(d)
      /\ \A d : d = Len(stack) + 1 => TargetsOf(d)' = project[t].targets
      /\ Len(project[t].targets) \in Nat
  <2>1. Len(project[t].targets) \in Nat
    BY <1>3, ProjectTypes
  <2> QED
    BY <1>2, <1>3, <2>1 DEF TargetsOf
<1>5. Chain'
  <2> SUFFICES ASSUME NEW d \in 1 .. Len(stack)
               PROVE  stack[d].k <= Len(TargetsOf(d)) /\ stack'[d + 1].target = TargetsOf(d)[stack[d].k]
    <3>1. Len(stack') - 1 = Len(stack)
      BY <1>1, <1>2
    <3>2. \A d \in 1 .. Len(stack) : stack'[d].k = stack[d].k
      BY <1>2
    <3> QED
      BY <1>4, <3>1, <3>2 DEF Chain
  <2>1. CASE d = Len(stack)
    <3>1. stack # <<>>
      BY <2>1, EmptySeq
    <3> QED
      BY <1>2, <2>1, <3>1 DEF Enter, Calls, Top, Current, TargetsOf
  <2>2. CASE d # Len(stack)
    BY <1>1, <1>2, <2>2 DEF Chain
  <2> QED
    BY <2>1, <2>2
<1>6. Behind'
  <2>1. \A d \in 1 .. Len(stack) : stack'[d].k = stack[d].k /\ TargetsOf(d)' = TargetsOf(d)
    BY <1>2, <1>4
  <2>2. \A d \in 1 .. Len(stack) :
          /\ stack[d].k \in 1 .. Len(TargetsOf(d)) + 1
          /\ \A j \in 1 .. stack[d].k - 1 : TargetsOf(d)[j] \in alreadyBuilt
    BY DEF Behind
  <2>3. \A d : d = Len(stack) + 1 => /\ stack'[d].k = 1
                                    /\ Len(TargetsOf(d)') \in Nat
    BY <1>2, <1>4
  <2>4. \A d \in 1 .. Len(stack') : d \in 1 .. Len(stack) \/ d = Len(stack) + 1
    BY <1>1, <1>2
  <2>5. ASSUME NEW d \in 1 .. Len(stack')
        PROVE  /\ stack'[d].k \in 1 .. Len(TargetsOf(d)') + 1
               /\ \A j \in 1 .. stack'[d].k - 1 : TargetsOf(d)'[j] \in alreadyBuilt
    <3>1. CASE d \in 1 .. Len(stack)
      BY ONLY <2>1, <2>2, <3>1
    <3>2. CASE d = Len(stack) + 1
      BY ONLY <2>3, <3>2
    <3> QED
      BY <2>4, <3>1, <3>2
  <2> QED
    BY <1>3, <2>5 DEF Behind
<1>7. Unbuilt' /\ Closed' /\ AtEnd'
  BY <1>1, <1>2, <1>3, EmptySeq DEF Unbuilt, Closed, AtEnd
<1>8. CallTypes'
  BY <1>1, <1>2, <1>3, XBuildAssumption
<1> QED
  BY <1>5, <1>6, <1>7, <1>8

\* A target is finished, and its caller goes on.
LEMMA BuiltStep ==
  ASSUME CallInv, stack # <<>>, Top.k > Len(Current.targets), Built
  PROVE  CallInv'
<1> USE DEF CallInv, CallTypes
<1> DEFINE n == Len(stack)
<1>1. /\ n \in Nat \ {0} /\ Len(Return) = n - 1 /\ Return \in Seq(Frame)
      /\ Below = <<>> <=> n = 1
      /\ \A d \in 1 .. n - 1 : /\ Return[d].target = stack[d].target
                               /\ Return[d].k = IF d = n - 1 THEN stack[d].k + 1 ELSE stack[d].k
  BY Returned
<1>2. /\ UNCHANGED <<project, building>> /\ alreadyBuilt' = alreadyBuilt \cup {Top.target}
      /\ stack' = Return /\ job' = NoJob /\ status' = IF Below = <<>> THEN "done" ELSE status
  BY DEF Built
<1>3. /\ Top = stack[n] /\ n \in 1 .. n
      /\ Top.target \in building \ alreadyBuilt /\ Top.target \in DOMAIN project
  BY <1>1 DEF Top, Unbuilt
<1>4. \A j \in 1 .. Len(project[Top.target].targets) : project[Top.target].targets[j] \in alreadyBuilt
  <2>1. Len(project[Top.target].targets) \in Nat
    BY <1>3, ProjectTypes
  <2> QED
    BY <1>1, <1>3, <2>1 DEF Behind, TargetsOf, Current
<1>5. \A d \in 1 .. n - 1 : TargetsOf(d)' = TargetsOf(d) /\ Len(TargetsOf(d)) \in Nat
  BY <1>1, <1>2, ProjectTypes DEF TargetsOf, Unbuilt
<1>6. Chain'
  <2>1. Len(stack') - 1 = n - 2
    BY <1>1, <1>2
  <2>2. \A d \in 1 .. n - 2 : /\ stack'[d].k = stack[d].k /\ stack'[d + 1].target = stack[d + 1].target
                             /\ TargetsOf(d)' = TargetsOf(d)
    BY <1>1, <1>2, <1>5
  <2>3. \A d \in 1 .. n - 2 : /\ stack[d].k <= Len(TargetsOf(d))
                             /\ stack[d + 1].target = TargetsOf(d)[stack[d].k]
    BY <1>1 DEF Chain
  <2> QED
    BY <2>1, <2>2, <2>3 DEF Chain
<1>7. Behind'
  <2> SUFFICES ASSUME NEW d \in 1 .. n - 1
               PROVE  /\ Return[d].k \in 1 .. Len(TargetsOf(d)) + 1
                      /\ \A j \in 1 .. Return[d].k - 1 :
                           TargetsOf(d)[j] \in alreadyBuilt \cup {Top.target}
    BY <1>1, <1>2, <1>5 DEF Behind
  <2>1. /\ stack[d].k \in 1 .. Len(TargetsOf(d)) + 1
        /\ \A j \in 1 .. stack[d].k - 1 : TargetsOf(d)[j] \in alreadyBuilt
    BY <1>1 DEF Behind
  <2>2. stack[d].k <= Len(TargetsOf(d)) /\ stack[d + 1].target = TargetsOf(d)[stack[d].k]
    BY <1>1 DEF Chain
  <2>3. CASE d = n - 1
    <3>1. Return[d].k = stack[d].k + 1 /\ stack[d].k \in 1 .. Len(TargetsOf(d)) /\ d + 1 = n
      BY <1>1, <1>5, <2>1, <2>2, <2>3
    <3>2. TargetsOf(d)[stack[d].k] = Top.target
      BY <1>3, <2>2, <3>1
    <3> QED
      BY <1>5, <2>1, <3>1, <3>2
  <2>4. CASE d # n - 1
    BY <1>1, <2>1, <2>4
  <2> QED
    BY <2>3, <2>4
<1>8. Unbuilt'
  <2> SUFFICES ASSUME NEW d \in 1 .. n - 1, stack[d].target = Top.target
               PROVE  FALSE
    BY <1>1, <1>2 DEF Unbuilt
  <2>1. /\ stack[d].k \in 1 .. Len(TargetsOf(d))
        /\ stack[d + 1].target = TargetsOf(d)[stack[d].k]
    BY <1>1 DEF Chain, Behind
  <2>2. TargetsOf(d) = project[Top.target].targets
    BY DEF TargetsOf
  <2>3. stack[d + 1].target \in alreadyBuilt
    BY <1>4, <2>1, <2>2
  <2> QED
    BY <1>1, <2>3 DEF Unbuilt
<1>9. Closed'
  BY <1>2, <1>4 DEF Closed
<1>10. AtEnd'
  BY <1>1, <1>2, EmptySeq DEF AtEnd
<1>11. CallTypes'
  BY <1>1, <1>2, <1>3, XBuildAssumption DEF NoJob
<1> QED
  BY <1>6, <1>7, <1>8, <1>9, <1>10, <1>11

\* The commands of the innermost target change nothing but the job.
LEMMA JobStep ==
  ASSUME CallInv, UNCHANGED <<project, status, stack, alreadyBuilt, building>>,
         job' # NoJob => stack # <<>> /\ Top.k > Len(Current.targets)
  PROVE  CallInv'
BY DEF CallInv, CallTypes, Chain, Behind, Unbuilt, Closed, AtEnd, TargetsOf, Top, Current
----------------------------------------------------------------------------
LEMMA CallInvInit == XInit => CallInv
<1> SUFFICES ASSUME XInit PROVE CallInv
  OBVIOUS
<1>1. stack \in Seq(Frame) /\ Len(stack) = 0
  BY EmptySeq DEF XInit
<1> QED
  BY <1>1, XBuildAssumption
     DEF XInit, CallInv, CallTypes, Chain, Behind, Unbuilt, Closed, AtEnd

LEMMA CallInvStep == CallInv /\ [XNext]_vars => CallInv'
<1> SUFFICES ASSUME CallInv, [XNext]_vars PROVE CallInv'
  OBVIOUS
<1>1. CASE Start
  BY <1>1, Emptied DEF Start, CallInv
<1>2. ASSUME NEW t \in Names, NoTarget(t) \/ Circular(t) \/ Overflow(t)
      PROVE  CallInv'
  BY <1>2, Emptied DEF NoTarget, Circular, Overflow, Ends, Exit, CallInv
<1>3. ASSUME NEW t \in Names, CallBuilt(t)
      PROVE  CallInv'
  BY <1>3, CallBuiltStep
<1>4. ASSUME NEW t \in Names, Enter(t)
      PROVE  CallInv'
  BY <1>4, EnterStep
<1>5. CASE BadDepFile
  BY <1>5, Emptied DEF BadDepFile, Ends, Exit, CallInv
<1>6. CASE UpToDateReturn
  BY <1>6, BuiltStep DEF UpToDateReturn, AtExec
<1>7. CASE BeginExec
  BY <1>7, JobStep DEF BeginExec, AtExec, NoJob
<1>8. CASE CommandEnds
  <2>1. PICK o \in Outcomes, wrote \in BOOLEAN, dep \in {"none", "good", "bad"} :
          job # NoJob /\ Command(o, wrote, dep)
    BY <1>8 DEF CommandEnds
  <2>2. CASE ExitCode(o) # 0
    BY <1>8, <2>1, <2>2, Emptied DEF CommandEnds, Command, Exit, CallInv
  <2>3. CASE ExitCode(o) = 0
    BY <1>8, <2>1, <2>3, JobStep DEF CommandEnds, Command, CallInv, AtEnd
  <2> QED
    BY <2>2, <2>3
<1>9. CASE Finish
  BY <1>9, BuiltStep DEF Finish, CallInv, AtEnd
<1>10. CASE User
  <2>1. job' # NoJob => job # NoJob
    <3>1. ASSUME job = NoJob PROVE [job EXCEPT !.clean = @ /\ ~FALSE] = NoJob
      BY <3>1 DEF NoJob
    <3>2. ASSUME NEW f \in Files, NEW time, Touch(f, time), job = NoJob PROVE job' = NoJob
      BY <3>1, <3>2 DEF Touch
    <3> QED
      BY <1>10, <3>2, XBuildAssumption DEF User, Tick, Edit, Remove, calls, Files
  <2> QED
    BY <1>10, <2>1, JobStep DEF User, Tick, Edit, Remove, Touch, calls, CallInv, AtEnd
<1>11. CASE UNCHANGED vars
  BY <1>11, JobStep DEF vars, calls, CallInv, CallTypes, AtEnd
<1> QED
  BY <1>1, <1>2, <1>3, <1>4, <1>5, <1>6, <1>7, <1>8, <1>9, <1>10, <1>11
     DEF XNext, BuildTarget, ExecTarget
----------------------------------------------------------------------------
LEMMA FileTypesStep ==
  ASSUME CallInv, FileTypes, [XNext]_vars
  PROVE  FileTypes'
<1> USE DEF FileTypes
<1>1. CASE UNCHANGED <<files, outdated, unseen>>
  BY <1>1 DEF files
<1>2. CASE CommandEnds
  <2>1. PICK o \in Outcomes, wrote \in BOOLEAN, dep \in {"none", "good", "bad"} :
          /\ job # NoJob
          /\ Command(o, wrote, dep)
          /\ IF wrote THEN Written(Top.target, {Top.target}) ELSE UNCHANGED <<outdated, unseen>>
    BY <1>2 DEF CommandEnds
  <2>2. Effects(Top.target, wrote, dep)
    BY <2>1 DEF Command
  <2>3. mtime' \in [Files -> 0 .. clock'] /\ depFile' \in [Names -> {"none", "good", "bad"}]
    <3>1. IF wrote THEN clock \in 0 .. clock ELSE TRUE
      BY XBuildAssumption
    <3>2. mtime' \in [Files -> 0 .. clock]
      BY <2>2, <3>1 DEF Effects
    <3>3. depFile' \in [Names -> {"none", "good", "bad"}]
      BY <2>2 DEF Effects
    <3> QED
      BY <2>2, <3>2, <3>3 DEF Effects
  <2>4. unseen' \subseteq outdated'
    BY <2>1 DEF Written, Readers
  <2> QED
    BY <2>2, <2>3, <2>4 DEF Effects
<1>3. CASE Finish
  BY <1>3 DEF Finish, Built, files
<1>4. ASSUME NEW f \in Files, NEW time \in 0 .. clock, Touch(f, time)
      PROVE  mtime' \in [Files -> 0 .. clock'] /\ UNCHANGED <<depFile, clock>>
  BY <1>4 DEF Touch
<1>5. ASSUME NEW f \in Sources, Edit(f)
      PROVE  FileTypes'
  <2>1. f \in Files /\ clock \in 0 .. clock
    BY XBuildAssumption DEF Files
  <2> QED
    BY <1>4, <1>5, <2>1 DEF Edit, Written, Readers
<1>6. ASSUME NEW f \in Files, Remove(f)
      PROVE  FileTypes'
  BY <1>4, <1>6, XBuildAssumption DEF Remove, Missing, Readers
<1>7. CASE Tick
  BY <1>7, XBuildAssumption DEF Tick, history
<1>8. XNext => \/ UNCHANGED <<files, outdated, unseen>> \/ CommandEnds \/ Finish \/ User
  BY DEF XNext, BuildTarget, ExecTarget, Start, NoTarget, CallBuilt, Circular, Overflow, Enter,
         BadDepFile, UpToDateReturn, BeginExec, Ends, Built, history
<1> QED
  BY <1>1, <1>2, <1>3, <1>5, <1>6, <1>7, <1>8 DEF User, vars, history

LEMMA Connectives == \A p, q \in BOOLEAN : (p \/ q) \in BOOLEAN /\ (p /\ q) \in BOOLEAN
OBVIOUS

LEMMA JobTypesStep ==
  ASSUME JobTypes, [XNext]_vars
  PROVE  JobTypes'
<1> USE DEF JobTypes
<1>1. NoJob \in [cmd : Nat, wrote : BOOLEAN, clean : BOOLEAN]
  BY DEF NoJob
<1>2. CASE Start
  BY <1>1, <1>2 DEF Start
<1>3. ASSUME NEW s \in {"failed", "no target", "circular", "overflow", "bad file"}, Exit(s)
      PROVE  JobTypes'
  BY <1>1, <1>3 DEF Exit
<1>4. ASSUME NEW t \in Names, BuildTarget(t)
      PROVE  JobTypes'
  BY <1>3, <1>4 DEF BuildTarget, NoTarget, CallBuilt, Circular, Overflow, Enter, Ends
<1>5. CASE BadDepFile
  BY <1>3, <1>5 DEF BadDepFile, Ends
<1>6. CASE UpToDateReturn \/ Finish
  BY <1>1, <1>6 DEF UpToDateReturn, Finish, Built
<1>7. CASE BeginExec
  BY <1>7 DEF BeginExec, NoJob
<1>8. CASE CommandEnds
  <2>1. PICK o \in Outcomes, wrote \in BOOLEAN, dep \in {"none", "good", "bad"} : Command(o, wrote, dep)
    BY <1>8 DEF CommandEnds
  <2>2. CASE ExitCode(o) # 0
    BY <1>3, <2>1, <2>2 DEF Command
  <2>3. CASE ExitCode(o) = 0
    <3>1. /\ job' = [cmd |-> job.cmd + 1, wrote |-> job.wrote \/ wrote, clean |-> job.clean /\ o = "zero"]
          /\ UNCHANGED status
      BY <2>1, <2>3 DEF Command
    <3>2. job \in [cmd : Nat, wrote : BOOLEAN, clean : BOOLEAN]
      BY Zenon
    <3>3. job.cmd + 1 \in Nat /\ job.wrote \in BOOLEAN /\ job.clean \in BOOLEAN
      BY ONLY <3>2
    <3>4. (job.wrote \/ wrote) \in BOOLEAN
      BY ONLY <3>3, wrote \in BOOLEAN, Connectives
    <3>5. (job.clean /\ o = "zero") \in BOOLEAN
      BY ONLY <3>3, Connectives
    <3>6. job' \in [cmd : Nat, wrote : BOOLEAN, clean : BOOLEAN]
      BY <3>1, <3>3, <3>4, <3>5, Zenon
    <3> QED
      BY <3>1, <3>6
  <2> QED
    BY <2>2, <2>3
<1>9. CASE User
  <2>1. ASSUME NEW f \in Files, NEW time, Touch(f, time)
        PROVE  JobTypes'
    BY <2>1 DEF Touch
  <2> QED
    BY <1>9, <2>1, XBuildAssumption DEF User, Tick, Edit, Remove, calls, Files
<1>10. CASE UNCHANGED vars
  BY <1>10 DEF vars, calls
<1> QED
  BY <1>2, <1>4, <1>5, <1>6, <1>7, <1>8, <1>9, <1>10 DEF XNext, ExecTarget

LEMMA TypesFollow == CallInv /\ FileTypes /\ JobTypes => XTypeOK
<1> SUFFICES ASSUME CallInv, FileTypes, JobTypes PROVE XTypeOK
  OBVIOUS
<1>1. \A t \in DOMAIN project : project[t] \in Target
  BY ProjectTypes DEF CallInv, CallTypes
<1>2. \A d \in DOMAIN stack : stack[d].target \in DOMAIN project /\ stack[d].k \in Nat \ {0}
  <2> SUFFICES ASSUME NEW d \in 1 .. Len(stack)
               PROVE  stack[d].target \in DOMAIN project /\ stack[d].k \in Nat \ {0}
    BY LenProperties DEF CallInv, CallTypes
  <2>1. stack[d].target \in DOMAIN project
    BY DEF CallInv, CallTypes, Unbuilt
  <2>2. stack[d].k \in Nat
    <3>1. stack[d] \in Frame
      BY ElementOfSeq DEF CallInv, CallTypes
    <3> QED
      BY <3>1 DEF Frame
  <2>3. stack[d].k # 0
    BY DEF CallInv, Behind
  <2> QED
    BY <2>1, <2>2, <2>3
<1>3. /\ Len(stack) <= MaxDepth
      /\ alreadyBuilt \subseteq building /\ building \subseteq DOMAIN project
  BY DEF CallInv, CallTypes
<1> QED
  BY <1>1, <1>2, <1>3 DEF XTypeOK, FileTypes, JobTypes

\* The type invariant: the maps name only targets of xbuild.json, and what is
\* built was begun.
THEOREM XBuildTypeCorrect == XSpec => []XTypeOK
<1>1. XInit => FileTypes
  <2> SUFFICES ASSUME XInit PROVE FileTypes
    OBVIOUS
  <2>1. mtime \in [Files -> 0 .. clock] /\ clock \in 1 .. MaxClock
    BY XBuildAssumption DEF XInit, Missing
  <2> QED
    BY <2>1 DEF XInit, FileTypes
<1>2. XInit => JobTypes
  BY DEF XInit, JobTypes, NoJob
<1> QED
  BY <1>1, <1>2, CallInvInit, CallInvStep, FileTypesStep, JobTypesStep, TypesFollow, PTL DEF XSpec

\* execTarget comes to a target when all it needs is built, and never to one
\* that is built already: for any dependencies, cycles included, because a
\* target on a cycle never comes to the end of its own.
THEOREM DependenciesBuiltOnceHolds == XSpec => []DependenciesBuiltOnce
<1>1. ASSUME CallInv
      PROVE  DependenciesBuiltOnce
  <2> SUFFICES ASSUME AtExec
               PROVE  Top.target \notin alreadyBuilt /\ Dependencies(Top.target) \subseteq alreadyBuilt
    BY DEF DependenciesBuiltOnce
  <2> USE <1>1 DEF CallInv, CallTypes
  <2>1. Len(stack) \in Nat \ {0} /\ Len(stack) \in 1 .. Len(stack)
    BY EmptySeq DEF AtExec
  <2>2. Top.target \in building \ alreadyBuilt /\ Top.target \in DOMAIN project
    BY <2>1 DEF Unbuilt, Top
  <2>3. \A t \in DOMAIN project :
          /\ Len(project[t].targets) \in Nat
          /\ DOMAIN project[t].targets = 1 .. Len(project[t].targets)
    BY ProjectTypes, LenProperties
  <2>4. \A j \in DOMAIN project[Top.target].targets : project[Top.target].targets[j] \in alreadyBuilt
    BY <2>1, <2>2, <2>3 DEF AtExec, Behind, TargetsOf, Top, Current
  <2>5. \A t \in alreadyBuilt : \A j \in DOMAIN project[t].targets :
          project[t].targets[j] \in alreadyBuilt
    BY <2>3 DEF Closed
  <2>6. alreadyBuilt \in SUBSET Names
    BY ProjectTypes
  <2> QED
    BY <2>2, <2>4, <2>5, <2>6 DEF Dependencies
<1> QED
  BY <1>1, CallInvInit, CallInvStep, PTL DEF XSpec
----------------------------------------------------------------------------
(* What the times of the files tell of the work of earlier runs *)

\* The files whose changes xbuild can see when it comes to t, ...
Watched(t) ==
  project[t].inputs \cup IF project[t].makeDeps /\ depFile[t] # "none" THEN project[t].reads ELSE {}

\* ... and a target that is not up to date because of one it reads.
Stale(t) ==
  \/ mtime[t] = Missing
  \/ \E f \in Watched(t) \cap project[t].reads : mtime[f] = Missing \/ mtime[f] > mtime[t]

Told(t) == project[t].makeDeps \/ project[t].reads \subseteq project[t].inputs

\* A target that is not the work of a good run on what is there now, and not
\* one of the exceptions, shows it as long as it is not made again.
StaleShows == \A t \in DOMAIN project \cap (outdated \ unseen) : Told(t) => Stale(t)

\* Only commands leave files, and a good run leaves the dependency file.
Traces ==
  \A t \in DOMAIN project :
    /\ project[t].exec = 0 => mtime[t] = Missing
    /\ t \notin outdated /\ project[t].makeDeps /\ mtime[t] # Missing => depFile[t] # "none"

\* What the commands of the innermost target have done so far.
Progress ==
  job # NoJob =>
    /\ job.cmd # 0
    /\ job.clean /\ job.cmd > Current.exec /\ Current.exec > 0 =>
         /\ Current.makeDeps => depFile[Top.target] = "good"
         /\ Current.makes => job.wrote

TimesInv == StaleShows /\ Traces /\ Progress

\* As long as nobody interferes, what is built in this invocation is the work
\* of good runs.
Undisturbed == ~disturbed /\ ~killed

Fresh ==
  Undisturbed => job.clean /\ \A t \in alreadyBuilt : Declared(t) => t \notin outdated \ unseen
----------------------------------------------------------------------------
LEMMA Fields ==
  ASSUME CallInv, NEW t \in DOMAIN project
  PROVE  /\ t \in Names /\ t \in Files
         /\ project[t].exec \in Nat
         /\ project[t].reads \subseteq Files /\ project[t].inputs \subseteq Files
         /\ project[t].makeDeps \in BOOLEAN /\ project[t].makes \in BOOLEAN
  BY ProjectTypes DEF CallInv, CallTypes, Target

\* The innermost target.
LEMMA Innermost ==
  ASSUME CallInv, stack # <<>>
  PROVE  /\ Top.target \in DOMAIN project \ alreadyBuilt
         /\ Current = project[Top.target]
<1>1. Len(stack) \in Nat \ {0} /\ Len(stack) \in 1 .. Len(stack)
  BY EmptySeq DEF CallInv, CallTypes
<1> QED
  BY <1>1 DEF Top, Current, CallInv, CallTypes, Unbuilt

\* The end of a command, with its outcome.
Ran(o, wrote, dep) ==
  /\ job # NoJob
  /\ wrote => Current.makes
  /\ dep # depFile[Top.target] => Current.makeDeps /\ dep # "none"
  /\ Complete(o, wrote, dep)
  /\ Command(o, wrote, dep)
  /\ IF wrote THEN Written(Top.target, {Top.target}) ELSE UNCHANGED <<outdated, unseen>>
  /\ killed' = (killed \/ o = "killed")
  /\ UNCHANGED <<disturbed, settled>>

LEMMA Runs ==
  CommandEnds <=> \E o \in Outcomes, wrote \in BOOLEAN, dep \in {"none", "good", "bad"} : Ran(o, wrote, dep)
BY DEF CommandEnds, Ran

\* What it leaves, whatever its outcome.
LEMMA RanFiles ==
  ASSUME CallInv, FileTypes, NEW o \in Outcomes, NEW wrote \in BOOLEAN,
         NEW dep \in {"none", "good", "bad"}, Ran(o, wrote, dep)
  PROVE  /\ Top.target \in DOMAIN project \ alreadyBuilt /\ Top.target \in Names
         /\ Current = project[Top.target] /\ stack # <<>>
         /\ UNCHANGED <<project, clock, disturbed, settled>>
         /\ mtime'[Top.target] = IF wrote THEN clock ELSE mtime[Top.target]
         /\ \A f \in Files : f # Top.target => mtime'[f] = mtime[f]
         /\ depFile'[Top.target] = dep
         /\ depFile[Top.target] # "none" => dep # "none"
         /\ \A t \in Names : t # Top.target => depFile'[t] = depFile[t]
         /\ job.cmd <= Current.exec /\ clock \in Nat \ {0}
<1>1. stack # <<>>
  BY DEF Ran, CallInv, AtEnd
<1>2. Top.target \in DOMAIN project \ alreadyBuilt /\ Current = project[Top.target]
  BY <1>1, Innermost
<1>3. Top.target \in Names /\ Top.target \in Files
  BY <1>2, Fields
<1>4. Effects(Top.target, wrote, dep) /\ UNCHANGED <<project, disturbed, settled>> /\ job.cmd <= Current.exec
  BY DEF Ran, Command
<1>5. clock \in Nat \ {0}
  BY XBuildAssumption DEF FileTypes
<1>6. /\ mtime'[Top.target] = IF wrote THEN clock ELSE mtime[Top.target]
      /\ \A f \in Files : f # Top.target => mtime'[f] = mtime[f]
  BY <1>3, <1>4 DEF Effects, FileTypes
<1>7. /\ depFile'[Top.target] = dep /\ \A t \in Names : t # Top.target => depFile'[t] = depFile[t]
  BY <1>3, <1>4 DEF Effects, FileTypes
<1>8. depFile[Top.target] # "none" => dep # "none"
  BY DEF Ran
<1> QED
  BY <1>1, <1>2, <1>3, <1>4, <1>5, <1>6, <1>7, <1>8 DEF Effects
----------------------------------------------------------------------------
\* A target that shows its age goes on showing it when another file is removed
\* or written, unless it reads that file and has its time.
LEMMA StaleKept ==
  ASSUME CallInv, FileTypes, NEW t \in DOMAIN project, Stale(t), UNCHANGED project,
         NEW f \in Files, f # t, NEW time \in {clock, Missing}, mtime'[f] = time,
         \A g \in Files : g # f => mtime'[g] = mtime[g],
         depFile[t] # "none" => depFile'[t] # "none",
         time # Missing /\ f \in project[t].reads => mtime[t] # clock
  PROVE  Stale(t)'
<1>1. /\ t \in Files /\ project[t].reads \subseteq Files /\ clock \in Nat \ {0}
      /\ \A g \in Files : mtime[g] \in 0 .. clock
  BY Fields, XBuildAssumption DEF FileTypes
<1>2. CASE mtime[t] = Missing
  BY <1>1, <1>2 DEF Stale
<1>3. CASE mtime[t] # Missing
  <2>1. PICK g \in Watched(t) \cap project[t].reads : mtime[g] = Missing \/ mtime[g] > mtime[t]
    BY <1>3 DEF Stale
  <2>2. g \in Watched(t)' \cap project[t].reads /\ g \in Files
    BY <1>1, <2>1 DEF Watched
  <2>3. mtime'[g] = Missing \/ mtime'[g] > mtime'[t]
    <3>1. CASE g # f
      BY <1>1, <2>1, <2>2, <3>1
    <3>2. CASE g = f /\ time # Missing
      BY <1>1, <2>1, <3>2 DEF Missing
    <3>3. CASE g = f /\ time = Missing
      BY <3>3
    <3> QED
      BY <3>1, <3>2, <3>3
  <2> QED
    BY <2>2, <2>3 DEF Stale
<1> QED
  BY <1>2, <1>3

\* What a target of a good run reads is watched.
LEMMA GoodWatched ==
  ASSUME Traces, NEW t \in DOMAIN project, t \notin outdated, Told(t), mtime[t] # Missing
  PROVE  project[t].reads \subseteq Watched(t)
BY DEF Traces, Told, Watched

\* The same for a target that becomes outdated as f changes.
LEMMA StaleBegins ==
  ASSUME CallInv, FileTypes, Traces, NEW t \in DOMAIN project, UNCHANGED project, Told(t),
         t \notin outdated \/ t \in unseen,
         NEW f \in Files, f # t, NEW time \in {clock, Missing}, mtime'[f] = time,
         \A g \in Files : g # f => mtime'[g] = mtime[g],
         depFile[t] # "none" => depFile'[t] # "none",
         f \in project[t].reads,
         t \in outdated => f \in Inputs(t),
         time # Missing => mtime[t] # clock
  PROVE  Stale(t)'
<1>1. /\ t \in Files /\ clock \in Nat \ {0} /\ \A g \in Files : mtime[g] \in 0 .. clock
  BY Fields, XBuildAssumption DEF FileTypes
<1>2. CASE mtime[t] = Missing
  BY <1>1, <1>2 DEF Stale
<1>3. CASE mtime[t] # Missing
  <2>1. f \in Watched(t)
    <3>1. CASE t \notin outdated
      BY <1>3, <3>1, GoodWatched
    <3>2. CASE t \in outdated
      BY <3>2 DEF Inputs, Listed, Watched
    <3> QED
      BY <3>1, <3>2
  <2>2. f \in Watched(t)'
    BY <2>1 DEF Watched
  <2> QED
    BY <1>1, <1>3, <2>2 DEF Stale, Missing
<1> QED
  BY <1>2, <1>3
----------------------------------------------------------------------------
LEMMA StaleShowsStep ==
  ASSUME CallInv, FileTypes, JobTypes, TimesInv, [XNext]_vars
  PROVE  StaleShows'
<1> USE DEF TimesInv
<1>0. ASSUME UNCHANGED <<project, mtime, depFile>>, outdated' \ unseen' \subseteq outdated \ unseen
      PROVE  StaleShows'
  BY <1>0 DEF StaleShows, Told, Stale, Watched
<1>1. CASE CommandEnds
  <2>1. PICK o \in Outcomes, wrote \in BOOLEAN, dep \in {"none", "good", "bad"} : Ran(o, wrote, dep)
    BY <1>1, Runs
  <2> DEFINE w == Top.target
  <2>2. /\ w \in DOMAIN project /\ w \in Names /\ w \in Files
        /\ UNCHANGED <<project, clock>>
        /\ mtime'[w] = IF wrote THEN clock ELSE mtime[w]
        /\ \A f \in Files : f # w => mtime'[f] = mtime[f]
        /\ depFile'[w] = dep
        /\ depFile[w] # "none" => dep # "none"
        /\ \A t \in Names : t # w => depFile'[t] = depFile[t]
    BY <2>1, RanFiles DEF Files
  <2> HIDE DEF w
  <2> SUFFICES ASSUME NEW t \in DOMAIN project, t \in outdated', t \notin unseen', Told(t)
               PROVE  Stale(t)'
    BY <2>2 DEF StaleShows, Told
  <2>3. /\ t \in Names /\ t \in Files
        /\ depFile[t] # "none" => depFile'[t] # "none"
    BY <2>2, Fields
  <2>4. CASE wrote
    <3>1. Written(w, {w})
      BY <2>1, <2>4 DEF Ran, w
    <3>2. t # w /\ (w \in project[t].reads => mtime[t] # clock)
      BY <2>2, <3>1 DEF Written, Readers
    <3>3. t \in outdated \ unseen \/ (w \in project[t].reads /\ (t \in unseen => w \in Inputs(t)))
      BY <3>1 DEF Written, Readers
    <3>4. CASE t \in outdated \ unseen
      <4>1. Stale(t)
        BY <3>4 DEF StaleShows
      <4> QED
        BY <2>2, <2>3, <2>4, <3>2, <4>1, StaleKept
    <3>5. CASE ~(t \in outdated \ unseen)
      BY <2>2, <2>3, <2>4, <3>2, <3>3, <3>5, StaleBegins
    <3> QED
      BY <3>4, <3>5
  <2>5. CASE ~wrote
    <3>1. t \in outdated \ unseen /\ \A f \in Files : mtime'[f] = mtime[f]
      BY <2>1, <2>2, <2>5 DEF Ran
    <3>2. Stale(t) /\ project[t].reads \subseteq Files
      BY <3>1, Fields DEF StaleShows
    <3>3. Watched(t) \subseteq Watched(t)'
      BY <2>2, <2>3 DEF Watched
    <3> QED
      BY <2>2, <2>3, <3>1, <3>2, <3>3 DEF Stale
  <2> QED
    BY <2>4, <2>5
<1>2. CASE Finish
  BY <1>0, <1>2 DEF Finish, Built, files
<1>3. ASSUME NEW f \in Sources, Edit(f)
      PROVE  StaleShows'
  <2>1. /\ f \in Files /\ f \notin Names
        /\ mtime'[f] = clock /\ \A g \in Files : g # f => mtime'[g] = mtime[g]
        /\ UNCHANGED <<project, depFile>>
    BY <1>3, XBuildAssumption DEF Edit, Touch, Files, FileTypes
  <2> SUFFICES ASSUME NEW t \in DOMAIN project, t \in outdated', t \notin unseen', Told(t)
               PROVE  Stale(t)'
    BY <2>1 DEF StaleShows, Told
  <2>2. t # f /\ t \in Files
    BY <2>1, Fields
  <2>3. Written(f, {})
    BY <1>3 DEF Edit
  <2>4. f \in project[t].reads => mtime[t] # clock
    BY <2>3 DEF Written, Readers
  <2>5. CASE t \in outdated \ unseen
    <3>1. Stale(t)
      BY <2>5 DEF StaleShows
    <3> QED
      BY <2>1, <2>2, <2>4, <3>1, StaleKept
  <2>6. CASE ~(t \in outdated \ unseen)
    <3>1. f \in project[t].reads /\ (t \in unseen => f \in Inputs(t))
      BY <2>3, <2>6 DEF Written, Readers
    <3>2. t \in outdated => f \in Inputs(t)
      BY <2>6, <3>1
    <3> QED
      BY <2>1, <2>2, <2>4, <2>6, <3>1, <3>2, StaleBegins
  <2> QED
    BY <2>5, <2>6
<1>4. ASSUME NEW f \in Files, Remove(f)
      PROVE  StaleShows'
  <2>1. /\ mtime'[f] = Missing /\ \A g \in Files : g # f => mtime'[g] = mtime[g]
        /\ UNCHANGED <<project, depFile>>
        /\ outdated' = outdated \cup Readers(f) \cup ({f} \cap DOMAIN project)
        /\ unseen' = unseen \ ({f} \cup {r \in Readers(f) : f \in Inputs(r)})
    BY <1>4 DEF Remove, Touch, FileTypes
  <2> SUFFICES ASSUME NEW t \in DOMAIN project, t \in outdated', t \notin unseen', Told(t)
               PROVE  Stale(t)'
    BY <2>1 DEF StaleShows, Told
  <2>2. t \in Files
    BY Fields
  <2>3. CASE t = f
    BY <2>1, <2>3 DEF Stale
  <2>4. CASE t # f /\ t \in outdated \ unseen
    <3>1. Stale(t)
      BY <2>4 DEF StaleShows
    <3> QED
      BY <2>1, <2>2, <2>4, <3>1, StaleKept
  <2>5. CASE t # f /\ ~(t \in outdated \ unseen)
    <3>1. f \in project[t].reads /\ (t \in unseen => f \in Inputs(t))
      BY <2>1, <2>5 DEF Readers
    <3>2. t \in outdated => f \in Inputs(t)
      BY <2>5, <3>1
    <3> QED
      BY <2>1, <2>2, <2>5, <3>1, <3>2, StaleBegins
  <2> QED
    BY <2>3, <2>4, <2>5
<1>5. CASE UNCHANGED <<project, files, outdated, unseen>>
  BY <1>0, <1>5 DEF files
<1>6. CASE Tick
  BY <1>0, <1>6 DEF Tick, history
<1>7. XNext => \/ UNCHANGED <<project, files, outdated, unseen>> \/ CommandEnds \/ Finish \/ User
  BY DEF XNext, BuildTarget, ExecTarget, Start, NoTarget, CallBuilt, Circular, Overflow, Enter,
         BadDepFile, UpToDateReturn, BeginExec, Ends, Built, history
<1> QED
  BY <1>1, <1>2, <1>3, <1>4, <1>5, <1>6, <1>7 DEF User, vars, history

LEMMA TracesStep ==
  ASSUME CallInv, FileTypes, JobTypes, TimesInv, [XNext]_vars
  PROVE  Traces'
<1> USE DEF TimesInv
<1>0. ASSUME UNCHANGED <<project, mtime, depFile>>, outdated \subseteq outdated'
      PROVE  Traces'
  BY <1>0 DEF Traces
<1>1. CASE CommandEnds
  <2>1. PICK o \in Outcomes, wrote \in BOOLEAN, dep \in {"none", "good", "bad"} : Ran(o, wrote, dep)
    BY <1>1, Runs
  <2> DEFINE w == Top.target
  <2>2. /\ w \in DOMAIN project /\ w \in Names
        /\ UNCHANGED project
        /\ mtime'[w] = IF wrote THEN clock ELSE mtime[w]
        /\ \A f \in Files : f # w => mtime'[f] = mtime[f]
        /\ depFile'[w] = dep
        /\ depFile[w] # "none" => dep # "none"
        /\ \A t \in Names : t # w => depFile'[t] = depFile[t]
        /\ job.cmd <= Current.exec /\ Current = project[w]
    BY <2>1, RanFiles
  <2>3. outdated \subseteq outdated' /\ (wrote => w \in outdated') /\ job # NoJob
    BY <2>1 DEF Ran, Written, w
  <2>4. project[w].exec # 0
    <3>1. job.cmd # 0 /\ job.cmd \in Nat
      BY <2>3 DEF Progress, JobTypes
    <3> QED
      BY <2>2, <3>1, Fields
  <2> HIDE DEF w
  <2> SUFFICES ASSUME NEW t \in DOMAIN project
               PROVE  /\ project[t].exec = 0 => mtime'[t] = Missing
                      /\ t \notin outdated' /\ project[t].makeDeps /\ mtime'[t] # Missing
                           => depFile'[t] # "none"
    BY <2>2 DEF Traces
  <2>5. t \in Names /\ t \in Files
    BY Fields
  <2>6. CASE t = w
    BY <2>2, <2>3, <2>4, <2>6 DEF Traces
  <2>7. CASE t # w
    BY <2>2, <2>3, <2>5, <2>7 DEF Traces
  <2> QED
    BY <2>6, <2>7
<1>2. CASE Finish
  <2>1. /\ UNCHANGED <<project, mtime, depFile>>
        /\ \/ UNCHANGED outdated
           \/ job.clean /\ outdated' = outdated \ {Top.target}
        /\ job # NoJob /\ job.cmd > Current.exec
    BY <1>2 DEF Finish, Built, files
  <2>2. CASE UNCHANGED outdated
    BY <1>0, <2>1, <2>2
  <2>3. CASE job.clean /\ outdated' = outdated \ {Top.target}
    <3> DEFINE w == Top.target
    <3>1. w \in DOMAIN project /\ Current = project[w] /\ project[w].exec \in Nat
      BY <2>1, Innermost, Fields DEF CallInv, AtEnd
    <3>2. project[w].exec > 0 /\ project[w].makeDeps => depFile[w] = "good"
      BY <2>1, <2>3, <3>1 DEF Progress
    <3>3. project[w].exec = 0 => mtime[w] = Missing
      BY <3>1 DEF Traces
    <3>4. project[w].makeDeps /\ mtime[w] # Missing => depFile[w] # "none"
      BY <3>1, <3>2, <3>3
    <3> QED
      BY <2>1, <2>3, <3>4 DEF Traces
  <2> QED
    BY <2>1, <2>2, <2>3
<1>3. ASSUME NEW f \in Sources, Edit(f)
      PROVE  Traces'
  <2>1. /\ f \notin Names /\ \A g \in Files : g # f => mtime'[g] = mtime[g]
        /\ UNCHANGED <<project, depFile>> /\ outdated \subseteq outdated'
    BY <1>3, XBuildAssumption DEF Edit, Touch, Written, FileTypes
  <2>2. \A t \in DOMAIN project : t # f /\ t \in Files
    BY <2>1, Fields
  <2> QED
    BY <2>1, <2>2 DEF Traces
<1>4. ASSUME NEW f \in Files, Remove(f)
      PROVE  Traces'
  <2>1. /\ mtime'[f] = Missing /\ \A g \in Files : g # f => mtime'[g] = mtime[g]
        /\ UNCHANGED <<project, depFile>> /\ outdated \subseteq outdated'
    BY <1>4 DEF Remove, Touch, FileTypes
  <2>2. \A t \in DOMAIN project : t \in Files
    BY Fields
  <2> QED
    BY <2>1, <2>2 DEF Traces
<1>5. CASE UNCHANGED <<project, files, outdated, unseen>>
  BY <1>0, <1>5 DEF files
<1>6. CASE Tick
  BY <1>0, <1>6 DEF Tick, history
<1>7. XNext => \/ UNCHANGED <<project, files, outdated, unseen>> \/ CommandEnds \/ Finish \/ User
  BY DEF XNext, BuildTarget, ExecTarget, Start, NoTarget, CallBuilt, Circular, Overflow, Enter,
         BadDepFile, UpToDateReturn, BeginExec, Ends, Built, history
<1> QED
  BY <1>1, <1>2, <1>3, <1>4, <1>5, <1>6, <1>7 DEF User, vars, history

\* The user may spoil the work of the job at hand, nothing more.
LEMMA UserJob ==
  ASSUME JobTypes, User \/ UNCHANGED vars
  PROVE  /\ UNCHANGED <<project, status, stack, alreadyBuilt, building, depFile, builds, killed, settled>>
         /\ job = NoJob => job' = NoJob
         /\ job # NoJob => job'.cmd = job.cmd /\ job'.wrote = job.wrote /\ (job'.clean => job.clean)
         /\ disturbed => disturbed'
         /\ ~disturbed' => UNCHANGED <<job, mtime, outdated, unseen>>
<1>1. ASSUME NEW f \in Files, NEW time, Touch(f, time)
      PROVE  /\ UNCHANGED <<project, status, stack, alreadyBuilt, building, depFile, builds, killed, settled>>
             /\ job = NoJob => job' = NoJob
             /\ job # NoJob => job'.cmd = job.cmd /\ job'.wrote = job.wrote /\ (job'.clean => job.clean)
             /\ disturbed'
  <2>1. UNCHANGED <<project, status, stack, alreadyBuilt, building, depFile, builds, killed, settled>> /\ disturbed'
    BY <1>1 DEF Touch
  <2>2. ASSUME job = NoJob PROVE job' = NoJob
    <3>1. [NoJob EXCEPT !.clean = @ /\ ~FALSE] = NoJob
      BY DEF NoJob
    <3> QED
      BY <1>1, <2>2, <3>1 DEF Touch
  <2>3. job'.cmd = job.cmd /\ job'.wrote = job.wrote /\ (job'.clean => job.clean)
    BY <1>1 DEF Touch, JobTypes
  <2> QED
    BY <2>1, <2>2, <2>3
<1>2. CASE \E f \in Files, time \in 0 .. clock : Touch(f, time)
  BY <1>1, <1>2
<1>3. CASE Tick \/ UNCHANGED vars
  BY <1>3 DEF Tick, vars, calls, files, history
<1>4. CASE User
  BY <1>1, <1>3, <1>4 DEF User, Edit, Remove, Files
<1> QED
  BY <1>3, <1>4

LEMMA ProgressStep ==
  ASSUME CallInv, FileTypes, JobTypes, TimesInv, [XNext]_vars
  PROVE  Progress'
<1> USE DEF TimesInv
<1>1. CASE job' = NoJob
  BY <1>1 DEF Progress
<1>2. CASE BeginExec
  <2>1. job' = [NoJob EXCEPT !.cmd = 1] /\ UNCHANGED <<project, stack>> /\ stack # <<>>
    BY <1>2 DEF BeginExec, AtExec
  <2>2. job'.cmd = 1
    BY <2>1 DEF NoJob
  <2>3. Current' = Current /\ Current.exec \in Nat
    BY <2>1, Innermost, Fields DEF Current, Top
  <2> QED
    BY <2>2, <2>3 DEF Progress
<1>3. CASE CommandEnds
  <2>1. PICK o \in Outcomes, wrote \in BOOLEAN, dep \in {"none", "good", "bad"} : Ran(o, wrote, dep)
    BY <1>3, Runs
  <2>2. CASE ExitCode(o) # 0
    BY <1>1, <2>1, <2>2 DEF Ran, Command, Exit
  <2>3. CASE ExitCode(o) = 0
    <3>1. /\ job' = [cmd |-> job.cmd + 1, wrote |-> job.wrote \/ wrote, clean |-> job.clean /\ o = "zero"]
          /\ UNCHANGED <<project, stack>> /\ Complete(o, wrote, dep)
      BY <2>1, <2>3 DEF Ran, Command
    <3>2. /\ job.cmd <= Current.exec /\ stack # <<>> /\ Current = project[Top.target]
          /\ Top.target \in DOMAIN project /\ depFile'[Top.target] = dep
      BY <2>1, RanFiles
    <3>3. /\ job'.cmd = job.cmd + 1 /\ (job'.clean => job.clean /\ o = "zero")
          /\ job'.wrote <=> job.wrote \/ wrote
      BY <3>1
    <3>4. job.cmd \in Nat /\ Current.exec \in Nat
      BY <3>2, Fields DEF JobTypes
    <3>5. Current' = Current /\ Top' = Top
      BY <3>1 DEF Current, Top
    <3>6. job'.cmd # 0 /\ (job'.cmd > Current.exec => job.cmd = Current.exec)
      BY <3>2, <3>3, <3>4
    <3>7. ASSUME job'.clean, job'.cmd > Current.exec
          PROVE  /\ Current.makeDeps => depFile'[Top.target] = "good"
                 /\ Current.makes => job'.wrote
      BY <3>2, <3>1, <3>3, <3>6, <3>7 DEF Complete
    <3> QED
      BY <3>5, <3>6, <3>7 DEF Progress
  <2> QED
    BY <2>2, <2>3
<1>4. CASE User \/ UNCHANGED vars
  <2>1. UNCHANGED <<project, stack, depFile>> /\ Current' = Current /\ Top' = Top
    BY <1>4, UserJob DEF Current, Top
  <2> QED
    BY <1>4, <2>1, UserJob DEF Progress
<1>5. ASSUME NEW t \in Names, BuildTarget(t)
      PROVE  job' = NoJob
  BY <1>5 DEF BuildTarget, NoTarget, CallBuilt, Circular, Overflow, Enter, Ends, Exit, Calls
<1>6. Start \/ BadDepFile \/ UpToDateReturn \/ Finish => job' = NoJob
  BY DEF Start, BadDepFile, UpToDateReturn, Finish, Ends, Exit, Built
<1> QED
  BY <1>1, <1>2, <1>3, <1>4, <1>5, <1>6 DEF XNext, ExecTarget
----------------------------------------------------------------------------
\* What is built needs only what is built.
LEMMA BuiltDependencies ==
  ASSUME CallInv, NEW t \in alreadyBuilt
  PROVE  Dependencies(t) \subseteq alreadyBuilt
<1> USE DEF CallInv, CallTypes
<1>1. \A u \in DOMAIN project : DOMAIN project[u].targets = 1 .. Len(project[u].targets)
  BY ProjectTypes, LenProperties
<1>2. \A u \in alreadyBuilt : \A j \in DOMAIN project[u].targets : project[u].targets[j] \in alreadyBuilt
  BY <1>1 DEF Closed
<1>3. alreadyBuilt \in SUBSET Names
  BY ProjectTypes
<1> QED
  BY <1>2, <1>3 DEF Dependencies

LEMMA DeclaredStays ==
  ASSUME UNCHANGED project
  PROVE  \A t : Declared(t)' = Declared(t) /\ Dependencies(t)' = Dependencies(t)
<1>1. \A t : Dependencies(t)' = Dependencies(t)
  BY DEF Dependencies
<1> QED
  BY <1>1 DEF Declared

\* execTarget sees what shows its age.
LEMMA StaleIsSeen ==
  ASSUME CallInv, FileTypes, NEW t \in DOMAIN project, Declared(t), Stale(t),
         ~(project[t].makeDeps /\ depFile[t] = "bad")
  PROVE  ~UpToDate(t)
<1> SUFFICES ASSUME UpToDate(t) PROVE FALSE
  OBVIOUS
<1>1. /\ t \in Names /\ t \in Files /\ project[t].reads \subseteq Files /\ clock \in Nat
      /\ \A f \in Files : mtime[f] \in 0 .. clock
  BY Fields, XBuildAssumption DEF FileTypes
<1>2. Outputs(t) = {t}
  BY DEF UpToDate, Outputs, Declared
<1>3. Watched(t) \subseteq Inputs(t)
  BY <1>1 DEF Watched, Inputs, Listed, FileTypes
<1>4. mtime[t] # Missing
  BY <1>2 DEF UpToDate
<1>5. PICK f \in Watched(t) \cap project[t].reads : mtime[f] = Missing \/ mtime[f] > mtime[t]
  BY <1>4 DEF Stale
<1>6. f \in Files /\ mtime[f] # Missing /\ mtime[f] <= mtime[t]
  BY <1>1, <1>2, <1>3, <1>5 DEF UpToDate
<1> QED
  BY <1>1, <1>5, <1>6

\* What a command writes, nothing built reads.
LEMMA NobodyReads ==
  ASSUME CallInv, NEW w \in Names \ alreadyBuilt, NEW t \in alreadyBuilt, Declared(t)
  PROVE  w \notin project[t].reads /\ w # t
BY BuiltDependencies DEF Declared

LEMMA FreshStep ==
  ASSUME CallInv, FileTypes, JobTypes, TimesInv, Fresh, [XNext]_vars
  PROVE  Fresh'
<1> USE DEF TimesInv
<1>1. UNCHANGED project /\ \A t : Declared(t)' = Declared(t)
  <2>1. UNCHANGED project
    BY DEF XNext, BuildTarget, ExecTarget, Start, NoTarget, CallBuilt, Circular, Overflow, Enter,
           BadDepFile, UpToDateReturn, BeginExec, Ends, Built, CommandEnds, Command, Finish,
           User, Tick, Edit, Remove, Touch, vars
  <2> QED
    BY <2>1, DeclaredStays
<1>2. NoJob.clean
  BY DEF NoJob
<1>3. CASE alreadyBuilt' = {} /\ job' = NoJob
  BY <1>2, <1>3 DEF Fresh
<1>4. ASSUME UNCHANGED <<alreadyBuilt, history>>, job'.clean = job.clean
      PROVE  Fresh'
  BY <1>1, <1>4 DEF Fresh, history, Undisturbed
<1>5. CASE UpToDateReturn
  <2>1. /\ stack # <<>> /\ ReadsFile /\ UpToDate(Top.target)
        /\ alreadyBuilt' = alreadyBuilt \cup {Top.target} /\ job' = NoJob /\ UNCHANGED history
    BY <1>5 DEF UpToDateReturn, AtExec, Built
  <2>2. Top.target \in DOMAIN project /\ Current = project[Top.target]
    BY <2>1, Innermost
  <2>3. Declared(Top.target) => Top.target \notin outdated \ unseen
    <3> SUFFICES ASSUME Declared(Top.target), Top.target \in outdated \ unseen PROVE FALSE
      OBVIOUS
    <3>1. Stale(Top.target)
      BY <2>2 DEF StaleShows, Told, Declared
    <3> QED
      BY <2>1, <2>2, <3>1, StaleIsSeen DEF ReadsFile
  <2> QED
    BY <1>1, <1>2, <2>1, <2>3 DEF Fresh, Undisturbed, history
<1>6. CASE Finish
  <2>1. /\ alreadyBuilt' = alreadyBuilt \cup {Top.target} /\ job' = NoJob
        /\ UNCHANGED <<disturbed, killed>>
        /\ job.clean => outdated' = outdated \ {Top.target} /\ unseen' = unseen \ {Top.target}
        /\ ~job.clean => UNCHANGED <<outdated, unseen>>
    BY <1>6 DEF Finish, Built
  <2> QED
    BY <1>1, <1>2, <2>1 DEF Fresh, Undisturbed
<1>7. CASE CommandEnds
  <2>1. PICK o \in Outcomes, wrote \in BOOLEAN, dep \in {"none", "good", "bad"} : Ran(o, wrote, dep)
    BY <1>7, Runs
  <2>2. CASE ExitCode(o) # 0
    BY <1>3, <2>1, <2>2 DEF Ran, Command, Exit
  <2>3. CASE ExitCode(o) = 0
    <3> SUFFICES ASSUME Undisturbed'
                 PROVE  job'.clean /\ \A t \in alreadyBuilt : Declared(t) => t \notin outdated' \ unseen'
      BY <1>1, <2>1, <2>3 DEF Fresh, Ran, Command
    <3>1. Undisturbed /\ o = "zero"
      <4>1. killed' = (killed \/ o = "killed") /\ UNCHANGED disturbed
        BY <2>1 DEF Ran
      <4>2. ~killed /\ ~disturbed /\ o # "killed"
        BY <4>1, Zenon DEF Undisturbed
      <4> QED
        BY <2>3, <4>2 DEF Undisturbed, ExitCode, Outcomes
    <3>2. job'.clean
      <4>1. job'.clean = (job.clean /\ o = "zero")
        BY <2>1, <2>3 DEF Ran, Command
      <4> QED
        BY <3>1, <4>1, Zenon DEF Fresh
    <3>3. Top.target \in Names \ alreadyBuilt
      BY <2>1, RanFiles
    <3>4. \A t \in alreadyBuilt : Declared(t) => t \notin Readers(Top.target) /\ t # Top.target
      BY <3>3, NobodyReads DEF Readers
    <3>5. outdated' \subseteq outdated \cup Readers(Top.target) \cup {Top.target}
      BY <2>1 DEF Ran, Written
    <3>6. unseen \ Readers(Top.target) \subseteq unseen'
      BY <2>1 DEF Ran, Written
    <3> QED
      BY <3>1, <3>2, <3>4, <3>5, <3>6 DEF Fresh
  <2> QED
    BY <2>2, <2>3
<1>8. CASE User \/ UNCHANGED vars
  <2>1. ~disturbed' => ~disturbed /\ UNCHANGED <<job, alreadyBuilt, killed, outdated, unseen>>
    BY <1>8, UserJob
  <2> QED
    BY <1>1, <2>1 DEF Fresh, Undisturbed
<1>9. ASSUME NEW t \in Names, BuildTarget(t)
      PROVE  Fresh'
  <2>1. CASE NoTarget(t) \/ Circular(t) \/ Overflow(t)
    BY <1>3, <2>1 DEF NoTarget, Circular, Overflow, Ends, Exit
  <2>2. CASE CallBuilt(t) \/ Enter(t)
    BY <1>4, <2>2 DEF CallBuilt, Enter
  <2> QED
    BY <1>9, <2>1, <2>2 DEF BuildTarget
<1>10. CASE Start \/ BadDepFile
  BY <1>3, <1>10 DEF Start, BadDepFile, Ends, Exit
<1>11. CASE BeginExec
  <2>1. job = NoJob /\ job' = [NoJob EXCEPT !.cmd = 1] /\ UNCHANGED <<alreadyBuilt, history>>
    BY <1>11 DEF BeginExec, AtExec
  <2>2. job'.clean = job.clean
    BY <2>1 DEF NoJob
  <2> QED
    BY <1>4, <2>1, <2>2
<1> QED
  BY <1>5, <1>6, <1>7, <1>8, <1>9, <1>10, <1>11 DEF XNext, ExecTarget

BuildInv == CallInv /\ FileTypes /\ JobTypes /\ TimesInv /\ Fresh

LEMMA BuildInvHolds == XSpec => []BuildInv
<1>1. XInit => FileTypes /\ JobTypes
  <2> SUFFICES ASSUME XInit PROVE FileTypes /\ JobTypes
    OBVIOUS
  <2>1. mtime \in [Files -> 0 .. clock] /\ clock \in 1 .. MaxClock
    BY XBuildAssumption DEF XInit, Missing
  <2> QED
    BY <2>1 DEF XInit, FileTypes, JobTypes, NoJob
<1>2. XInit => TimesInv /\ Fresh
  <2> SUFFICES ASSUME XInit PROVE TimesInv /\ Fresh
    OBVIOUS
  <2>1. \A t \in DOMAIN project : mtime[t] = Missing
    <3>1. \A t \in DOMAIN project : t \in Files /\ t \notin Sources
      BY XBuildAssumption DEF XInit, Files
    <3> QED
      BY <3>1 DEF XInit
  <2> QED
    BY <2>1 DEF XInit, TimesInv, StaleShows, Stale, Traces, Progress, Fresh, NoJob
<1>3. BuildInv /\ [XNext]_vars => BuildInv'
  BY CallInvStep, FileTypesStep, JobTypesStep, StaleShowsStep, TracesStep, ProgressStep, FreshStep
     DEF BuildInv, TimesInv
<1> QED
  BY <1>1, <1>2, <1>3, CallInvInit, PTL DEF XSpec, BuildInv

\* When xbuild succeeds and nothing was edited and no command was killed
\* meanwhile, what it went through is fresh, save what times cannot show: for
\* any projects, and whatever happened in earlier invocations.
THEOREM SuccessIsFreshHolds == XSpec => []SuccessIsFresh
<1>1. BuildInv => SuccessIsFresh
  BY DEF BuildInv, Fresh, Undisturbed, SuccessIsFresh
<1> QED
  BY <1>1, BuildInvHolds, PTL
----------------------------------------------------------------------------
(* A second invocation: nothing is to be done *)

\* A file that the job has written is the newest of all.
Newest ==
  ~disturbed /\ job # NoJob /\ job.wrote =>
    /\ mtime[Top.target] # Missing
    /\ \A f \in Files : mtime[f] <= mtime[Top.target]

\* What is built in this invocation could be seen to be up to date.
BuiltCurrent == Undisturbed => \A t \in alreadyBuilt : Checkable(t) => UpToDate(t)

\* The recursion comes to the goal and what it needs, and ends with the goal.
Reached == {Goal} \cup Dependencies(Goal)

Rooted ==
  /\ \A d \in 1 .. Len(stack) : stack[d].target \in Reached
  /\ stack # <<>> => stack[1].target = Goal
  /\ status = "done" => Goal \in alreadyBuilt

\* t and all that it needs can be seen to be up to date.
Sound(t) == \A u \in Dependencies(t) \cup {t} : Checkable(u)

\* After a success such targets are up to date, and no command of this
\* invocation is one of theirs.
Settled ==
  settled /\ ~disturbed =>
    /\ \A t \in Reached : t \in DOMAIN project /\ (Sound(t) => UpToDate(t))
    /\ job # NoJob => ~Sound(Top.target)

QuietInv == BuildInv /\ Newest /\ BuiltCurrent /\ Rooted /\ Settled
----------------------------------------------------------------------------
LEMMA Transitive ==
  ASSUME NEW g, NEW t \in Dependencies(g)
  PROVE  Dependencies(t) \subseteq Dependencies(g)
BY DEF Dependencies

LEMMA DirectDependency ==
  ASSUME NEW t \in DOMAIN project, NEW j \in DOMAIN project[t].targets, project[t].targets[j] \in Names
  PROVE  /\ project[t].targets[j] \in Dependencies(t)
         /\ \A g : t \in Dependencies(g) => project[t].targets[j] \in Dependencies(g)
BY DEF Dependencies

LEMMA UpToDateKept ==
  ASSUME CallInv, NEW t \in DOMAIN project, UNCHANGED project, UpToDate(t),
         project[t].outputs \subseteq {t}, NEW w, w # t, w \notin Inputs(t),
         \A f \in Files : f # w => mtime'[f] = mtime[f], depFile'[t] = depFile[t]
  PROVE  UpToDate(t)'
<1>1. Outputs(t) \subseteq {t} /\ Outputs(t)' = Outputs(t)
  BY DEF Outputs, Listed
<1>2. Inputs(t) \subseteq Files /\ Inputs(t)' = Inputs(t)
  BY Fields DEF Inputs, Listed
<1>3. \A f \in Outputs(t) \cup Inputs(t) : mtime'[f] = mtime[f]
  BY <1>1, <1>2, Fields
<1> QED
  BY <1>1, <1>2, <1>3 DEF UpToDate

LEMMA CheckableKept ==
  ASSUME CallInv, NEW t \in DOMAIN project, UNCHANGED project,
         NEW w \in Names, w \notin Dependencies(t),
         \A f \in Files : f # w => mtime'[f] = mtime[f],
         Checkable(t) \/ Checkable(t)'
  PROVE  /\ Checkable(t) /\ Checkable(t)'
         /\ w \notin Inputs(t)
<1>1. /\ Declared(t)' = Declared(t) /\ Dependencies(t)' = Dependencies(t)
      /\ project[t].reads \cup project[t].inputs \subseteq Files
  BY DeclaredStays, Fields
<1>2. Declared(t) /\ project[t].inputs \cap Names \subseteq Dependencies(t)
  BY <1>1 DEF Checkable
<1>3. w \notin project[t].reads \cup project[t].inputs
  BY <1>2 DEF Declared
<1>4. \A f \in project[t].reads \cup project[t].inputs : mtime'[f] = mtime[f]
  BY <1>1, <1>3
<1>5. w \notin Inputs(t)
  BY <1>3 DEF Inputs
<1>6. Checkable(t)' <=> Checkable(t)
  BY <1>1, <1>4 DEF Checkable
<1> QED
  BY <1>5, <1>6

\* When the commands of a target run, nothing that it needs needs it.
LEMMA NotInCycle ==
  ASSUME CallInv, stack # <<>>, Top.k > Len(Current.targets)
  PROVE  \A v \in Dependencies(Top.target) \cup {Top.target} :
           v \in DOMAIN project /\ Top.target \notin Dependencies(v)
<1> USE DEF CallInv, CallTypes
<1>1. Top.target \in DOMAIN project \ alreadyBuilt /\ Current = project[Top.target]
  BY Innermost
<1>2. Len(stack) \in 1 .. Len(stack)
  BY EmptySeq
<1>3. \A t \in DOMAIN project :
        Len(project[t].targets) \in Nat /\ DOMAIN project[t].targets = 1 .. Len(project[t].targets)
  BY ProjectTypes, LenProperties
<1>4. \A j \in DOMAIN project[Top.target].targets : project[Top.target].targets[j] \in alreadyBuilt
  BY <1>1, <1>2, <1>3 DEF Behind, TargetsOf, Top, Current
<1>5. \A t \in alreadyBuilt : \A j \in DOMAIN project[t].targets :
        project[t].targets[j] \in alreadyBuilt
  BY <1>3 DEF Closed
<1>6. alreadyBuilt \in SUBSET Names
  BY ProjectTypes
<1>7. Dependencies(Top.target) \subseteq alreadyBuilt
  BY <1>1, <1>4, <1>5, <1>6 DEF Dependencies
<1> QED
  BY <1>1, <1>7, BuiltDependencies

\* A command of such a target leaves every other that it does not serve, and
\* makes none sound.
LEMMA SoundKept ==
  ASSUME CallInv, stack # <<>>, Top.k > Len(Current.targets), ~Sound(Top.target),
         UNCHANGED project, Top.target \in Names,
         \A f \in Files : f # Top.target => mtime'[f] = mtime[f]
  PROVE  /\ \A t : t = Top.target => ~Sound(t)'
         /\ \A t : /\ Sound(t)'
                   /\ \A u \in Dependencies(t) \cup {t} : u \in DOMAIN project
                   => Sound(t) /\ t # Top.target /\ Top.target \notin Inputs(t)
<1> DEFINE w == Top.target
<1>0. \A t : Dependencies(t)' = Dependencies(t)
  BY DeclaredStays
<1>1. \A v \in Dependencies(w) \cup {w} : v \in DOMAIN project /\ w \notin Dependencies(v)
  BY NotInCycle
<1> HIDE DEF w
<1>2. w \in Names /\ ~Sound(w) /\ \A f \in Files : f # w => mtime'[f] = mtime[f]
  BY DEF w
<1>3. \A t : t = w => ~Sound(t)'
  <2>1. PICK v \in Dependencies(w) \cup {w} : ~Checkable(v)
    BY <1>2 DEF Sound
  <2>2. ~Checkable(v)'
    BY <1>1, <1>2, <2>1, CheckableKept
  <2> QED
    BY <1>0, <2>1, <2>2 DEF Sound
<1>4. ASSUME NEW t, Sound(t)', \A u \in Dependencies(t) \cup {t} : u \in DOMAIN project
      PROVE  Sound(t) /\ t # w /\ w \notin Inputs(t)
  <2>1. t # w
    BY <1>3, <1>4
  <2>2. w \notin Dependencies(t)
    <3> SUFFICES ASSUME w \in Dependencies(t) PROVE FALSE
      OBVIOUS
    <3>1. Dependencies(w) \subseteq Dependencies(t)
      BY Transitive
    <3>2. \A v \in Dependencies(w) \cup {w} : Checkable(v)'
      BY <1>0, <1>4, <3>1 DEF Sound
    <3>3. PICK v \in Dependencies(w) \cup {w} : ~Checkable(v)
      BY <1>2 DEF Sound
    <3> QED
      BY <1>1, <1>2, <3>2, <3>3, CheckableKept
  <2>3. ASSUME NEW u \in Dependencies(t) \cup {t}
        PROVE  Checkable(u) /\ w \notin Inputs(u)
    <3>1. w \notin Dependencies(u)
      BY <2>2, Transitive
    <3>2. Checkable(u)' /\ u \in DOMAIN project
      BY <1>0, <1>4 DEF Sound
    <3> QED
      BY <1>2, <3>1, <3>2, CheckableKept
  <2> QED
    BY <2>1, <2>3 DEF Sound
<1> QED
  BY <1>3, <1>4 DEF w
----------------------------------------------------------------------------
LEMMA NewestStep ==
  ASSUME BuildInv, Newest, [XNext]_vars
  PROVE  Newest'
<1> USE DEF BuildInv
<1>1. CASE job' = NoJob
  BY <1>1 DEF Newest
<1>2. CASE BeginExec
  BY <1>2 DEF BeginExec, Newest, NoJob
<1>3. CASE CommandEnds
  <2>1. PICK o \in Outcomes, wrote \in BOOLEAN, dep \in {"none", "good", "bad"} : Ran(o, wrote, dep)
    BY <1>3, Runs
  <2>2. CASE ExitCode(o) # 0
    BY <1>1, <2>1, <2>2 DEF Ran, Command, Exit
  <2>3. CASE ExitCode(o) = 0
    <3> DEFINE w == Top.target
    <3>1. /\ job'.wrote = (job.wrote \/ wrote) /\ UNCHANGED <<stack, disturbed>> /\ job # NoJob
      BY <2>1, <2>3 DEF Ran, Command
    <3>2. /\ w \in Files /\ clock \in Nat \ {0}
          /\ mtime'[w] = IF wrote THEN clock ELSE mtime[w]
          /\ \A f \in Files : f # w => mtime'[f] = mtime[f]
      BY <2>1, RanFiles DEF Files
    <3>3. \A f \in Files : mtime[f] \in 0 .. clock
      BY DEF FileTypes
    <3>4. Top' = Top
      BY <3>1 DEF Top
    <3> HIDE DEF w
    <3> SUFFICES ASSUME ~disturbed, job'.wrote
                 PROVE  mtime'[w] # Missing /\ \A f \in Files : mtime'[f] <= mtime'[w]
      BY <3>1, <3>4 DEF Newest, w
    <3>5. CASE wrote
      BY <3>2, <3>3, <3>5 DEF Missing
    <3>6. CASE ~wrote
      <4>1. job.wrote
        BY <3>1, <3>6, Zenon
      <4>2. mtime[w] # Missing /\ \A f \in Files : mtime[f] <= mtime[w]
        BY <3>1, <4>1 DEF Newest, w
      <4>3. \A f \in Files : mtime'[f] = mtime[f]
        BY <3>2, <3>6
      <4> QED
        BY <3>2, <4>2, <4>3
    <3> QED
      BY <3>5, <3>6
  <2> QED
    BY <2>2, <2>3
<1>4. CASE User \/ UNCHANGED vars
  <2>1. /\ disturbed => disturbed'
        /\ ~disturbed' => UNCHANGED <<job, mtime>>
        /\ UNCHANGED stack
    BY <1>4, UserJob
  <2> QED
    BY <2>1 DEF Newest, Top
<1>5. ASSUME NEW t \in Names, BuildTarget(t)
      PROVE  job' = NoJob
  BY <1>5 DEF BuildTarget, NoTarget, CallBuilt, Circular, Overflow, Enter, Ends, Exit, Calls
<1>6. Start \/ BadDepFile \/ UpToDateReturn \/ Finish => job' = NoJob
  BY DEF Start, BadDepFile, UpToDateReturn, Finish, Ends, Exit, Built
<1> QED
  BY <1>1, <1>2, <1>3, <1>4, <1>5, <1>6 DEF XNext, ExecTarget

LEMMA BuiltCurrentStep ==
  ASSUME BuildInv, Newest, BuiltCurrent, [XNext]_vars
  PROVE  BuiltCurrent'
<1> USE DEF BuildInv
<1>0. UNCHANGED project
  BY DEF XNext, BuildTarget, ExecTarget, Start, NoTarget, CallBuilt, Circular, Overflow, Enter,
         BadDepFile, UpToDateReturn, BeginExec, Ends, Built, CommandEnds, Command, Finish,
         User, Tick, Edit, Remove, Touch, vars
<1>a. ASSUME UNCHANGED <<mtime, depFile>>
      PROVE  \A t : Checkable(t)' = Checkable(t) /\ UpToDate(t)' = UpToDate(t)
  <2>1. \A t : Checkable(t)' = Checkable(t)
    BY <1>0, <1>a, DeclaredStays DEF Checkable
  <2>2. \A t : UpToDate(t)' = UpToDate(t)
    BY <1>0, <1>a DEF UpToDate, Outputs, Inputs, Listed
  <2> QED
    BY <2>1, <2>2
<1>1. CASE alreadyBuilt' = {}
  BY <1>1 DEF BuiltCurrent
<1>2. ASSUME UNCHANGED <<mtime, depFile, alreadyBuilt>>, Undisturbed' => Undisturbed
      PROVE  BuiltCurrent'
  BY <1>a, <1>2 DEF BuiltCurrent
<1>3. CASE UpToDateReturn
  BY <1>a, <1>3 DEF UpToDateReturn, Built, files, history, BuiltCurrent, Undisturbed
<1>4. CASE Finish
  <2> DEFINE w == Top.target
  <2>1. /\ job # NoJob /\ job.cmd > Current.exec /\ stack # <<>>
        /\ alreadyBuilt' = alreadyBuilt \cup {w} /\ UNCHANGED <<mtime, depFile, disturbed, killed>>
    BY <1>4 DEF Finish, Built, files, CallInv, AtEnd
  <2>2. w \in DOMAIN project /\ Current = project[w]
    BY <2>1, Innermost
  <2>3. ASSUME Undisturbed, Checkable(w)
        PROVE  UpToDate(w)
    <3>1. job.clean /\ Current.exec > 0 /\ Current.makes
      BY <2>2, <2>3 DEF Fresh, Checkable
    <3>2. (Current.makeDeps => depFile[w] = "good") /\ job.wrote
      BY <2>1, <3>1 DEF TimesInv, Progress
    <3>3. mtime[w] # Missing /\ \A f \in Files : mtime[f] <= mtime[w]
      BY <2>1, <2>3, <3>2 DEF Newest, Undisturbed
    <3>4. Outputs(w) = {w}
      BY <2>2, <2>3, <3>2 DEF Outputs, Listed, Checkable, Declared
    <3>5. \A f \in Inputs(w) : f \in Files /\ mtime[f] # Missing
      BY <2>2, <2>3, Fields DEF Inputs, Checkable
    <3> QED
      BY <3>3, <3>4, <3>5 DEF UpToDate
  <2> QED
    BY <1>a, <2>1, <2>3 DEF BuiltCurrent, Undisturbed
<1>5. CASE CommandEnds
  <2>1. PICK o \in Outcomes, wrote \in BOOLEAN, dep \in {"none", "good", "bad"} : Ran(o, wrote, dep)
    BY <1>5, Runs
  <2>2. CASE ExitCode(o) # 0
    BY <1>1, <2>1, <2>2 DEF Ran, Command, Exit
  <2>3. CASE ExitCode(o) = 0
    <3> DEFINE w == Top.target
    <3>1. /\ w \in Names \ alreadyBuilt
          /\ \A f \in Files : f # w => mtime'[f] = mtime[f]
          /\ \A t \in Names : t # w => depFile'[t] = depFile[t]
      BY <2>1, RanFiles
    <3>2. UNCHANGED alreadyBuilt
      BY <2>1, <2>3 DEF Ran, Command
    <3>3. Undisturbed' => Undisturbed
      <4>1. killed' = (killed \/ o = "killed") /\ UNCHANGED disturbed
        BY <2>1 DEF Ran
      <4> QED
        BY <4>1, Zenon DEF Undisturbed
    <3> HIDE DEF w
    <3> SUFFICES ASSUME Undisturbed, NEW t \in alreadyBuilt, Checkable(t)'
                 PROVE  UpToDate(t)'
      BY <3>2, <3>3 DEF BuiltCurrent
    <3>4. t \in DOMAIN project /\ t \in Names /\ t # w
      BY <3>1, Fields DEF CallInv, CallTypes
    <3>5. w \notin Dependencies(t)
      BY <3>1, BuiltDependencies
    <3>6. Checkable(t) /\ w \notin Inputs(t)
      BY <1>0, <3>1, <3>4, <3>5, CheckableKept
    <3>7. UpToDate(t) /\ project[t].outputs \subseteq {t} /\ depFile'[t] = depFile[t]
      BY <3>1, <3>4, <3>6 DEF BuiltCurrent, Checkable, Declared
    <3> QED
      BY <1>0, <3>1, <3>4, <3>6, <3>7, UpToDateKept
  <2> QED
    BY <2>2, <2>3
<1>6. CASE User \/ UNCHANGED vars
  <2>1. /\ UNCHANGED <<alreadyBuilt, depFile, killed>> /\ (disturbed => disturbed')
        /\ ~disturbed' => UNCHANGED mtime
    BY <1>6, UserJob
  <2>2. CASE disturbed'
    BY <2>2 DEF BuiltCurrent, Undisturbed
  <2>3. CASE ~disturbed'
    BY <1>2, <2>1, <2>3 DEF Undisturbed
  <2> QED
    BY <2>2, <2>3
<1>7. ASSUME NEW t \in Names, BuildTarget(t)
      PROVE  BuiltCurrent'
  <2>1. CASE NoTarget(t) \/ Circular(t) \/ Overflow(t)
    BY <1>1, <2>1 DEF NoTarget, Circular, Overflow, Ends, Exit
  <2>2. CASE CallBuilt(t) \/ Enter(t)
    BY <1>2, <2>2 DEF CallBuilt, Enter, files, history, Undisturbed
  <2> QED
    BY <1>7, <2>1, <2>2 DEF BuildTarget
<1>8. CASE Start \/ BadDepFile
  BY <1>1, <1>8 DEF Start, BadDepFile, Ends, Exit
<1>9. CASE BeginExec
  BY <1>2, <1>9 DEF BeginExec, files, history, Undisturbed
<1> QED
  BY <1>3, <1>4, <1>5, <1>6, <1>7, <1>8, <1>9 DEF XNext, ExecTarget

LEMMA RootedStep ==
  ASSUME CallInv, Rooted, [XNext]_vars
  PROVE  Rooted'
<1> USE DEF CallInv, CallTypes
<1>0. UNCHANGED project
  BY DEF XNext, BuildTarget, ExecTarget, Start, NoTarget, CallBuilt, Circular, Overflow, Enter,
         BadDepFile, UpToDateReturn, BeginExec, Ends, Built, CommandEnds, Command, Finish,
         User, Tick, Edit, Remove, Touch, vars
<1>a. Reached' = Reached
  BY <1>0, DeclaredStays DEF Reached
<1>1. CASE stack' = <<>> /\ status' # "done"
  BY <1>1, EmptySeq DEF Rooted
<1>2. CASE UNCHANGED <<status, stack, alreadyBuilt>>
  BY <1>a, <1>2 DEF Rooted
<1>3. ASSUME NEW t \in Names, CallBuilt(t)
      PROVE  Rooted'
  <2>1. stack # <<>> /\ stack' = [stack EXCEPT ![Len(stack)].k = @ + 1] /\ UNCHANGED <<status, alreadyBuilt>>
    BY <1>3 DEF CallBuilt, Calls, AtEnd
  <2>2. /\ Len(stack') = Len(stack) /\ Len(stack) \in Nat \ {0}
        /\ \A d \in 1 .. Len(stack) : stack'[d].target = stack[d].target
    BY <2>1, Bumped
  <2> QED
    BY <1>a, <2>1, <2>2 DEF Rooted
<1>4. ASSUME NEW t \in Names, Enter(t)
      PROVE  Rooted'
  <2> DEFINE f == [target |-> t, k |-> 1]
  <2>1. f \in Frame /\ Len(stack) \in Nat /\ f.target = t
    BY LenProperties DEF Frame
  <2>2. /\ Len(stack') = Len(stack) + 1
        /\ \A d \in 1 .. Len(stack) : stack'[d] = stack[d]
        /\ \A d : d = Len(stack) + 1 => stack'[d] = f
    <3>1. stack' = Append(stack, f)
      BY <1>4 DEF Enter
    <3> HIDE DEF f
    <3> QED
      BY <2>1, <3>1, AppendProperties
  <2> HIDE DEF f
  <2>3. UNCHANGED <<status, alreadyBuilt>> /\ Calls(t)
    BY <1>4 DEF Enter
  <2>4. t \in Reached /\ (stack = <<>> => t = Goal)
    <3>1. CASE stack = <<>>
      BY <2>3, <3>1 DEF Calls, Reached
    <3>2. CASE stack # <<>>
      <4>1. Len(stack) \in 1 .. Len(stack)
        BY <3>2, EmptySeq
      <4>2. /\ Top.target \in DOMAIN project /\ Current = project[Top.target]
            /\ Top.target \in Reached
        BY <3>2, <4>1, Innermost DEF Rooted, Top
      <4>3. Top.k \in 1 .. Len(Current.targets) /\ t = Current.targets[Top.k]
        <5>1. Top.k <= Len(Current.targets) /\ t = Current.targets[Top.k]
          BY <2>3, <3>2 DEF Calls
        <5>2. Top.k \in 1 .. Len(Current.targets) + 1
          BY <4>1 DEF Behind, TargetsOf, Top, Current
        <5>3. Len(Current.targets) \in Nat
          BY <4>2, ProjectTypes
        <5> QED
          BY <5>1, <5>2, <5>3
      <4>4. Top.k \in DOMAIN project[Top.target].targets
        BY <4>2, <4>3, ProjectTypes, LenProperties
      <4> QED
        BY <3>2, <4>2, <4>3, <4>4, DirectDependency DEF Reached
    <3> QED
      BY <3>1, <3>2
  <2>5. ASSUME NEW d \in 1 .. Len(stack')
        PROVE  stack'[d].target \in Reached
    <3>1. CASE d \in 1 .. Len(stack)
      BY <2>2, <3>1 DEF Rooted
    <3>2. CASE d = Len(stack) + 1
      BY <2>1, <2>2, <2>4, <3>2
    <3> QED
      BY <2>1, <2>2, <3>1, <3>2
  <2>6. stack'[1].target = Goal
    <3>1. CASE stack = <<>>
      <4>1. Len(stack) + 1 = 1
        BY <3>1, EmptySeq
      <4> QED
        BY <2>1, <2>2, <2>4, <3>1, <4>1
    <3>2. CASE stack # <<>>
      <4>1. 1 \in 1 .. Len(stack)
        BY <3>2, EmptySeq
      <4> QED
        BY <2>2, <3>2, <4>1 DEF Rooted
    <3> QED
      BY <3>1, <3>2
  <2> QED
    BY <1>a, <2>3, <2>5, <2>6 DEF Rooted
<1>5. ASSUME stack # <<>>, Built
      PROVE  Rooted'
  <2>1. /\ Len(stack) \in Nat \ {0} /\ Len(Return) = Len(stack) - 1
        /\ Below = <<>> <=> Len(stack) = 1
        /\ \A d \in 1 .. Len(stack) - 1 : Return[d].target = stack[d].target
        /\ Below = <<>> => Return = <<>>
    BY <1>5, Returned
  <2>2. /\ stack' = Return /\ alreadyBuilt' = alreadyBuilt \cup {Top.target}
        /\ status' = IF Below = <<>> THEN "done" ELSE status
    BY <1>5 DEF Built
  <2>3. \A d \in 1 .. Len(stack') : stack'[d].target \in Reached
    BY <2>1, <2>2 DEF Rooted
  <2>4. stack' # <<>> => stack'[1].target = Goal
    BY <1>5, <2>1, <2>2 DEF Rooted
  <2>5. status' = "done" => Goal \in alreadyBuilt'
    BY <1>5, <2>1, <2>2 DEF Rooted, Top
  <2> QED
    BY <1>a, <2>3, <2>4, <2>5 DEF Rooted
<1>6. ASSUME NEW t \in Names, NoTarget(t) \/ Circular(t) \/ Overflow(t)
      PROVE  Rooted'
  BY <1>1, <1>6 DEF NoTarget, Circular, Overflow, Ends, Exit
<1>7. CASE Start \/ BadDepFile
  BY <1>1, <1>7 DEF Start, BadDepFile, Ends, Exit
<1>8. CASE CommandEnds
  <2>1. PICK o \in Outcomes, wrote \in BOOLEAN, dep \in {"none", "good", "bad"} : Ran(o, wrote, dep)
    BY <1>8, Runs
  <2>2. CASE ExitCode(o) # 0
    BY <1>1, <2>1, <2>2 DEF Ran, Command, Exit
  <2>3. CASE ExitCode(o) = 0
    BY <1>2, <2>1, <2>3 DEF Ran, Command
  <2> QED
    BY <2>2, <2>3
<1>9. CASE UpToDateReturn \/ Finish
  BY <1>5, <1>9 DEF UpToDateReturn, AtExec, Finish, AtEnd
<1>10. CASE BeginExec \/ User \/ UNCHANGED vars
  BY <1>2, <1>10 DEF BeginExec, User, Tick, Edit, Remove, Touch, vars, calls
<1> QED
  BY <1>3, <1>4, <1>6, <1>7, <1>8, <1>9, <1>10 DEF XNext, BuildTarget, ExecTarget

\* A target that begins to run commands cannot be seen to be up to date.
LEMMA BeginUnsound ==
  ASSUME CallInv, Rooted, Settled, settled, ~disturbed, BeginExec
  PROVE  ~Sound(Top.target)
<1>1. stack # <<>> /\ ~UpToDate(Top.target)
  BY DEF BeginExec, AtExec
<1>2. Len(stack) \in 1 .. Len(stack)
  BY <1>1, EmptySeq DEF CallInv, CallTypes
<1>3. Top.target \in Reached
  BY <1>2 DEF Rooted, Top
<1> QED
  BY <1>1, <1>3 DEF Settled

LEMMA SettledStep ==
  ASSUME QuietInv, [XNext]_vars
  PROVE  Settled'
<1> USE DEF QuietInv, BuildInv
<1>0. UNCHANGED project
  BY DEF XNext, BuildTarget, ExecTarget, Start, NoTarget, CallBuilt, Circular, Overflow, Enter,
         BadDepFile, UpToDateReturn, BeginExec, Ends, Built, CommandEnds, Command, Finish,
         User, Tick, Edit, Remove, Touch, vars
<1>a. /\ Reached' = Reached
      /\ \A t : Dependencies(t)' = Dependencies(t) /\ Declared(t)' = Declared(t)
  BY <1>0, DeclaredStays DEF Reached
<1>b. ASSUME UNCHANGED <<mtime, depFile>>
      PROVE  \A t : Sound(t)' = Sound(t) /\ UpToDate(t)' = UpToDate(t)
  <2>1. \A t : Checkable(t)' = Checkable(t)
    BY <1>0, <1>a, <1>b DEF Checkable
  <2>2. \A t : UpToDate(t)' = UpToDate(t)
    BY <1>0, <1>b DEF UpToDate, Outputs, Inputs, Listed
  <2> QED
    BY <1>a, <2>1, <2>2 DEF Sound
<1>1. ASSUME UNCHANGED <<mtime, depFile>>, settled' /\ ~disturbed' => settled /\ ~disturbed,
             settled' /\ ~disturbed' /\ job' # NoJob => ~Sound(Top.target) /\ UNCHANGED stack
      PROVE  Settled'
  <2> SUFFICES ASSUME settled', ~disturbed' PROVE Settled'
    BY DEF Settled
  <2>1. \A t \in Reached : t \in DOMAIN project' /\ (Sound(t)' => UpToDate(t)')
    BY <1>0, <1>1, <1>b DEF Settled
  <2>2. job' # NoJob => \A t : t = Top'.target => ~Sound(t)'
    BY <1>1, <1>b DEF Top
  <2> QED
    BY <1>a, <2>1, <2>2 DEF Settled
<1>2. CASE Start
  <2>1. /\ UNCHANGED <<mtime, depFile>> /\ job' = NoJob
        /\ settled' => status = "done" /\ Undisturbed
    BY <1>2 DEF Start, files, Undisturbed
  <2> SUFFICES ASSUME settled' PROVE \A t \in Reached : t \in DOMAIN project /\ (Sound(t) => UpToDate(t))
    BY <1>0, <1>a, <1>b, <2>1 DEF Settled
  <2>2. Goal \in alreadyBuilt
    BY <2>1 DEF Rooted
  <2>3. Reached \subseteq alreadyBuilt /\ alreadyBuilt \subseteq DOMAIN project
    BY <2>2, BuiltDependencies DEF Reached, CallInv, CallTypes
  <2> QED
    BY <2>1, <2>3 DEF BuiltCurrent, Sound
<1>3. CASE BeginExec
  <2>1. UNCHANGED <<mtime, depFile, settled, disturbed, stack>>
    BY <1>3 DEF BeginExec, files, history
  <2>2. settled /\ ~disturbed => ~Sound(Top.target)
    BY <1>3, BeginUnsound
  <2> QED
    BY <1>1, <2>1, <2>2
<1>4. CASE CommandEnds
  <2>1. PICK o \in Outcomes, wrote \in BOOLEAN, dep \in {"none", "good", "bad"} : Ran(o, wrote, dep)
    BY <1>4, Runs
  <2>2. /\ Top.target \in Names /\ stack # <<>> /\ UNCHANGED <<disturbed, settled>>
        /\ \A f \in Files : f # Top.target => mtime'[f] = mtime[f]
        /\ \A t \in Names : t # Top.target => depFile'[t] = depFile[t]
        /\ job # NoJob
    BY <2>1, RanFiles DEF Ran
  <2>3. Top.k > Len(Current.targets)
    BY <2>2 DEF CallInv, AtEnd
  <2> SUFFICES ASSUME settled, ~disturbed PROVE Settled'
    BY <2>2 DEF Settled
  <2>4. ~Sound(Top.target)
    BY <2>2 DEF Settled
  <2>5. /\ \A t : t = Top.target => ~Sound(t)'
        /\ \A t : /\ Sound(t)'
                  /\ \A u \in Dependencies(t) \cup {t} : u \in DOMAIN project
                  => Sound(t) /\ t # Top.target /\ Top.target \notin Inputs(t)
    BY <1>0, <2>2, <2>3, <2>4, SoundKept
  <2>6. ASSUME NEW t \in Reached, Sound(t)'
        PROVE  UpToDate(t)'
    <3>1. Dependencies(t) \subseteq Reached
      BY Transitive DEF Reached
    <3>2. \A u \in Reached : u \in DOMAIN project
      BY DEF Settled
    <3>3. Sound(t) /\ t # Top.target /\ Top.target \notin Inputs(t) /\ t \in DOMAIN project
      BY <2>5, <2>6, <3>1, <3>2
    <3>4. UpToDate(t) /\ project[t].outputs \subseteq {t} /\ depFile'[t] = depFile[t]
      BY <2>2, <3>3, Fields DEF Settled, Sound, Checkable, Declared
    <3> QED
      BY <1>0, <2>2, <3>3, <3>4, UpToDateKept
  <2>7. job' # NoJob => \A t : t = Top'.target => ~Sound(t)'
    <3>1. job' # NoJob => UNCHANGED stack
      BY <2>1 DEF Ran, Command, Exit
    <3> QED
      BY <2>5, <3>1 DEF Top
  <2> QED
    BY <1>0, <1>a, <2>6, <2>7 DEF Settled
<1>5. CASE User \/ UNCHANGED vars
  <2>1. /\ UNCHANGED <<stack, depFile, settled>> /\ (disturbed => disturbed')
        /\ ~disturbed' => UNCHANGED <<job, mtime>>
    BY <1>5, UserJob
  <2>2. CASE disturbed'
    BY <2>2 DEF Settled
  <2>3. CASE ~disturbed'
    BY <1>1, <2>1, <2>3 DEF Settled
  <2> QED
    BY <2>2, <2>3
<1>6. ASSUME NEW t \in Names, BuildTarget(t)
      PROVE  Settled'
  <2>1. UNCHANGED <<mtime, depFile, history>> /\ job' = NoJob
    BY <1>6 DEF BuildTarget, NoTarget, CallBuilt, Circular, Overflow, Enter, Ends, Exit, Calls, files
  <2> QED
    BY <1>1, <2>1 DEF history
<1>7. CASE BadDepFile \/ UpToDateReturn \/ Finish
  <2>1. UNCHANGED <<mtime, depFile, settled, disturbed>> /\ job' = NoJob
    BY <1>7 DEF BadDepFile, UpToDateReturn, Finish, Ends, Exit, Built, files, history
  <2> QED
    BY <1>1, <2>1
<1> QED
  BY <1>2, <1>3, <1>4, <1>5, <1>6, <1>7 DEF XNext, ExecTarget

\* Built again right after a success, a target runs no command if it and all
\* that it needs can be seen to be up to date, whatever else is in the project.
THEOREM NothingToDoHolds == XSpec => NothingToDo
<1>1. XInit => Newest /\ BuiltCurrent /\ Rooted /\ Settled
  <2> SUFFICES ASSUME XInit PROVE Newest /\ BuiltCurrent /\ Rooted /\ Settled
    OBVIOUS
  <2> QED
    BY EmptySeq DEF XInit, Newest, BuiltCurrent, Rooted, Settled, NoJob
<1>2. QuietInv /\ BuildInv' /\ [XNext]_vars => QuietInv'
  BY NewestStep, BuiltCurrentStep, RootedStep, SettledStep DEF QuietInv, BuildInv
<1>3. ASSUME QuietInv, [XNext]_vars, settled /\ ~disturbed, job = NoJob, job' # NoJob
      PROVE  \E t \in Dependencies(Top.target) \cup {Top.target} : ~Checkable(t)
  <2> USE DEF QuietInv, BuildInv
  <2>1. BeginExec
    <3>1. ~CommandEnds /\ ~(User \/ UNCHANGED vars)
      BY <1>3, UserJob DEF CommandEnds
    <3>2. \A t \in Names : ~BuildTarget(t)
      BY <1>3 DEF BuildTarget, NoTarget, CallBuilt, Circular, Overflow, Enter, Ends, Exit, Calls
    <3>3. ~(Start \/ BadDepFile \/ UpToDateReturn \/ Finish)
      BY <1>3 DEF Start, BadDepFile, UpToDateReturn, Finish, Ends, Exit, Built
    <3> QED
      BY <1>3, <3>1, <3>2, <3>3 DEF XNext, ExecTarget
  <2> QED
    BY <1>3, <2>1, BeginUnsound DEF Sound
<1>4. QuietInv /\ [XNext]_vars =>
        [settled /\ ~disturbed /\ job = NoJob /\ job' # NoJob =>
           \E t \in Dependencies(Top.target) \cup {Top.target} : ~Checkable(t)]_vars
  BY <1>3
<1>5. XSpec => []BuildInv
  BY BuildInvHolds
<1>6. XInit /\ BuildInv => QuietInv
  BY <1>1 DEF QuietInv
<1> QED
  BY <1>2, <1>4, <1>5, <1>6, PTL DEF XSpec, NothingToDo
============================================================================
