---------------------------- MODULE LoaderProofs ----------------------------
(***************************************************************************)
(* Theorems about Loader, for any files, any first size of the vector and  *)
(* any number of calls of xload_open: what the vector and its indices are, *)
(* that every constructor and destructor runs once, the constructors in    *)
(* the order of the dependencies, and that a debugger sees every library.  *)
(***************************************************************************)
EXTENDS Loader, SequenceTheorems, FiniteSetTheorems, TLAPS

Fns == User \cup {"start", "load", "open", "init_libs", "init", "fini_libs"}
FrameSet == [fn : Fns, i : Nat \ {0}, g : Nat, k : Nat \ {0}]
LibSet == [path : Libs, linked : BOOLEAN, started : BOOLEAN, inits : Nat, finis : Nat]
----------------------------------------------------------------------------
(* What the operations on the call stack do, frame by frame *)

LEMMA FnNames ==
  /\ "start" \in Fns /\ "load" \in Fns /\ "open" \in Fns /\ "init_libs" \in Fns
  /\ "init" \in Fns /\ "fini_libs" \in Fns /\ "ctor" \in Fns /\ "main" \in Fns /\ "dtor" \in Fns
  BY DEF Fns, User

LEMMA NewFrame ==
  \A fn \in Fns, i \in Nat \ {0}, g \in Nat :
    LET f == Frame(fn, i, g)
    IN f \in FrameSet /\ f.fn = fn /\ f.i = i /\ f.g = g /\ f.k = 1
  BY DEF Frame, FrameSet

LEMMA FieldsOf ==
  \A f \in FrameSet : f.fn \in Fns /\ f.i \in Nat \ {0} /\ f.g \in Nat /\ f.k \in Nat \ {0}
  BY DEF FrameSet

LEMMA NextTurn ==
  \A f \in FrameSet : LET h == [f EXCEPT !.k = @ + 1]
                      IN h \in FrameSet /\ h.fn = f.fn /\ h.i = f.i /\ h.g = f.g /\ h.k = f.k + 1
  BY DEF FrameSet

LEMMA NewPointer ==
  \A f \in FrameSet, g \in Nat :
    LET h == [f EXCEPT !.g = g]
    IN h \in FrameSet /\ h.fn = f.fn /\ h.i = f.i /\ h.g = g /\ h.k = f.k
  BY DEF FrameSet

LEMMA Prefix ==
  ASSUME NEW S, NEW s \in Seq(S), NEW n \in Nat, n <= Len(s)
  PROVE  /\ SubSeq(s, 1, n) \in Seq(S) /\ Len(SubSeq(s, 1, n)) = n
         /\ \A d \in 1 .. n : SubSeq(s, 1, n)[d] = s[d]
<1>1. \A d \in 1 .. n : s[d] \in S
  BY ElementOfSeq, LenProperties
<1>2. SubSeq(s, 1, n) \in Seq(S)
  BY <1>1, SubSeqProperties
<1> QED
  BY <1>2, LenProperties

LEMMA Popped ==
  ASSUME NEW S, NEW s \in Seq(S), s # <<>>, NEW n, n = Len(s) - 1
  PROVE  /\ n \in Nat /\ Len(s) = n + 1
         /\ SubSeq(s, 1, n) \in Seq(S) /\ Len(SubSeq(s, 1, n)) = n
         /\ \A d \in 1 .. n : SubSeq(s, 1, n)[d] = s[d]
         /\ \A d \in 1 .. n + 1 : s[d] \in S
<1>1. n \in Nat /\ Len(s) = n + 1
  BY EmptySeq
<1>2. \A d \in 1 .. n + 1 : s[d] \in S
  BY <1>1, ElementOfSeq
<1> QED
  BY <1>1, <1>2, Prefix

LEMMA Advanced ==
  ASSUME stack \in Seq(FrameSet), stack # <<>>, NEW n, n = Len(stack)
  PROVE  /\ n \in Nat \ {0} /\ Advance \in Seq(FrameSet) /\ Len(Advance) = n
         /\ \A d \in 1 .. n - 1 : Advance[d] = stack[d]
         /\ Advance[n].fn = stack[n].fn /\ Advance[n].i = stack[n].i
         /\ Advance[n].g = stack[n].g /\ Advance[n].k = stack[n].k + 1
<1> DEFINE m == n - 1
           h == [stack[n] EXCEPT !.k = @ + 1]
           s == SubSeq(stack, 1, m)
<1>1. /\ m \in Nat /\ n = m + 1 /\ s \in Seq(FrameSet) /\ Len(s) = m
      /\ \A d \in 1 .. m : s[d] = stack[d]
      /\ \A d \in 1 .. m + 1 : stack[d] \in FrameSet
  BY Popped
<1>2. stack[n] \in FrameSet
  BY <1>1
<1>3. /\ h \in FrameSet /\ h.fn = stack[n].fn /\ h.i = stack[n].i
      /\ h.g = stack[n].g /\ h.k = stack[n].k + 1
  BY ONLY <1>2, NextTurn DEF h
<1>4. Advance = Append(s, h)
  BY DEF Advance, Below, Top
<1> HIDE DEF h, s, m
<1>5. /\ Append(s, h) \in Seq(FrameSet) /\ Len(Append(s, h)) = m + 1
      /\ \A d \in 1 .. m : Append(s, h)[d] = s[d]
      /\ Append(s, h)[m + 1] = h
  BY <1>1, <1>3, AppendProperties
<1>6. Advance \in Seq(FrameSet) /\ Len(Advance) = n /\ Advance[n] = h
  BY <1>1, <1>4, <1>5
<1>7. \A d \in 1 .. m : Advance[d] = stack[d]
  BY <1>1, <1>4, <1>5
<1> QED
  BY <1>1, <1>3, <1>6, <1>7 DEF m

\* The last frame of s, to which a pointer g is returned.
IsReturn(r, s, n, g) ==
  /\ r \in Seq(FrameSet) /\ Len(r) = n
  /\ \A d \in 1 .. n - 1 : r[d] = s[d]
  /\ r[n].fn = s[n].fn /\ r[n].i = s[n].i /\ r[n].k = s[n].k
  /\ r[n].g = IF s[n].fn = "load" THEN gen ELSE g

LEMMA Returned ==
  ASSUME NEW s \in Seq(FrameSet), s # <<>>, NEW g \in Nat, gen \in Nat
  PROVE  Len(s) \in Nat \ {0} /\ IsReturn(ReturnTo(s, g), s, Len(s), g)
<1> DEFINE n == Len(s)
           r == ReturnTo(s, g)
           e == IF s[n].fn = "load" THEN gen ELSE g
           h == [s[n] EXCEPT !.g = e]
<1>1. n \in Nat \ {0} /\ n \in 1 .. n
  BY EmptySeq
<1>2. s[n] \in FrameSet
  BY <1>1, ElementOfSeq
<1>3. e \in Nat
  OBVIOUS
<1>4. r = [s EXCEPT ![n] = h]
  BY DEF ReturnTo
<1>5. h \in FrameSet /\ h.fn = s[n].fn /\ h.i = s[n].i /\ h.g = e /\ h.k = s[n].k
  <2> HIDE DEF e
  <2> QED
    BY ONLY <1>2, <1>3, NewPointer DEF h
<1> HIDE DEF h, e
<1>6. /\ r \in Seq(FrameSet) /\ Len(r) = n
      /\ \A d \in 1 .. n : r[d] = IF d = n THEN h ELSE s[d]
  BY <1>1, <1>4, <1>5, ExceptSeq
<1>7. r[n] = h /\ \A d \in 1 .. n - 1 : r[d] = s[d]
  BY ONLY <1>1, <1>6
<1> QED
  BY <1>1, <1>5, <1>6, <1>7 DEF e, IsReturn
----------------------------------------------------------------------------
(* The inductive invariant *)

Vector ==
  /\ libs \in Seq(LibSet) /\ libs # <<>>
  /\ capacity \in Nat \ {0} /\ VecLength <= capacity /\ Len(libs) <= capacity
  /\ gen \in Nat /\ (gen > 0 => VecLength < Len(libs))

Calls == stack \in Seq(FrameSet) /\ stack # <<>>

Pointers == \A d \in 1 .. Len(stack) : stack[d].i <= Len(libs) /\ stack[d].g <= gen

Scalars ==
  /\ disk \in Disks
  /\ \A h \in handles : h.i \in 1 .. Len(libs) /\ h.g \in 0 .. gen
  /\ spliced \in BOOLEAN /\ linkMap \in Seq(Libs)
  /\ status \in {"running", "exited", "error", "undefined"} /\ opens \in 0 .. MaxOpens
  /\ status = "undefined" => gen > 0

\* Which function calls which.
OnTop(lower, upper) ==
  \/ upper = "load" /\ lower \in {"start", "load", "open"}
  \/ upper = "open" /\ lower \in {"ctor", "main", "dtor"}
  \/ upper = "init" /\ lower \in {"init_libs", "init"}
  \/ upper = "ctor" /\ lower = "init"
  \/ upper = "dtor" /\ lower = "fini_libs"
  \/ upper = "fini_libs" /\ lower \in {"ctor", "main"}

Shape ==
  /\ stack[1].fn \in {"start", "init_libs", "main"}
  /\ \A d \in 1 .. Len(stack) - 1 : OnTop(stack[d].fn, stack[d + 1].fn)

\* A load calls nothing but loads.
LoadsOnTop ==
  \A d, e \in 1 .. Len(stack) : d < e /\ stack[d].fn = "load" => stack[e].fn = "load"

\* fini_libs calls destructors only, on top of whatever was called.
FiniOnTop ==
  \A d, e \in 1 .. Len(stack) :
    d < e /\ stack[d].fn = "fini_libs" => stack[e].fn \in {"dtor", "open", "load"}

Current == stack[Len(stack)].fn \in {"load", "open"} => stack[Len(stack)].g = gen

Distinct == \A i, j \in 1 .. Len(libs) : libs[i].path = libs[j].path => i = j

NeedOf(i, j) == disk[libs[i].path].needed[j]
Needing(i) == Len(disk[libs[i].path].needed)
IsLoaded(f) == \E i \in 1 .. Len(libs) : libs[i].path = f

\* What library i needs is loaded, all of it or the first k - 1 entries.
AllNeeds(i) == \A j \in 1 .. Needing(i) : IsLoaded(NeedOf(i, j))
UpTo(i, k) == \A j \in 1 .. Needing(i) : j < k => IsLoaded(NeedOf(i, j))

\* A load of library i is under way, and that far.
Reached(i) ==
  \E d \in 1 .. Len(stack), k \in Nat :
    stack[d].fn = "load" /\ stack[d].i = i /\ stack[d].k = k /\ UpTo(i, k)

Loading == \A i \in 1 .. Len(libs) : AllNeeds(i) \/ Reached(i)

\* Unlinked libraries are there only while something is loaded.
Linked ==
  stack[Len(stack)].fn \notin {"start", "load", "open"} => \A i \in 1 .. Len(libs) : libs[i].linked

LoaderInv ==
  /\ Vector /\ Calls /\ Pointers /\ Scalars
  /\ Shape /\ LoadsOnTop /\ FiniOnTop /\ Current
  /\ Distinct /\ Loading /\ Linked
----------------------------------------------------------------------------
(* The moves of the call stack, of n frames before the step *)

Kept(m) == \A d \in 1 .. m : stack'[d] = stack[d]
New(f, fn, i, g) == f.fn = fn /\ f.i = i /\ f.g = g /\ f.k = 1
SameCall(d, turns) ==
  stack'[d].fn = stack[d].fn /\ stack'[d].i = stack[d].i /\ stack'[d].k = stack[d].k + turns

\* The innermost loop takes a turn, ...
Turn(n, g) == Len(stack') = n /\ Kept(n - 1) /\ SameCall(n, 1) /\ stack'[n].g = g

\* ... in which it makes a call.
TurnPush(n, fn, i, g) ==
  /\ Len(stack') = n + 1 /\ Kept(n - 1) /\ SameCall(n, 1) /\ stack'[n].g = stack[n].g
  /\ New(stack'[n + 1], fn, i, g)

Push(n, fn, i, g) == Len(stack') = n + 1 /\ Kept(n) /\ New(stack'[n + 1], fn, i, g)

PushTwo(n, i, j) ==
  /\ Len(stack') = n + 2 /\ Kept(n)
  /\ New(stack'[n + 1], "open", i, gen) /\ New(stack'[n + 2], "load", j, gen')

Pop(n) == Len(stack') = n - 1 /\ Kept(n - 1)

\* A load returns, and who called it stores the pointer.
PopReturn(n) ==
  /\ Len(stack') = n - 1 /\ Kept(n - 2) /\ SameCall(n - 1, 0)
  /\ stack'[n - 1].g = IF stack[n - 1].fn = "load" THEN gen ELSE stack[n].g

Restart(fn, i, g) == Len(stack') = 1 /\ New(stack'[1], fn, i, g)

LEMMA Turning ==
  ASSUME Calls, NEW n, n = Len(stack), stack' = Advance
  PROVE  Calls' /\ Turn(n, stack[n].g)
<1>1. /\ n \in Nat \ {0} /\ stack' \in Seq(FrameSet) /\ Len(stack') = n
      /\ \A d \in 1 .. n - 1 : stack'[d] = stack[d]
      /\ stack'[n].fn = stack[n].fn /\ stack'[n].i = stack[n].i
      /\ stack'[n].g = stack[n].g /\ stack'[n].k = stack[n].k + 1
  BY Advanced DEF Calls
<1>2. stack' # <<>>
  BY <1>1, EmptySeq
<1> QED
  BY ONLY <1>1, <1>2 DEF Calls, Turn, Kept, SameCall

LEMMA Appending ==
  ASSUME NEW s \in Seq(FrameSet), NEW n, n = Len(s), NEW f \in FrameSet, NEW r, r = Append(s, f)
  PROVE  /\ n \in Nat /\ r \in Seq(FrameSet) /\ r # <<>> /\ Len(r) = n + 1
         /\ \A d \in 1 .. n : r[d] = s[d]
         /\ r[n + 1] = f
  BY AppendProperties, LenProperties

LEMMA Framing ==
  ASSUME NEW fn \in Fns, NEW i \in Nat \ {0}, NEW g \in Nat, NEW f, f = Frame(fn, i, g)
  PROVE  f \in FrameSet /\ New(f, fn, i, g)
  BY NewFrame DEF New

LEMMA TurnPushing ==
  ASSUME Calls, NEW n, n = Len(stack), NEW fn \in Fns, NEW i \in Nat \ {0}, NEW g \in Nat,
         stack' = Append(Advance, Frame(fn, i, g))
  PROVE  Calls' /\ TurnPush(n, fn, i, g)
<1> DEFINE f == Frame(fn, i, g)
<1>1. f \in FrameSet /\ New(f, fn, i, g)
  BY Framing
<1>2. /\ n \in Nat \ {0} /\ Advance \in Seq(FrameSet) /\ Len(Advance) = n
      /\ \A d \in 1 .. n - 1 : Advance[d] = stack[d]
      /\ Advance[n].fn = stack[n].fn /\ Advance[n].i = stack[n].i
      /\ Advance[n].g = stack[n].g /\ Advance[n].k = stack[n].k + 1
  BY Advanced DEF Calls
<1> HIDE DEF f
<1>3. /\ stack' \in Seq(FrameSet) /\ stack' # <<>> /\ Len(stack') = n + 1
      /\ \A d \in 1 .. n : stack'[d] = Advance[d]
      /\ stack'[n + 1] = f
  BY <1>1, <1>2, Appending DEF f
<1> QED
  BY ONLY <1>1, <1>2, <1>3 DEF Calls, TurnPush, Kept, SameCall

LEMMA Pushing ==
  ASSUME Calls, NEW n, n = Len(stack), NEW fn \in Fns, NEW i \in Nat \ {0}, NEW g \in Nat,
         stack' = Append(stack, Frame(fn, i, g))
  PROVE  Calls' /\ Push(n, fn, i, g)
<1> DEFINE f == Frame(fn, i, g)
<1>1. f \in FrameSet /\ New(f, fn, i, g)
  BY Framing
<1> HIDE DEF f
<1>2. /\ n \in Nat /\ stack' \in Seq(FrameSet) /\ stack' # <<>> /\ Len(stack') = n + 1
      /\ \A d \in 1 .. n : stack'[d] = stack[d]
      /\ stack'[n + 1] = f
  BY <1>1, Appending DEF f, Calls
<1> QED
  BY ONLY <1>1, <1>2 DEF Calls, Push, Kept

LEMMA Popping ==
  ASSUME Calls, NEW n, n = Len(stack), n # 1, stack' = Below
  PROVE  Calls' /\ Pop(n)
<1> DEFINE m == n - 1
<1>1. /\ m \in Nat /\ Below \in Seq(FrameSet) /\ Len(Below) = m
      /\ \A d \in 1 .. m : Below[d] = stack[d]
  BY Popped DEF Calls, Below
<1>2. stack' # <<>>
  BY <1>1, EmptySeq
<1> QED
  BY <1>1, <1>2 DEF Calls, Pop, Kept

LEMMA PopReturning ==
  ASSUME Calls, Vector, NEW n, n = Len(stack), n # 1, stack' = ReturnTo(Below, Top.g)
  PROVE  Calls' /\ PopReturn(n)
<1> DEFINE m == n - 1
<1>1. /\ m \in Nat /\ n = m + 1 /\ Below \in Seq(FrameSet) /\ Len(Below) = m
      /\ \A d \in 1 .. m : Below[d] = stack[d]
      /\ \A d \in 1 .. m + 1 : stack[d] \in FrameSet
  BY Popped DEF Calls, Below
<1>2. Below # <<>> /\ m \in Nat \ {0}
  BY <1>1, EmptySeq
<1>3. Top.g \in Nat /\ Top = stack[n] /\ gen \in Nat
  BY <1>1, FieldsOf DEF Top, Vector
<1>4. IsReturn(stack', Below, m, Top.g)
  BY <1>1, <1>2, <1>3, Returned
<1>5. stack' # <<>>
  BY <1>2, <1>4, EmptySeq DEF IsReturn
<1>6. Below[m] = stack[m] /\ m - 1 = n - 2 /\ \A d \in 1 .. m - 1 : Below[d] = stack[d]
  BY <1>1, <1>2
<1>7. stack[m].k + 0 = stack[m].k
  BY <1>1, <1>2, FieldsOf
<1> HIDE DEF m
<1>8. Calls' /\ Len(stack') = m /\ Kept(m - 1) /\ SameCall(m, 0)
      /\ stack'[m].g = IF stack[m].fn = "load" THEN gen ELSE stack[n].g
  BY ONLY <1>3, <1>4, <1>5, <1>6, <1>7 DEF Calls, Kept, SameCall, IsReturn
<1> QED
  BY ONLY <1>6, <1>8 DEF m, PopReturn

LEMMA TurnReturning ==
  ASSUME Calls, Vector, NEW n, n = Len(stack), stack[n].fn = "load", stack' = ReturnTo(Advance, gen)
  PROVE  Calls' /\ Turn(n, gen)
<1>1. /\ n \in Nat \ {0} /\ Advance \in Seq(FrameSet) /\ Len(Advance) = n
      /\ \A d \in 1 .. n - 1 : Advance[d] = stack[d]
      /\ Advance[n].fn = stack[n].fn /\ Advance[n].i = stack[n].i
      /\ Advance[n].g = stack[n].g /\ Advance[n].k = stack[n].k + 1
  BY Advanced DEF Calls
<1>2. Advance # <<>> /\ gen \in Nat
  BY <1>1, EmptySeq DEF Vector
<1>3. IsReturn(stack', Advance, n, gen)
  BY <1>1, <1>2, Returned
<1>4. stack' # <<>>
  BY <1>1, <1>3, EmptySeq DEF IsReturn
<1> QED
  BY ONLY <1>1, <1>3, <1>4 DEF Calls, Turn, Kept, SameCall, IsReturn

\* dlopen2 of a library that is there.
LEMMA PushReturning ==
  ASSUME Calls, Vector, NEW n, n = Len(stack), NEW i \in Nat \ {0},
         stack' = ReturnTo(Append(stack, Frame("open", i, gen)), gen)
  PROVE  Calls' /\ Push(n, "open", i, gen)
<1> DEFINE f == Frame("open", i, gen)
           s == Append(stack, f)
<1>1. gen \in Nat
  BY DEF Vector
<1>2. f \in FrameSet /\ New(f, "open", i, gen)
  BY <1>1, Framing, FnNames
<1> HIDE DEF f
<1>3. /\ n \in Nat /\ s \in Seq(FrameSet) /\ s # <<>> /\ Len(s) = n + 1
      /\ \A d \in 1 .. n : s[d] = stack[d]
      /\ s[n + 1] = f
  BY <1>2, Appending DEF Calls
<1>4. stack' = ReturnTo(s, gen)
  BY DEF f
<1> HIDE DEF s
<1> DEFINE m == n + 1
<1>5. m \in Nat \ {0} /\ IsReturn(stack', s, m, gen)
  BY <1>1, <1>3, <1>4, Returned
<1>6. stack' # <<>> /\ \A d \in 1 .. n : stack'[d] = stack[d]
  BY <1>3, <1>5, EmptySeq DEF IsReturn
<1> QED
  BY ONLY <1>2, <1>3, <1>5, <1>6 DEF Calls, Push, Kept, New, IsReturn, m

\* ... and of one that is not.
LEMMA PushingTwo ==
  ASSUME Calls, NEW n, n = Len(stack), NEW i \in Nat \ {0}, NEW j \in Nat \ {0},
         gen \in Nat, gen' \in Nat,
         stack' = Append(Append(stack, Frame("open", i, gen)), Frame("load", j, gen'))
  PROVE  Calls' /\ PushTwo(n, i, j)
<1> DEFINE f == Frame("open", i, gen)
           h == Frame("load", j, gen')
           s == Append(stack, f)
<1>1. f \in FrameSet /\ New(f, "open", i, gen) /\ h \in FrameSet /\ New(h, "load", j, gen')
  BY Framing, FnNames
<1> HIDE DEF f, h
<1>2. /\ n \in Nat /\ s \in Seq(FrameSet) /\ Len(s) = n + 1
      /\ \A d \in 1 .. n : s[d] = stack[d]
      /\ s[n + 1] = f
  BY <1>1, Appending DEF Calls
<1>3. stack' = Append(s, h)
  BY DEF f, h
<1> HIDE DEF s
<1>4. /\ stack' \in Seq(FrameSet) /\ stack' # <<>> /\ Len(stack') = Len(s) + 1
      /\ \A d \in 1 .. Len(s) : stack'[d] = s[d]
      /\ stack'[Len(s) + 1] = h
  BY ONLY <1>1, <1>2, <1>3, Appending
<1> QED
  BY ONLY <1>1, <1>2, <1>4 DEF Calls, PushTwo, Kept

LEMMA Restarting ==
  ASSUME NEW fn \in Fns, NEW i \in Nat \ {0}, NEW g \in Nat, stack' = <<Frame(fn, i, g)>>
  PROVE  Calls' /\ Restart(fn, i, g)
<1> DEFINE f == Frame(fn, i, g)
<1>1. f \in FrameSet /\ New(f, fn, i, g)
  BY Framing
<1> HIDE DEF f
<1>2. <<f>> \in Seq(FrameSet) /\ Len(<<f>>) = 1 /\ <<f>>[1] = f /\ <<f>> # <<>>
  BY <1>1
<1> QED
  BY <1>1, <1>2 DEF f, Calls, Restart
----------------------------------------------------------------------------
(* The changes of the vector *)

\* One library more.
Extended(f) ==
  /\ Len(libs') = Len(libs) + 1 /\ \A i \in 1 .. Len(libs) : libs'[i] = libs[i]
  /\ LET l == libs'[Len(libs) + 1]
     IN l.path = f /\ ~l.linked /\ ~l.started /\ l.inits = 0 /\ l.finis = 0
  /\ gen <= gen'

\* The same libraries, with other marks.
SamePaths ==
  /\ Len(libs') = Len(libs) /\ \A i \in 1 .. Len(libs) : libs'[i].path = libs[i].path
  /\ UNCHANGED gen

LEMMA FieldsOfLib ==
  \A l \in LibSet : /\ l.path \in Libs /\ l.linked \in BOOLEAN /\ l.started \in BOOLEAN
                    /\ l.inits \in Nat /\ l.finis \in Nat
  BY DEF LibSet

LEMMA Adding ==
  ASSUME Vector, NEW f \in Libs, AddLib(f)
  PROVE  Vector' /\ Extended(f)
<1>1. Fresh(f) \in LibSet
  BY DEF Fresh, LibSet
<1>2. /\ libs' \in Seq(LibSet) /\ libs' # <<>> /\ Len(libs) \in Nat /\ Len(libs') = Len(libs) + 1
      /\ \A i \in 1 .. Len(libs) : libs'[i] = libs[i]
      /\ libs'[Len(libs) + 1] = Fresh(f)
  BY <1>1, AppendProperties, LenProperties DEF AddLib, Vector
<1>3. /\ capacity' \in Nat \ {0} /\ VecLength <= capacity' /\ Len(libs') <= capacity'
      /\ gen' \in Nat /\ gen <= gen' /\ (gen' > 0 => VecLength < Len(libs'))
  BY <1>2, LoaderAssumption DEF AddLib, Vector
<1> QED
  BY <1>2, <1>3 DEF Vector, Extended, Fresh

\* A library gets another mark.
Marked(i, l) == \A j \in 1 .. Len(libs) : libs'[j] = IF j = i THEN l ELSE libs[j]

LEMMA Marking ==
  ASSUME Vector, NEW i \in 1 .. Len(libs), NEW l \in LibSet, l.path = libs[i].path,
         libs' = [libs EXCEPT ![i] = l], UNCHANGED <<capacity, gen>>
  PROVE  Vector' /\ SamePaths /\ Marked(i, l)
<1>1. /\ libs' \in Seq(LibSet) /\ Len(libs') = Len(libs) /\ Len(libs) \in Nat \ {0}
      /\ \A j \in 1 .. Len(libs) : libs'[j] = IF j = i THEN l ELSE libs[j]
  BY ExceptSeq, EmptySeq DEF Vector
<1>2. libs' # <<>>
  BY <1>1, EmptySeq
<1>3. Vector'
  BY <1>1, <1>2 DEF Vector
<1>4. SamePaths
  BY <1>1 DEF SamePaths
<1> QED
  BY <1>1, <1>3, <1>4 DEF Marked

LEMMA Start ==
  ASSUME NEW l \in LibSet
  PROVE  LET m == [l EXCEPT !.started = TRUE]
         IN /\ m \in LibSet /\ m.path = l.path /\ m.linked = l.linked /\ m.started
            /\ m.inits = l.inits /\ m.finis = l.finis
  BY DEF LibSet

LEMMA Construct ==
  ASSUME NEW l \in LibSet
  PROVE  LET m == [l EXCEPT !.inits = @ + 1]
         IN /\ m \in LibSet /\ m.path = l.path /\ m.linked = l.linked /\ m.started = l.started
            /\ m.inits = l.inits + 1 /\ m.finis = l.finis
  BY DEF LibSet

LEMMA Destruct ==
  ASSUME NEW l \in LibSet
  PROVE  LET m == [l EXCEPT !.finis = @ + 1]
         IN /\ m \in LibSet /\ m.path = l.path /\ m.linked = l.linked /\ m.started = l.started
            /\ m.inits = l.inits /\ m.finis = l.finis + 1
  BY DEF LibSet

LEMMA Link ==
  ASSUME NEW l \in LibSet
  PROVE  LET m == [l EXCEPT !.linked = TRUE]
         IN /\ m \in LibSet /\ m.path = l.path /\ m.linked /\ m.started = l.started
            /\ m.inits = l.inits /\ m.finis = l.finis
  BY DEF LibSet

\* What link() of everything leaves of a library.
AllLinked ==
  \A i \in 1 .. Len(libs) :
    /\ libs'[i].linked /\ libs'[i].started = libs[i].started
    /\ libs'[i].inits = libs[i].inits /\ libs'[i].finis = libs[i].finis

LEMMA Linking ==
  ASSUME Vector, LinkAll, UNCHANGED <<capacity, gen>>
  PROVE  Vector' /\ SamePaths /\ AllLinked
<1> DEFINE n == Len(libs)
           m(i) == [libs[i] EXCEPT !.linked = TRUE]
<1>1. n \in Nat \ {0} /\ DOMAIN libs = 1 .. n /\ \A i \in 1 .. n : libs[i] \in LibSet
  BY EmptySeq, ElementOfSeq, LenProperties DEF Vector
<1>2. libs' = [i \in 1 .. n |-> m(i)]
  BY <1>1 DEF LinkAll
<1>3. \A i \in 1 .. n : /\ m(i) \in LibSet /\ m(i).path = libs[i].path /\ m(i).linked
                        /\ m(i).started = libs[i].started
                        /\ m(i).inits = libs[i].inits /\ m(i).finis = libs[i].finis
  <2> TAKE i \in 1 .. n
  <2>1. libs[i] \in LibSet
    BY <1>1
  <2> QED
    BY ONLY <2>1, Link DEF m
<1> HIDE DEF m
<1>4. libs' \in [1 .. n -> LibSet] /\ \A i \in 1 .. n : libs'[i] = m(i)
  BY <1>2, <1>3
<1>5. libs' \in Seq(LibSet) /\ Len(libs') = n
  BY <1>1, <1>4
<1>6. libs' # <<>>
  BY <1>1, <1>5, EmptySeq
<1>7. Vector'
  BY <1>5, <1>6 DEF Vector
<1> QED
  BY <1>3, <1>4, <1>5, <1>7 DEF SamePaths, AllLinked
----------------------------------------------------------------------------
(* What each step finds and does, in these terms *)

LEMMA TopIs ==
  ASSUME LoaderInv, NEW n, n = Len(stack)
  PROVE  /\ n \in Nat \ {0} /\ Top = stack[n]
         /\ stack[n].fn \in Fns /\ stack[n].i \in 1 .. Len(libs)
         /\ stack[n].g \in Nat /\ stack[n].g <= gen /\ stack[n].k \in Nat \ {0}
<1>1. n \in Nat \ {0} /\ Len(libs) \in Nat
  BY EmptySeq, LenProperties DEF LoaderInv, Calls, Vector
<1>2. stack[n] \in FrameSet
  BY <1>1, ElementOfSeq DEF LoaderInv, Calls
<1>3. stack[n].i <= Len(libs) /\ stack[n].g <= gen
  BY <1>1 DEF LoaderInv, Pointers
<1> QED
  BY <1>1, <1>2, <1>3, FieldsOf DEF Top

LEMMA NeedTypes ==
  ASSUME LoaderInv, NEW i \in 1 .. Len(libs)
  PROVE  /\ Self = libs[Top.i].path
         /\ Needed(libs[i].path) = disk[libs[i].path].needed
         /\ Needing(i) \in Nat /\ \A j \in 1 .. Needing(i) : NeedOf(i, j) \in Libs
<1>1. libs[i] \in LibSet
  BY ElementOfSeq DEF LoaderInv, Vector
<1>2. libs[i].path \in Libs
  BY <1>1, FieldsOfLib
<1>3. disk \in [Libs -> [needed : Seq(Libs), soname : BOOLEAN]]
  BY LoaderAssumption DEF LoaderInv, Scalars
<1>4. disk[libs[i].path].needed \in Seq(Libs)
  BY <1>2, <1>3
<1> QED
  BY <1>4, LenProperties, ElementOfSeq DEF Self, Needed, Needing, NeedOf

LEMMA TopNeeds ==
  ASSUME LoaderInv, NEW n, n = Len(stack)
  PROVE  /\ Len(Needed(Self)) = Needing(stack[n].i) /\ Needing(stack[n].i) \in Nat
         /\ \A j \in 1 .. Needing(stack[n].i) :
              Needed(Self)[j] = NeedOf(stack[n].i, j) /\ Needed(Self)[j] \in Libs
<1> DEFINE i == stack[n].i
<1>1. i \in 1 .. Len(libs) /\ Top = stack[n]
  BY TopIs
<1>2. /\ Self = libs[i].path /\ Needed(libs[i].path) = disk[libs[i].path].needed
      /\ Needing(i) \in Nat /\ \A j \in 1 .. Needing(i) : NeedOf(i, j) \in Libs
  BY <1>1, NeedTypes
<1> QED
  BY <1>2 DEF Needing, NeedOf

LEMMA LoadedIs ==
  ASSUME LoaderInv, NEW f
  PROVE  /\ f \in Loaded <=> IsLoaded(f)
         /\ DOMAIN libs = 1 .. Len(libs)
         /\ IsLoaded(f) => IndexOf(f) \in 1 .. Len(libs) /\ libs[IndexOf(f)].path = f
<1>1. DOMAIN libs = 1 .. Len(libs)
  BY LenProperties DEF LoaderInv, Vector
<1> QED
  BY <1>1 DEF Loaded, IsLoaded, IndexOf
----------------------------------------------------------------------------
(* The steps, in these terms *)

MarksOnly ==
  SamePaths /\ \A i \in 1 .. Len(libs) : libs'[i].linked = libs[i].linked

Quiet == UNCHANGED <<libs, gen>>

\* How often a library was started, constructed and destroyed.
SameStarted == \A j \in 1 .. Len(libs) : libs'[j].started <=> libs[j].started
SameInits == \A j \in 1 .. Len(libs) : libs'[j].inits = libs[j].inits
SameFinis == \A j \in 1 .. Len(libs) : libs'[j].finis = libs[j].finis

\* init_libs calls for every library in turn, init_lib for those it needs.
Visits(n, i) ==
  /\ stack[n].fn = "init_libs" => i = stack[n].k
  /\ stack[n].fn = "init" => /\ stack[n].k <= Needing(stack[n].i)
                             /\ libs[i].path = NeedOf(stack[n].i, stack[n].k)

Stays == Quiet /\ UNCHANGED stack

LoadFinds(n) ==
  /\ stack[n].fn = "load" /\ stack[n].k <= Needing(stack[n].i)
  /\ IsLoaded(NeedOf(stack[n].i, stack[n].k))
  /\ Turn(n, gen) /\ Quiet

LoadAdds(n, f) ==
  /\ stack[n].fn = "load" /\ stack[n].k <= Needing(stack[n].i)
  /\ f = NeedOf(stack[n].i, stack[n].k) /\ ~IsLoaded(f)
  /\ TurnPush(n, "load", Len(libs) + 1, gen') /\ Extended(f)

LoadEnds(n) ==
  /\ stack[n].fn = "load" /\ stack[n].k > Needing(stack[n].i)
  /\ PopReturn(n) /\ Quiet

StartEnds(n) ==
  /\ stack[n].fn = "start"
  /\ Restart("init_libs", 1, stack[n].g) /\ SamePaths /\ AllLinked

InitGoesOn(n) ==
  /\ stack[n].fn \in {"init_libs", "init"} /\ Turn(n, stack[n].g) /\ Quiet
  /\ \E i \in 1 .. Len(libs) : Visits(n, i) /\ libs[i].started

InitCalls(n, i) ==
  /\ stack[n].fn \in {"init_libs", "init"} /\ i \in 1 .. Len(libs)
  /\ TurnPush(n, "init", i, gen) /\ MarksOnly
  /\ Visits(n, i) /\ ~libs[i].started
  /\ \A j \in 1 .. Len(libs) : libs'[j].started <=> j = i \/ libs[j].started
  /\ SameInits /\ SameFinis

MainStarts(n) ==
  /\ stack[n].fn = "init_libs" /\ Restart("main", stack[n].i, stack[n].g) /\ Quiet
  /\ stack[n].k > Len(libs)

Constructs(n) ==
  /\ stack[n].fn = "init" /\ TurnPush(n, "ctor", stack[n].i, stack[n].g) /\ MarksOnly
  /\ stack[n].k = Needing(stack[n].i) + 1
  /\ \A j \in 1 .. Len(libs) :
       libs'[j].inits = IF j = stack[n].i THEN libs[j].inits + 1 ELSE libs[j].inits
  /\ SameStarted /\ SameFinis

Destructs(n) ==
  /\ stack[n].fn = "fini_libs" /\ stack[n].k <= Len(libs)
  /\ TurnPush(n, "dtor", stack[n].k, gen) /\ MarksOnly
  /\ \A j \in 1 .. Len(libs) :
       libs'[j].finis = IF j = stack[n].k THEN libs[j].finis + 1 ELSE libs[j].finis
  /\ SameStarted /\ SameInits

Ends(n) ==
  /\ stack[n].fn \in {"init", "fini_libs", "ctor", "dtor"} /\ Pop(n) /\ Quiet
  /\ stack[n].fn = "init" => stack[n].k > Needing(stack[n].i) + 1
  /\ stack[n].fn = "fini_libs" => stack[n].k > Len(libs)

Exits(n) ==
  stack[n].fn \in {"ctor", "main"} /\ Push(n, "fini_libs", 1, gen) /\ Quiet

OpenFinds(n, i) ==
  stack[n].fn \in User /\ i \in 1 .. Len(libs) /\ Push(n, "open", i, gen) /\ Quiet

OpenAdds(n, f) ==
  /\ stack[n].fn \in User /\ ~IsLoaded(f)
  /\ PushTwo(n, Len(libs) + 1, Len(libs) + 1) /\ Extended(f)

OpenEnds(n) ==
  stack[n].fn = "open" /\ Pop(n) /\ SamePaths /\ AllLinked

Moves(n) ==
  \/ Stays \/ LoadFinds(n) \/ LoadEnds(n) \/ StartEnds(n) \/ InitGoesOn(n) \/ MainStarts(n)
  \/ Constructs(n) \/ Destructs(n) \/ Ends(n) \/ Exits(n) \/ OpenEnds(n)
  \/ \E f \in Libs : LoadAdds(n, f) \/ OpenAdds(n, f)
  \/ \E i \in 1 .. Len(libs) : InitCalls(n, i) \/ OpenFinds(n, i)

\* The bottom frame calls and is never popped.
LEMMA NotBottom ==
  ASSUME LoaderInv, NEW n, n = Len(stack), stack[n].fn \notin {"start", "init_libs", "main"}
  PROVE  n # 1
  BY DEF LoaderInv, Shape

LEMMA DoesLoadNeeded ==
  ASSUME LoaderInv, NEW n, n = Len(stack), LoadNeeded
  PROVE  Vector' /\ Calls' /\ (LoadFinds(n) \/ \E f \in Libs : LoadAdds(n, f))
<1> DEFINE i == stack[n].i
           f == Needed(Self)[Top.k]
<1>1. /\ Top = stack[n] /\ stack[n].fn = "load" /\ i \in 1 .. Len(libs)
      /\ stack[n].k \in Nat \ {0} /\ stack[n].k <= Len(Needed(Self))
  BY TopIs DEF LoadNeeded, InFrame
<1>2. /\ stack[n].k <= Needing(i) /\ f = NeedOf(i, stack[n].k) /\ f \in Libs
  BY <1>1, TopNeeds
<1>3. Calls /\ Vector /\ gen \in Nat /\ Len(libs) \in Nat
  BY LenProperties DEF LoaderInv, Vector
<1> HIDE DEF f
<1>4. CASE f \in Loaded
  <2>1. IsLoaded(f)
    BY <1>4, LoadedIs
  <2>2. stack' = ReturnTo(Advance, gen) /\ UNCHANGED <<libs, capacity, gen>>
    BY <1>4 DEF LoadNeeded, CallLoad, Found, f
  <2>3. Calls' /\ Turn(n, gen)
    BY <1>1, <1>3, <2>2, TurnReturning
  <2>4. Vector'
    BY <1>3, <2>2 DEF Vector
  <2> QED
    BY ONLY <1>1, <1>2, <2>1, <2>2, <2>3, <2>4 DEF LoadFinds, Quiet, i
<1>5. CASE f \notin Loaded
  <2>1. ~IsLoaded(f)
    BY <1>5, LoadedIs
  <2>2. AddLib(f) /\ stack' = Append(Advance, Frame("load", Len(libs) + 1, gen'))
    BY <1>5 DEF LoadNeeded, CallLoad, Found, f
  <2>3. Vector' /\ Extended(f)
    BY <1>2, <1>3, <2>2, Adding
  <2>4. gen' \in Nat /\ Len(libs) + 1 \in Nat \ {0}
    BY <1>3, <2>3 DEF Vector
  <2>5. Calls' /\ TurnPush(n, "load", Len(libs) + 1, gen')
    BY <1>3, <2>2, <2>4, TurnPushing, FnNames
  <2> QED
    BY ONLY <1>1, <1>2, <2>1, <2>3, <2>5 DEF LoadAdds, i
<1> QED
  BY <1>4, <1>5

LEMMA DoesLoadReturn ==
  ASSUME LoaderInv, NEW n, n = Len(stack), LoadReturn
  PROVE  Vector' /\ Calls' /\ LoadEnds(n) /\ Self \in Libs
<1>1. Top = stack[n] /\ stack[n].fn = "load" /\ stack[n].i \in 1 .. Len(libs)
  BY TopIs DEF LoadReturn, InFrame
<1>2. stack[n].k > Needing(stack[n].i)
  BY <1>1, TopNeeds DEF LoadReturn
<1>3. Calls /\ Vector /\ UNCHANGED <<libs, capacity, gen>> /\ stack' = ReturnTo(Below, Top.g)
  BY DEF LoaderInv, LoadReturn
<1>4. n # 1
  BY <1>1, NotBottom
<1>5. Calls' /\ PopReturn(n)
  BY <1>3, <1>4, PopReturning
<1>6. Vector'
  BY <1>3 DEF Vector
<1>7. Self \in Libs
  <2>1. libs[stack[n].i] \in LibSet
    BY <1>1, <1>3, ElementOfSeq DEF Vector
  <2> QED
    BY <1>1, <2>1, FieldsOfLib DEF Self
<1> QED
  BY ONLY <1>1, <1>2, <1>3, <1>5, <1>6, <1>7 DEF LoadEnds, Quiet

LEMMA DoesMainLink ==
  ASSUME LoaderInv, NEW n, n = Len(stack), MainLink
  PROVE  Vector' /\ Calls' /\ StartEnds(n)
<1>1. Top = stack[n] /\ stack[n].fn = "start" /\ stack[n].g \in Nat
  BY TopIs DEF MainLink, InFrame
<1>2. Vector /\ LinkAll /\ UNCHANGED <<capacity, gen>>
  BY DEF LoaderInv, MainLink
<1>3. Vector' /\ SamePaths /\ AllLinked
  BY <1>2, Linking
<1>4. Calls' /\ Restart("init_libs", 1, stack[n].g)
  BY <1>1, Restarting, FnNames DEF MainLink
<1> QED
  BY <1>1, <1>3, <1>4 DEF StartEnds

LEMMA InitCalling ==
  ASSUME LoaderInv, NEW n, n = Len(stack), stack[n].fn \in {"init_libs", "init"},
         NEW i \in 1 .. Len(libs), Visits(n, i), CallInit(i, Advance),
         UNCHANGED <<capacity, gen>>
  PROVE  Vector' /\ Calls' /\ (InitGoesOn(n) \/ InitCalls(n, i))
<1>1. Calls /\ Vector /\ gen \in Nat /\ Len(libs) \in Nat
  BY LenProperties DEF LoaderInv, Vector
<1>2. CASE libs[i].started
  <2>1. stack' = Advance /\ UNCHANGED libs
    BY <1>2 DEF CallInit
  <2>2. Calls' /\ Turn(n, stack[n].g)
    BY <1>1, <2>1, Turning
  <2>3. Vector'
    BY <1>1, <2>1 DEF Vector
  <2> QED
    BY <1>2, <2>1, <2>2, <2>3 DEF InitGoesOn, Quiet
<1>3. CASE ~libs[i].started
  <2> DEFINE l == [libs[i] EXCEPT !.started = TRUE]
  <2>1. stack' = Append(Advance, Frame("init", i, gen)) /\ libs' = [libs EXCEPT ![i] = l]
    BY <1>3 DEF CallInit
  <2>2. libs[i] \in LibSet
    BY <1>1, ElementOfSeq DEF Vector
  <2>3. /\ l \in LibSet /\ l.path = libs[i].path /\ l.linked = libs[i].linked
        /\ l.started /\ l.inits = libs[i].inits /\ l.finis = libs[i].finis
    BY ONLY <2>2, Start DEF l
  <2> HIDE DEF l
  <2>4. Vector' /\ SamePaths /\ Marked(i, l)
    BY <1>1, <2>1, <2>3, Marking
  <2>5. Calls' /\ TurnPush(n, "init", i, gen)
    <3>1. i \in Nat \ {0}
      BY <1>1
    <3> QED
      BY <1>1, <2>1, <3>1, TurnPushing, FnNames
  <2>6. /\ MarksOnly /\ SameInits /\ SameFinis
        /\ \A j \in 1 .. Len(libs) : libs'[j].started <=> j = i \/ libs[j].started
    BY <2>3, <2>4 DEF MarksOnly, Marked, SameInits, SameFinis
  <2> QED
    BY <1>3, <2>4, <2>5, <2>6 DEF InitCalls
<1> QED
  BY <1>2, <1>3

LEMMA DoesInitNext ==
  ASSUME LoaderInv, NEW n, n = Len(stack), InitNext
  PROVE  /\ Vector' /\ Calls'
         /\ InitGoesOn(n) \/ MainStarts(n) \/ \E i \in 1 .. Len(libs) : InitCalls(n, i)
<1>1. /\ Top = stack[n] /\ stack[n].fn = "init_libs" /\ stack[n].k \in Nat \ {0}
      /\ stack[n].i \in 1 .. Len(libs) /\ stack[n].g \in Nat
  BY TopIs DEF InitNext, InFrame
<1>2. Vector /\ UNCHANGED <<capacity, gen>> /\ Len(libs) \in Nat
  BY LenProperties DEF LoaderInv, InitNext, Vector
<1>3. CASE stack[n].k <= Len(libs)
  <2>1. stack[n].k \in 1 .. Len(libs) /\ CallInit(stack[n].k, Advance)
    BY <1>1, <1>2, <1>3 DEF InitNext
  <2>2. Visits(n, stack[n].k)
    BY <1>1 DEF Visits
  <2> QED
    BY <1>1, <1>2, <2>1, <2>2, InitCalling
<1>4. CASE ~(stack[n].k <= Len(libs))
  <2>1. stack' = <<Frame("main", stack[n].i, stack[n].g)>> /\ UNCHANGED libs
    BY <1>1, <1>4 DEF InitNext
  <2>2. Calls' /\ Restart("main", stack[n].i, stack[n].g)
    BY <1>1, <1>2, <2>1, Restarting, FnNames
  <2>3. Vector'
    BY <1>2, <2>1 DEF Vector
  <2> QED
    BY <1>1, <1>2, <1>4, <2>1, <2>2, <2>3 DEF MainStarts, Quiet
<1> QED
  BY <1>3, <1>4

\* Once a library is initialised its load is over, and so are those of what
\* it needs.
LEMMA AllLoaded ==
  ASSUME LoaderInv, NEW n, n = Len(stack), stack[n].fn # "load"
  PROVE  \A i \in 1 .. Len(libs) : AllNeeds(i)
<1>1. n \in 1 .. n
  BY TopIs
<1>2. \A d \in 1 .. n : stack[d].fn # "load"
  BY <1>1 DEF LoaderInv, LoadsOnTop
<1> QED
  BY <1>2 DEF LoaderInv, Loading, Reached

LEMMA NeedLoaded ==
  ASSUME LoaderInv, NEW n, n = Len(stack), stack[n].fn # "load",
         NEW i \in 1 .. Len(libs), NEW j \in 1 .. Needing(i)
  PROVE  IsLoaded(NeedOf(i, j))
  BY AllLoaded DEF AllNeeds

LEMMA DoesInitDependency ==
  ASSUME LoaderInv, NEW n, n = Len(stack), InitDependency
  PROVE  Vector' /\ Calls' /\ (InitGoesOn(n) \/ \E i \in 1 .. Len(libs) : InitCalls(n, i))
<1> DEFINE f == Needed(Self)[Top.k]
<1>1. /\ Top = stack[n] /\ stack[n].fn = "init" /\ stack[n].k \in Nat \ {0}
      /\ stack[n].i \in 1 .. Len(libs) /\ stack[n].k <= Len(Needed(Self))
  BY TopIs DEF InitDependency, InFrame
<1>2. stack[n].k \in 1 .. Needing(stack[n].i) /\ f = NeedOf(stack[n].i, stack[n].k)
  BY <1>1, TopNeeds
<1>3. IsLoaded(f)
  BY <1>1, <1>2, NeedLoaded
<1>4. IndexOf(f) \in 1 .. Len(libs) /\ libs[IndexOf(f)].path = f
  BY <1>3, LoadedIs
<1>5. CallInit(IndexOf(f), Advance) /\ UNCHANGED <<capacity, gen>>
  BY DEF InitDependency
<1>6. Visits(n, IndexOf(f))
  BY <1>1, <1>2, <1>4 DEF Visits
<1> HIDE DEF f
<1> QED
  BY <1>1, <1>4, <1>5, <1>6, InitCalling

LEMMA DoesInitSelf ==
  ASSUME LoaderInv, NEW n, n = Len(stack), InitSelf
  PROVE  Vector' /\ Calls' /\ Constructs(n)
<1> DEFINE i == stack[n].i
           l == [libs[i] EXCEPT !.inits = @ + 1]
<1>1. /\ Top = stack[n] /\ stack[n].fn = "init" /\ i \in 1 .. Len(libs)
      /\ stack[n].g \in Nat
  BY TopIs DEF InitSelf, InFrame
<1>2. Calls /\ Vector /\ Len(libs) \in Nat
  BY LenProperties DEF LoaderInv, Vector
<1>3. /\ libs' = [libs EXCEPT ![i] = l] /\ UNCHANGED <<capacity, gen>>
      /\ stack' = Append(Advance, Frame("ctor", i, stack[n].g))
  BY <1>1 DEF InitSelf
<1>4. libs[i] \in LibSet
  BY <1>1, <1>2, ElementOfSeq DEF Vector
<1> HIDE DEF i
<1>5. /\ l \in LibSet /\ l.path = libs[i].path /\ l.linked = libs[i].linked
      /\ l.started = libs[i].started /\ l.inits = libs[i].inits + 1
      /\ l.finis = libs[i].finis
  BY ONLY <1>4, Construct DEF l
<1> HIDE DEF l
<1>6. Vector' /\ SamePaths /\ Marked(i, l)
  BY <1>1, <1>2, <1>3, <1>5, Marking
<1>7. i \in Nat \ {0}
  BY <1>1, <1>2
<1>8. Calls' /\ TurnPush(n, "ctor", i, stack[n].g)
  BY <1>1, <1>2, <1>3, <1>7, TurnPushing, FnNames
<1>9. /\ MarksOnly /\ SameStarted /\ SameFinis
      /\ \A j \in 1 .. Len(libs) :
           libs'[j].inits = IF j = i THEN libs[j].inits + 1 ELSE libs[j].inits
  BY <1>5, <1>6 DEF MarksOnly, Marked, SameStarted, SameFinis
<1>10. stack[n].k = Needing(i) + 1
  BY <1>1, TopNeeds DEF InitSelf, i
<1> QED
  BY <1>1, <1>6, <1>8, <1>9, <1>10 DEF Constructs, i

LEMMA DoesInitReturn ==
  ASSUME LoaderInv, NEW n, n = Len(stack), InitReturn \/ UserReturn
  PROVE  Vector' /\ Calls' /\ Ends(n)
<1>1. Top = stack[n] /\ stack[n].fn \in {"init", "ctor", "dtor"}
  BY TopIs DEF InitReturn, UserReturn, InFrame
<1>2. Calls /\ Vector /\ UNCHANGED <<libs, capacity, gen>> /\ stack' = Below
  BY DEF LoaderInv, InitReturn, UserReturn
<1>3. n # 1
  BY <1>1, NotBottom
<1>4. Calls' /\ Pop(n)
  BY <1>2, <1>3, Popping
<1>5. Vector'
  BY <1>2 DEF Vector
<1>6. stack[n].fn = "init" => stack[n].k > Needing(stack[n].i) + 1
  BY <1>1, TopNeeds DEF InitReturn, UserReturn, InFrame
<1> QED
  BY <1>1, <1>2, <1>4, <1>5, <1>6 DEF Ends, Quiet

LEMMA DoesFiniNext ==
  ASSUME LoaderInv, NEW n, n = Len(stack), FiniNext
  PROVE  Vector' /\ Calls' /\ (Destructs(n) \/ Ends(n))
<1> DEFINE k == stack[n].k
           l == [libs[k] EXCEPT !.finis = @ + 1]
<1>1. /\ Top = stack[n] /\ stack[n].fn = "fini_libs" /\ k \in Nat \ {0}
  BY TopIs DEF FiniNext, InFrame
<1>2. /\ Calls /\ Vector /\ Len(libs) \in Nat /\ gen \in Nat
      /\ UNCHANGED <<capacity, gen>>
  BY LenProperties DEF LoaderInv, Vector, FiniNext
<1>3. CASE k <= Len(libs)
  <2>1. /\ libs' = [libs EXCEPT ![k] = l]
        /\ stack' = Append(Advance, Frame("dtor", k, gen))
    BY <1>1, <1>3 DEF FiniNext
  <2>2. k \in 1 .. Len(libs)
    BY <1>1, <1>2, <1>3
  <2>3. libs[k] \in LibSet
    BY <1>2, <2>2, ElementOfSeq DEF Vector
  <2> HIDE DEF k
  <2>4. /\ l \in LibSet /\ l.path = libs[k].path /\ l.linked = libs[k].linked
        /\ l.started = libs[k].started /\ l.inits = libs[k].inits
        /\ l.finis = libs[k].finis + 1
    BY ONLY <2>3, Destruct DEF l
  <2> HIDE DEF l
  <2>5. Vector' /\ SamePaths /\ Marked(k, l)
    BY <1>2, <2>1, <2>2, <2>4, Marking
  <2>6. Calls' /\ TurnPush(n, "dtor", k, gen)
    BY <1>1, <1>2, <2>1, TurnPushing, FnNames
  <2>7. /\ MarksOnly /\ SameStarted /\ SameInits
        /\ \A j \in 1 .. Len(libs) :
             libs'[j].finis = IF j = k THEN libs[j].finis + 1 ELSE libs[j].finis
    BY <2>4, <2>5 DEF MarksOnly, Marked, SameStarted, SameInits
  <2> QED
    BY <1>1, <1>3, <2>5, <2>6, <2>7 DEF Destructs, k
<1>4. CASE ~(k <= Len(libs))
  <2>1. stack' = Below /\ UNCHANGED libs
    BY <1>1, <1>4 DEF FiniNext
  <2>2. n # 1
    BY <1>1, NotBottom
  <2>3. Calls' /\ Pop(n)
    BY <1>2, <2>1, <2>2, Popping
  <2>4. Vector'
    BY <1>2, <2>1 DEF Vector
  <2> QED
    BY <1>1, <1>2, <1>4, <2>1, <2>3, <2>4 DEF Ends, Quiet
<1> QED
  BY <1>3, <1>4

LEMMA DoesUserExit ==
  ASSUME LoaderInv, NEW n, n = Len(stack), UserExit
  PROVE  Vector' /\ Calls' /\ Exits(n)
<1>1. Top = stack[n] /\ stack[n].fn \in {"ctor", "main"}
  BY TopIs DEF UserExit, InFrame
<1>2. /\ Calls /\ Vector /\ gen \in Nat /\ UNCHANGED <<libs, capacity, gen>>
      /\ stack' = Append(stack, Frame("fini_libs", 1, gen))
  BY DEF LoaderInv, Vector, UserExit
<1>3. Calls' /\ Push(n, "fini_libs", 1, gen)
  BY <1>2, Pushing, FnNames
<1>4. Vector'
  BY <1>2 DEF Vector
<1> QED
  BY <1>1, <1>2, <1>3, <1>4 DEF Exits, Quiet

LEMMA DoesOpen ==
  ASSUME LoaderInv, NEW n, n = Len(stack), NEW f \in Libs, Open(f)
  PROVE  Vector' /\ Calls' /\ (OpenAdds(n, f) \/ \E i \in 1 .. Len(libs) : OpenFinds(n, i))
<1>1. stack[n].fn \in User
  BY TopIs DEF Open, InUser, InFrame
<1>2. Calls /\ Vector /\ gen \in Nat /\ Len(libs) \in Nat
  BY LenProperties DEF LoaderInv, Vector
<1>3. CASE f \in Loaded
  <2> DEFINE i == IndexOf(f)
  <2>1. i \in 1 .. Len(libs) /\ i \in Nat \ {0}
    BY <1>2, <1>3, LoadedIs
  <2>2. /\ stack' = ReturnTo(Append(stack, Frame("open", i, gen)), gen)
        /\ UNCHANGED <<libs, capacity, gen>>
    BY <1>3 DEF Open, CallLoad, Found
  <2> HIDE DEF i
  <2>3. Calls' /\ Push(n, "open", i, gen)
    BY <1>2, <2>1, <2>2, PushReturning
  <2>4. Vector'
    BY <1>2, <2>2 DEF Vector
  <2> QED
    BY <1>1, <2>1, <2>2, <2>3, <2>4 DEF OpenFinds, Quiet
<1>4. CASE f \notin Loaded
  <2> DEFINE i == Len(libs) + 1
  <2>1. ~IsLoaded(f) /\ i \in Nat \ {0}
    BY <1>2, <1>4, LoadedIs
  <2>2. /\ AddLib(f)
        /\ stack' = Append(Append(stack, Frame("open", i, gen)), Frame("load", i, gen'))
    BY <1>4 DEF Open, CallLoad, Found
  <2>3. Vector' /\ Extended(f)
    BY <1>2, <2>2, Adding
  <2>4. gen' \in Nat
    BY <2>3 DEF Vector
  <2> HIDE DEF i
  <2>5. Calls' /\ PushTwo(n, i, i)
    BY <1>2, <2>1, <2>2, <2>4, PushingTwo
  <2> QED
    BY <1>1, <2>1, <2>3, <2>5 DEF OpenAdds, i
<1> QED
  BY <1>3, <1>4

LEMMA DoesOpenReturn ==
  ASSUME LoaderInv, NEW n, n = Len(stack), OpenReturn
  PROVE  Vector' /\ Calls' /\ OpenEnds(n)
<1>1. Top = stack[n] /\ stack[n].fn = "open"
  BY TopIs DEF OpenReturn, InFrame
<1>2. Calls /\ Vector /\ LinkAll /\ UNCHANGED <<capacity, gen>> /\ stack' = Below
  BY DEF LoaderInv, OpenReturn
<1>3. Vector' /\ SamePaths /\ AllLinked
  BY <1>2, Linking
<1>4. n # 1
  BY <1>1, NotBottom
<1>5. Calls' /\ Pop(n)
  BY <1>2, <1>4, Popping
<1> QED
  BY <1>1, <1>3, <1>5 DEF OpenEnds

LEMMA Stepping ==
  ASSUME LoaderInv, NEW n, n = Len(stack), [LNext]_vars
  PROVE  Vector' /\ Calls' /\ Moves(n)
<1>1. CASE LoadFails \/ LinkFails \/ DanglingRead \/ UNCHANGED vars
  BY <1>1 DEF LoadFails, LinkFails, DanglingRead, vars, LoaderInv, Vector, Calls, Moves, Stays, Quiet
<1>2. CASE LoadNeeded
  BY <1>2, DoesLoadNeeded DEF Moves
<1>3. CASE LoadReturn
  BY <1>3, DoesLoadReturn DEF Moves
<1>4. CASE MainLink
  BY <1>4, DoesMainLink DEF Moves
<1>5. CASE InitNext
  BY <1>5, DoesInitNext DEF Moves
<1>6. CASE InitDependency
  BY <1>6, DoesInitDependency DEF Moves
<1>7. CASE InitSelf
  BY <1>7, DoesInitSelf DEF Moves
<1>8. CASE InitReturn \/ UserReturn
  BY <1>8, DoesInitReturn DEF Moves
<1>9. CASE FiniNext
  BY <1>9, DoesFiniNext DEF Moves
<1>10. CASE UserExit
  BY <1>10, DoesUserExit DEF Moves
<1>11. ASSUME NEW f \in Libs, Open(f)
       PROVE  Vector' /\ Calls' /\ Moves(n)
  BY <1>11, DoesOpen DEF Moves
<1>12. CASE OpenReturn
  BY <1>12, DoesOpenReturn DEF Moves
<1> QED
  BY <1>1, <1>2, <1>3, <1>4, <1>5, <1>6, <1>7, <1>8, <1>9, <1>10, <1>11, <1>12
     DEF LNext, LoadStep, LinkStep, InitStep, UserStep

LEMMA VectorGrows ==
  ASSUME LoaderInv, NEW n, Moves(n)
  PROVE  Len(libs) <= Len(libs') /\ gen <= gen'
<1>1. Len(libs) \in Nat /\ gen \in Nat
  BY LenProperties DEF LoaderInv, Vector
<1> QED
  BY ONLY <1>1, Moves(n) DEF Moves, Stays, Quiet, LoadFinds, LoadAdds, LoadEnds, StartEnds,
    InitGoesOn, InitCalls, MainStarts, Constructs, Destructs, Ends, Exits, OpenFinds, OpenAdds,
    OpenEnds, Extended, SamePaths, MarksOnly

LEMMA ScalarsKept ==
  ASSUME LoaderInv, [LNext]_vars, Vector', Len(libs) <= Len(libs'), gen <= gen'
  PROVE  Scalars' /\ UNCHANGED disk
<1>1. /\ Len(libs) \in Nat /\ gen \in Nat /\ Len(libs') \in Nat /\ gen' \in Nat
      /\ MaxOpens \in Nat
  BY LenProperties, LoaderAssumption DEF LoaderInv, Vector
<1>2. /\ disk \in Disks /\ (\A h \in handles : h.i \in 1 .. Len(libs) /\ h.g \in 0 .. gen)
      /\ spliced \in BOOLEAN /\ linkMap \in Seq(Libs)
      /\ status \in {"running", "exited", "error", "undefined"} /\ opens \in 0 .. MaxOpens
      /\ (status = "undefined" => gen > 0)
  BY DEF LoaderInv, Scalars
<1>9. status = "undefined" => gen' > 0
  BY ONLY <1>1, <1>2, gen <= gen'
<1>3. \A h \in handles : h.i \in 1 .. Len(libs') /\ h.g \in 0 .. gen'
  BY ONLY <1>1, <1>2, Len(libs) <= Len(libs'), gen <= gen'
<1>4. CASE LoadReturn
  <2>1. Self \in Libs
    BY <1>4, DoesLoadReturn
  <2>2. linkMap' \in Seq(Libs) /\ UNCHANGED <<disk, handles, spliced, status, opens>>
    BY <1>2, <1>4, <2>1, AppendProperties DEF LoadReturn
  <2> QED
    BY ONLY <1>2, <1>3, <1>9, <2>2 DEF Scalars
<1>5. CASE OpenReturn
  <2>1. /\ UNCHANGED <<disk, linkMap, status, opens>> /\ spliced' = TRUE
        /\ handles' = handles \cup {[i |-> Top.i, g |-> Top.g]}
    BY <1>5 DEF OpenReturn
  <2>2. Top.i \in 1 .. Len(libs) /\ Top.g \in Nat /\ Top.g <= gen
    BY TopIs
  <2>3. \A h \in handles' : h.i \in 1 .. Len(libs') /\ h.g \in 0 .. gen'
    BY ONLY <1>1, <1>3, <2>1, <2>2, Len(libs) <= Len(libs'), gen <= gen'
  <2> QED
    BY ONLY <1>2, <1>9, <2>1, <2>3 DEF Scalars
<1>6. CASE MainLink
  <2>1. UNCHANGED <<disk, handles, linkMap, status, opens>> /\ spliced' \in BOOLEAN
    BY <1>6 DEF MainLink
  <2> QED
    BY ONLY <1>2, <1>3, <1>9, <2>1 DEF Scalars
<1>8. ASSUME NEW f \in Libs, Open(f)
      PROVE  Scalars' /\ UNCHANGED disk
  <2>1. /\ UNCHANGED <<disk, handles, linkMap, status>> /\ spliced' \in BOOLEAN
        /\ opens < MaxOpens /\ opens' = opens + 1
    BY <1>8 DEF Open
  <2>2. opens' \in 0 .. MaxOpens
    BY <1>1, <1>2, <2>1
  <2> QED
    BY ONLY <1>2, <1>3, <1>9, <2>1, <2>2 DEF Scalars
<1>7. CASE \/ LoadNeeded \/ LoadFails \/ LinkFails \/ InitStep \/ FiniNext
           \/ UserReturn \/ UserExit \/ UNCHANGED vars
  <2>1. /\ UNCHANGED <<disk, handles, spliced, linkMap, opens>>
        /\ status' \in {"running", "exited", "error"} \cup {status}
    BY <1>2, <1>7 DEF LoadNeeded, LoadFails, LinkFails, InitStep, InitNext, InitDependency,
      InitSelf, InitReturn, FiniNext, UserReturn, UserExit, vars
  <2> QED
    BY ONLY <1>2, <1>3, <1>9, <2>1 DEF Scalars
<1>10. CASE DanglingRead
  <2>1. /\ UNCHANGED <<disk, handles, spliced, linkMap, opens>>
        /\ status' = "undefined" /\ Top.g # gen
    BY <1>10 DEF DanglingRead
  <2>2. Top.g \in Nat /\ Top.g <= gen
    BY TopIs
  <2>3. gen' > 0
    BY ONLY <1>1, <2>1, <2>2, gen <= gen'
  <2> QED
    BY ONLY <1>2, <1>3, <2>1, <2>3 DEF Scalars
<1> QED
  BY <1>4, <1>5, <1>6, <1>7, <1>8, <1>10 DEF LNext, LoadStep, LinkStep, UserStep
----------------------------------------------------------------------------
(* The moves keep the invariant *)

LEMMA Typed ==
  ASSUME LoaderInv, NEW n, n = Len(stack)
  PROVE  /\ n \in Nat \ {0} /\ Len(libs) \in Nat \ {0} /\ gen \in Nat
         /\ \A d \in 1 .. n : /\ stack[d].fn \in Fns /\ stack[d].i \in Nat \ {0}
                              /\ stack[d].g \in Nat /\ stack[d].k \in Nat \ {0}
<1>1. n \in Nat \ {0} /\ Len(libs) \in Nat \ {0} /\ gen \in Nat
  BY EmptySeq, LenProperties DEF LoaderInv, Calls, Vector
<1>2. \A d \in 1 .. n : stack[d] \in FrameSet
  BY ElementOfSeq DEF LoaderInv, Calls
<1> QED
  BY <1>1, <1>2, FieldsOf

\* The frames that stay work on what they worked on.
Held(m) == \A d \in 1 .. m : stack'[d].fn = stack[d].fn /\ stack'[d].i = stack[d].i

LEMMA Holding ==
  ASSUME NEW n \in Nat \ {0}
  PROVE  /\ \A g : Turn(n, g) => Held(n)
         /\ \A fn, i, g : TurnPush(n, fn, i, g) \/ Push(n, fn, i, g) => Held(n)
         /\ \A i, j : PushTwo(n, i, j) => Held(n)
         /\ Pop(n) => Held(n - 1)
         /\ n # 1 /\ PopReturn(n) => Held(n - 1)
<1>1. Kept(n) => Held(n)
  BY DEF Kept, Held
<1>2. Kept(n - 1) => Held(n - 1)
  BY DEF Kept, Held
<1>3. SameCall(n, 1) /\ Kept(n - 1) => Held(n)
  <2> SUFFICES ASSUME SameCall(n, 1), Kept(n - 1), NEW d \in 1 .. n
               PROVE  stack'[d].fn = stack[d].fn /\ stack'[d].i = stack[d].i
    BY DEF Held
  <2>1. d = n \/ d \in 1 .. n - 1
    OBVIOUS
  <2> QED
    BY <2>1 DEF SameCall, Kept
<1>4. n # 1 /\ SameCall(n - 1, 0) /\ Kept(n - 2) => Held(n - 1)
  <2> SUFFICES ASSUME n # 1, SameCall(n - 1, 0), Kept(n - 2), NEW d \in 1 .. n - 1
               PROVE  stack'[d].fn = stack[d].fn /\ stack'[d].i = stack[d].i
    BY DEF Held
  <2>1. d = n - 1 \/ d \in 1 .. n - 2
    OBVIOUS
  <2> QED
    BY <2>1 DEF SameCall, Kept
<1> QED
  BY ONLY <1>1, <1>2, <1>3, <1>4 DEF Turn, TurnPush, Push, PushTwo, Pop, PopReturn

\* Who calls whom stays right when frames go and when one more comes.
LEMMA CutShape ==
  ASSUME NEW n \in Nat \ {0}, n = Len(stack), Shape, LoadsOnTop, FiniOnTop,
         NEW m \in 1 .. n, Len(stack') = m, Held(m)
  PROVE  Shape' /\ LoadsOnTop' /\ FiniOnTop'
<1>1. \A d \in 1 .. m : d \in 1 .. n /\ stack'[d].fn = stack[d].fn
  BY DEF Held
<1>2. 1 \in 1 .. m /\ \A d \in 1 .. m - 1 : d \in 1 .. n - 1 /\ d \in 1 .. m /\ d + 1 \in 1 .. m
  OBVIOUS
<1>3. Shape'
  BY ONLY <1>1, <1>2, n = Len(stack), Len(stack') = m, Shape DEF Shape
<1>4. LoadsOnTop'
  BY ONLY <1>1, n = Len(stack), Len(stack') = m, LoadsOnTop DEF LoadsOnTop
<1>5. FiniOnTop'
  BY ONLY <1>1, n = Len(stack), Len(stack') = m, FiniOnTop DEF FiniOnTop
<1> QED
  BY <1>3, <1>4, <1>5

LEMMA GrownShape ==
  ASSUME NEW n \in Nat \ {0}, n = Len(stack), Shape, LoadsOnTop, FiniOnTop,
         Len(stack') = n + 1, Held(n), OnTop(stack[n].fn, stack'[n + 1].fn)
  PROVE  Shape' /\ LoadsOnTop' /\ FiniOnTop'
<1>1. \A d \in 1 .. n : stack'[d].fn = stack[d].fn
  BY DEF Held
<1>2. \A d \in 1 .. n : d = n \/ (d \in 1 .. n - 1 /\ d + 1 \in 1 .. n)
  OBVIOUS
<1>3. Shape'
  <2>1. \A d \in 1 .. n : OnTop(stack'[d].fn, stack'[d + 1].fn)
    <3> TAKE d \in 1 .. n
    <3>1. CASE d = n
      BY ONLY <1>1, <3>1, OnTop(stack[n].fn, stack'[n + 1].fn)
    <3>2. CASE d \in 1 .. n - 1 /\ d + 1 \in 1 .. n
      BY ONLY <1>1, <3>2, d \in 1 .. n, n = Len(stack), Shape DEF Shape
    <3> QED
      BY <1>2, <3>1, <3>2
  <2>2. stack'[1].fn \in {"start", "init_libs", "main"}
    BY <1>1 DEF Shape
  <2> QED
    BY <2>1, <2>2 DEF Shape
<1>4. ASSUME NEW d \in 1 .. n, stack[d].fn = "load"
      PROVE  stack[n].fn = "load"
  BY <1>2, <1>4 DEF LoadsOnTop
<1>5. ASSUME NEW d \in 1 .. n, stack[d].fn = "load"
      PROVE  stack'[n + 1].fn = "load"
  BY <1>4, <1>5 DEF OnTop
<1>6. \A d \in 1 .. n + 1 : d = n + 1 \/ d \in 1 .. n
  OBVIOUS
<1>7. ASSUME NEW d \in 1 .. n + 1, NEW e \in 1 .. n + 1, d < e, stack'[d].fn = "load"
      PROVE  stack'[e].fn = "load"
  <2>1. d \in 1 .. n
    BY <1>7
  <2>2. stack[d].fn = "load"
    BY <1>1, <1>7, <2>1
  <2>3. CASE e = n + 1
    BY <1>5, <2>1, <2>2, <2>3
  <2>4. CASE e \in 1 .. n
    BY <1>1, <1>7, <2>1, <2>2, <2>4 DEF LoadsOnTop
  <2> QED
    BY <1>6, <2>3, <2>4
<1>8. ASSUME NEW d \in 1 .. n, stack[d].fn = "fini_libs"
      PROVE  stack'[n + 1].fn \in {"dtor", "open", "load"}
  <2>1. stack[n].fn \in {"fini_libs", "dtor", "open", "load"}
    BY <1>2, <1>8 DEF FiniOnTop
  <2> QED
    BY ONLY <2>1, OnTop(stack[n].fn, stack'[n + 1].fn) DEF OnTop
<1>9. ASSUME NEW d \in 1 .. n + 1, NEW e \in 1 .. n + 1, d < e, stack'[d].fn = "fini_libs"
      PROVE  stack'[e].fn \in {"dtor", "open", "load"}
  <2>1. d \in 1 .. n
    BY <1>9
  <2>2. stack[d].fn = "fini_libs"
    BY <1>1, <1>9, <2>1
  <2>3. CASE e = n + 1
    BY <1>8, <2>1, <2>2, <2>3
  <2>4. CASE e \in 1 .. n
    BY <1>1, <1>9, <2>1, <2>2, <2>4 DEF FiniOnTop
  <2> QED
    BY <1>6, <2>3, <2>4
<1> QED
  BY <1>3, <1>7, <1>9 DEF LoadsOnTop, FiniOnTop

LEMMA ShapeKept ==
  ASSUME LoaderInv, NEW n, n = Len(stack), Moves(n)
  PROVE  Shape' /\ LoadsOnTop' /\ FiniOnTop'
<1>1. /\ n \in Nat \ {0} /\ n = Len(stack) /\ n \in 1 .. n
      /\ Shape /\ LoadsOnTop /\ FiniOnTop
  BY Typed DEF LoaderInv
<1>2. stack[n].fn \notin {"start", "init_libs", "main"} => n # 1
  BY NotBottom
<1>3. ASSUME NEW m \in 1 .. n, Len(stack') = m, Held(m)
      PROVE  Shape' /\ LoadsOnTop' /\ FiniOnTop'
  BY <1>1, <1>3, CutShape
<1>4. ASSUME Len(stack') = n + 1, Held(n), OnTop(stack[n].fn, stack'[n + 1].fn)
      PROVE  Shape' /\ LoadsOnTop' /\ FiniOnTop'
  BY <1>1, <1>4, GrownShape
<1>5. CASE Stays
  BY ONLY <1>1, <1>5 DEF Stays, Shape, LoadsOnTop, FiniOnTop
<1>6. CASE LoadFinds(n) \/ InitGoesOn(n)
  <2>1. \E g : Turn(n, g)
    BY <1>6 DEF LoadFinds, InitGoesOn
  <2>2. Len(stack') = n /\ Held(n)
    BY <1>1, <2>1, Holding DEF Turn
  <2> QED
    BY <1>1, <1>3, <2>2
<1>7. CASE LoadEnds(n) \/ Ends(n) \/ OpenEnds(n)
  <2>1. n # 1 /\ (PopReturn(n) \/ Pop(n))
    BY <1>2, <1>7 DEF LoadEnds, Ends, OpenEnds
  <2>2. Len(stack') = n - 1 /\ Held(n - 1)
    BY <1>1, <2>1, Holding DEF Pop, PopReturn
  <2>3. n - 1 \in 1 .. n
    BY <1>1, <2>1
  <2> QED
    BY <1>3, <2>2, <2>3
<1>8. CASE StartEnds(n) \/ MainStarts(n)
  <2>1. Len(stack') = 1 /\ stack'[1].fn \in {"init_libs", "main"}
    BY <1>8 DEF StartEnds, MainStarts, Restart, New
  <2> QED
    BY ONLY <2>1 DEF Shape, LoadsOnTop, FiniOnTop
<1>9. CASE Constructs(n) \/ Destructs(n) \/ Exits(n)
  <2>1. \E fn, i, g : /\ TurnPush(n, fn, i, g) \/ Push(n, fn, i, g)
                      /\ OnTop(stack[n].fn, fn)
    BY <1>9 DEF Constructs, Destructs, Exits, OnTop
  <2>2. Len(stack') = n + 1 /\ Held(n) /\ OnTop(stack[n].fn, stack'[n + 1].fn)
    BY <1>1, <2>1, Holding DEF TurnPush, Push, New
  <2> QED
    BY <1>4, <2>2
<1>10. ASSUME NEW f \in Libs, LoadAdds(n, f)
       PROVE  Shape' /\ LoadsOnTop' /\ FiniOnTop'
  <2>1. TurnPush(n, "load", Len(libs) + 1, gen') /\ OnTop(stack[n].fn, "load")
    BY <1>10 DEF LoadAdds, OnTop
  <2>2. Len(stack') = n + 1 /\ Held(n) /\ OnTop(stack[n].fn, stack'[n + 1].fn)
    BY <1>1, <2>1, Holding DEF TurnPush, New
  <2> QED
    BY <1>4, <2>2
<1>11. ASSUME NEW i \in 1 .. Len(libs), InitCalls(n, i) \/ OpenFinds(n, i)
       PROVE  Shape' /\ LoadsOnTop' /\ FiniOnTop'
  <2>1. \E fn, g : /\ TurnPush(n, fn, i, g) \/ Push(n, fn, i, g)
                   /\ OnTop(stack[n].fn, fn)
    BY <1>11 DEF InitCalls, OpenFinds, OnTop, User
  <2>2. Len(stack') = n + 1 /\ Held(n) /\ OnTop(stack[n].fn, stack'[n + 1].fn)
    BY <1>1, <2>1, Holding DEF TurnPush, Push, New
  <2> QED
    BY <1>4, <2>2
<1>12. ASSUME NEW f \in Libs, OpenAdds(n, f)
       PROVE  Shape' /\ LoadsOnTop' /\ FiniOnTop'
  <2>1. /\ PushTwo(n, Len(libs) + 1, Len(libs) + 1) /\ stack[n].fn \in {"ctor", "main", "dtor"}
        /\ Len(stack') = n + 2 /\ stack'[n + 1].fn = "open" /\ stack'[n + 2].fn = "load"
    BY <1>12 DEF OpenAdds, PushTwo, New, User
  <2>2. Held(n)
    BY <1>1, <2>1, Holding
  <2>3. \A d \in 1 .. n : stack'[d].fn = stack[d].fn
    BY <2>2 DEF Held
  <2>4. \A d \in 1 .. n + 1 : d = n + 1 \/ d = n \/ (d \in 1 .. n - 1 /\ d + 1 \in 1 .. n)
    BY <1>1
  <2>5. \A d \in 1 .. n + 1 : OnTop(stack'[d].fn, stack'[d + 1].fn)
    <3> TAKE d \in 1 .. n + 1
    <3>1. CASE d = n + 1
      BY ONLY <1>1, <2>1, <3>1 DEF OnTop
    <3>2. CASE d = n
      BY ONLY <1>1, <2>1, <2>3, <3>2 DEF OnTop
    <3>3. CASE d \in 1 .. n - 1 /\ d + 1 \in 1 .. n
      BY ONLY <1>1, <2>3, <3>3 DEF Shape
    <3> QED
      BY <2>4, <3>1, <3>2, <3>3
  <2>6. stack'[1].fn \in {"start", "init_libs", "main"}
    BY <1>1, <2>3 DEF Shape
  <2>7. Shape'
    BY <1>1, <2>1, <2>5, <2>6 DEF Shape
  <2>8. \A d \in 1 .. n : stack'[d].fn # "load"
    <3>1. \A d \in 1 .. n : d = n \/ d < n
      BY <1>1
    <3> QED
      BY ONLY <1>1, <2>1, <2>3, <3>1 DEF LoadsOnTop
  <2>9. LoadsOnTop'
    BY <1>1, <2>1, <2>8 DEF LoadsOnTop
  <2>10. ASSUME NEW d \in 1 .. n + 2, NEW e \in 1 .. n + 2, d < e, stack'[d].fn = "fini_libs"
         PROVE  stack'[e].fn \in {"dtor", "open", "load"}
    <3>1. \A c \in 1 .. n + 2 : c = n + 2 \/ c = n + 1 \/ c \in 1 .. n
      BY <1>1
    <3>2. d \in 1 .. n /\ stack[d].fn = "fini_libs"
      BY <2>1, <2>3, <2>10, <3>1
    <3>3. CASE e \in {n + 1, n + 2}
      BY <2>1, <3>3
    <3>4. CASE e \in 1 .. n
      BY <1>1, <2>3, <2>10, <3>2, <3>4 DEF FiniOnTop
    <3> QED
      BY <3>1, <3>3, <3>4
  <2> QED
    BY <1>1, <2>1, <2>7, <2>9, <2>10 DEF FiniOnTop
<1> QED
  BY <1>5, <1>6, <1>7, <1>8, <1>9, <1>10, <1>11, <1>12 DEF Moves

\* Pointers into the vector stay within it, as it is now.
Bounded(m) == \A d \in 1 .. m : stack'[d].i <= Len(libs') /\ stack'[d].g <= gen'

LEMMA Bounding ==
  ASSUME LoaderInv, NEW n, n = Len(stack), Vector', Moves(n)
  PROVE  /\ \A g : g <= gen' /\ Turn(n, g) => Bounded(n)
         /\ \A fn, i, g : TurnPush(n, fn, i, g) \/ Push(n, fn, i, g) => Bounded(n)
         /\ \A i, j : PushTwo(n, i, j) => Bounded(n)
         /\ Pop(n) => Bounded(n - 1)
         /\ n # 1 /\ PopReturn(n) => Bounded(n - 1)
<1>1. /\ n \in Nat \ {0} /\ gen <= gen'
      /\ \A d \in 1 .. n : stack[d].i <= Len(libs') /\ stack[d].g <= gen'
  <2>1. /\ n \in Nat \ {0} /\ Len(libs) \in Nat /\ gen \in Nat
        /\ \A d \in 1 .. n : stack[d].i \in Nat /\ stack[d].g \in Nat
    BY Typed
  <2>2. Len(libs) <= Len(libs') /\ gen <= gen' /\ Len(libs') \in Nat /\ gen' \in Nat
    BY VectorGrows, LenProperties DEF Vector
  <2>3. \A d \in 1 .. n : stack[d].i <= Len(libs) /\ stack[d].g <= gen
    BY DEF LoaderInv, Pointers
  <2> QED
    BY ONLY <2>1, <2>2, <2>3
<1>2. Kept(n) => Bounded(n)
  BY ONLY <1>1 DEF Kept, Bounded
<1>3. Kept(n - 1) => Bounded(n - 1)
  BY ONLY <1>1 DEF Kept, Bounded
<1>4. SameCall(n, 1) /\ Kept(n - 1) /\ stack'[n].g <= gen' => Bounded(n)
  <2> SUFFICES ASSUME SameCall(n, 1), Kept(n - 1), stack'[n].g <= gen', NEW d \in 1 .. n
               PROVE  stack'[d].i <= Len(libs') /\ stack'[d].g <= gen'
    BY DEF Bounded
  <2>1. d = n \/ d \in 1 .. n - 1
    BY <1>1
  <2> QED
    BY <1>1, <2>1 DEF SameCall, Kept
<1>5. n # 1 /\ SameCall(n - 1, 0) /\ Kept(n - 2) /\ stack'[n - 1].g <= gen' => Bounded(n - 1)
  <2> SUFFICES ASSUME n # 1, SameCall(n - 1, 0), Kept(n - 2), stack'[n - 1].g <= gen',
                      NEW d \in 1 .. n - 1
               PROVE  stack'[d].i <= Len(libs') /\ stack'[d].g <= gen'
    BY DEF Bounded
  <2>1. d = n - 1 \/ d \in 1 .. n - 2
    BY <1>1
  <2> QED
    BY <1>1, <2>1 DEF SameCall, Kept
<1>6. n \in 1 .. n /\ stack[n].g <= gen' /\ gen <= gen'
  BY <1>1
<1>7. n # 1 /\ PopReturn(n) => Bounded(n - 1)
  BY ONLY <1>5, <1>6 DEF PopReturn
<1> QED
  BY ONLY <1>2, <1>3, <1>4, <1>6, <1>7 DEF Turn, TurnPush, Push, PushTwo, Pop

LEMMA PointersKept ==
  ASSUME LoaderInv, NEW n, n = Len(stack), Vector', Moves(n)
  PROVE  Pointers'
<1>1. /\ n \in Nat \ {0} /\ n \in 1 .. n /\ n = Len(stack)
      /\ Len(libs) \in Nat \ {0} /\ gen \in Nat /\ stack[n].k \in Nat
  BY Typed
<1>2. /\ Len(libs) <= Len(libs') /\ gen <= gen' /\ Len(libs') \in Nat /\ gen' \in Nat
      /\ stack[n].i \in Nat /\ stack[n].i <= Len(libs)
      /\ stack[n].g \in Nat /\ stack[n].g <= gen
  BY <1>1, VectorGrows, LenProperties, Typed DEF Vector, LoaderInv, Pointers
<1>3. 1 <= Len(libs') /\ stack[n].i <= Len(libs') /\ stack[n].g <= gen'
  BY <1>1, <1>2
<1>4. ASSUME Bounded(n), Len(stack') = n + 1,
             stack'[n + 1].i <= Len(libs'), stack'[n + 1].g <= gen'
      PROVE  Pointers'
  <2>1. \A d \in 1 .. n + 1 : d = n + 1 \/ d \in 1 .. n
    BY <1>1
  <2> QED
    BY <1>4, <2>1 DEF Bounded, Pointers
<1>5. CASE Stays
  BY ONLY n = Len(stack), LoaderInv, <1>5 DEF Stays, Quiet, LoaderInv, Pointers
<1>6. CASE LoadFinds(n) \/ InitGoesOn(n)
  <2>1. \E g : g <= gen' /\ Turn(n, g)
    BY <1>2, <1>3, <1>6 DEF LoadFinds, InitGoesOn
  <2> QED
    BY <2>1, Bounding DEF Turn, Bounded, Pointers
<1>7. CASE LoadEnds(n) \/ Ends(n) \/ OpenEnds(n)
  <2>1. n # 1 /\ (PopReturn(n) \/ Pop(n))
    BY <1>7, NotBottom DEF LoadEnds, Ends, OpenEnds
  <2> QED
    BY <2>1, Bounding DEF Pop, PopReturn, Bounded, Pointers
<1>8. CASE StartEnds(n) \/ MainStarts(n)
  BY <1>3, <1>8 DEF StartEnds, MainStarts, Restart, New, Pointers
<1>9. CASE Constructs(n) \/ Destructs(n) \/ Exits(n)
  <2>1. \E fn, i, g : /\ TurnPush(n, fn, i, g) \/ Push(n, fn, i, g)
                      /\ i <= Len(libs') /\ g <= gen'
    <3>1. stack[n].k <= Len(libs) => stack[n].k <= Len(libs')
      BY <1>1, <1>2
    <3> QED
      BY <1>2, <1>3, <1>9, <3>1 DEF Constructs, Destructs, Exits
  <2> QED
    BY <1>4, <2>1, Bounding DEF TurnPush, Push, New
<1>10. ASSUME NEW f \in Libs, LoadAdds(n, f)
       PROVE  Pointers'
  <2>1. TurnPush(n, "load", Len(libs'), gen')
    BY <1>10 DEF LoadAdds, Extended
  <2>2. Bounded(n)
    BY <2>1, Bounding
  <2>3. /\ Len(stack') = n + 1
        /\ stack'[n + 1].i <= Len(libs') /\ stack'[n + 1].g <= gen'
    BY ONLY <1>2, <2>1 DEF TurnPush, New
  <2> QED
    BY <1>4, <2>2, <2>3
<1>11. ASSUME NEW i \in 1 .. Len(libs), InitCalls(n, i) \/ OpenFinds(n, i)
       PROVE  Pointers'
  <2>1. i <= Len(libs')
    BY <1>1, <1>2
  <2>2. \E fn : TurnPush(n, fn, i, gen) \/ Push(n, fn, i, gen)
    BY <1>11 DEF InitCalls, OpenFinds
  <2> QED
    BY <1>2, <1>4, <2>1, <2>2, Bounding DEF TurnPush, Push, New
<1>12. ASSUME NEW f \in Libs, OpenAdds(n, f)
       PROVE  Pointers'
  <2>1. PushTwo(n, Len(libs'), Len(libs'))
    BY <1>12 DEF OpenAdds, Extended
  <2>2. Bounded(n)
    BY <2>1, Bounding
  <2>3. /\ Len(stack') = n + 2
        /\ stack'[n + 1].i <= Len(libs') /\ stack'[n + 1].g <= gen'
        /\ stack'[n + 2].i <= Len(libs') /\ stack'[n + 2].g <= gen'
    BY ONLY <1>2, <2>1 DEF PushTwo, New
  <2>4. \A d \in 1 .. n + 2 : d = n + 2 \/ d = n + 1 \/ d \in 1 .. n
    BY <1>1
  <2> QED
    BY <2>2, <2>3, <2>4 DEF Bounded, Pointers
<1> QED
  BY <1>5, <1>6, <1>7, <1>8, <1>9, <1>10, <1>11, <1>12 DEF Moves

LEMMA CurrentKept ==
  ASSUME LoaderInv, NEW n, n = Len(stack), Moves(n)
  PROVE  Current'
<1>1. /\ n \in Nat \ {0} /\ n = Len(stack) /\ Current /\ Shape /\ LoadsOnTop
      /\ stack[n].fn \in {"load", "open"} => stack[n].g = gen
  BY Typed DEF LoaderInv, Current
<1>2. stack[n].fn \notin {"start", "init_libs", "main"} => n # 1
  BY NotBottom
<1>3. ASSUME n # 1
      PROVE  OnTop(stack[n - 1].fn, stack[n].fn)
  BY <1>1, <1>3 DEF Shape
<1>4. CASE Stays
  BY ONLY <1>1, <1>4 DEF Stays, Quiet, Current
<1>5. CASE LoadFinds(n) \/ InitGoesOn(n)
  BY ONLY <1>1, <1>5 DEF LoadFinds, InitGoesOn, Turn, SameCall, Quiet, Current
<1>6. CASE LoadEnds(n)
  BY ONLY <1>1, <1>6 DEF LoadEnds, PopReturn, SameCall, Quiet, Current
<1>7. CASE StartEnds(n) \/ MainStarts(n)
  BY ONLY <1>7 DEF StartEnds, MainStarts, Restart, New, Current
<1>8. CASE Constructs(n) \/ Destructs(n) \/ Exits(n)
  BY ONLY <1>1, <1>8 DEF Constructs, Destructs, Exits, TurnPush, Push, New, Current
<1>9. CASE Ends(n) \/ OpenEnds(n)
  <2>1. n # 1
    BY <1>2, <1>9 DEF Ends, OpenEnds
  <2>2. OnTop(stack[n - 1].fn, stack[n].fn)
    BY <1>3, <2>1
  <2>3. stack[n - 1].fn \notin {"load", "open"}
    BY <1>9, <2>2 DEF Ends, OpenEnds, OnTop
  <2>4. Len(stack') = n - 1 /\ stack'[n - 1] = stack[n - 1]
    BY <1>1, <1>9, <2>1 DEF Ends, OpenEnds, Pop, Kept
  <2> QED
    BY <2>3, <2>4 DEF Current
<1>10. ASSUME NEW f \in Libs, LoadAdds(n, f)
       PROVE  Current'
  BY ONLY <1>1, <1>10 DEF LoadAdds, TurnPush, New, Current
<1>11. ASSUME NEW i \in 1 .. Len(libs), InitCalls(n, i) \/ OpenFinds(n, i)
       PROVE  Current'
  BY ONLY <1>1, <1>11 DEF InitCalls, OpenFinds, TurnPush, Push, New, MarksOnly, SamePaths,
    Quiet, Current
<1>12. ASSUME NEW f \in Libs, OpenAdds(n, f)
       PROVE  Current'
  BY ONLY <1>1, <1>12 DEF OpenAdds, PushTwo, New, Current
<1> QED
  BY <1>4, <1>5, <1>6, <1>7, <1>8, <1>9, <1>10, <1>11, <1>12 DEF Moves

\* The libraries stay where they are; a new one has a path of its own.
LEMMA Vectors ==
  ASSUME LoaderInv, NEW n, Moves(n)
  PROVE  SamePaths \/ \E f \in Libs : Extended(f) /\ ~IsLoaded(f) /\ (LoadAdds(n, f) \/ OpenAdds(n, f))
<1>1. Quiet => SamePaths
  BY DEF Quiet, SamePaths
<1> QED
  BY ONLY <1>1, Moves(n) DEF Moves, Stays, LoadFinds, LoadAdds, LoadEnds, StartEnds, InitGoesOn,
    InitCalls, MainStarts, Constructs, Destructs, Ends, Exits, OpenFinds, OpenAdds, OpenEnds, MarksOnly

LEMMA DistinctKept ==
  ASSUME LoaderInv, NEW n, Moves(n)
  PROVE  Distinct'
<1>1. Len(libs) \in Nat /\ \A i, j \in 1 .. Len(libs) : libs[i].path = libs[j].path => i = j
  BY LenProperties DEF LoaderInv, Vector, Distinct
<1>2. CASE SamePaths
  BY ONLY <1>1, <1>2 DEF SamePaths, Distinct
<1>3. ASSUME NEW f \in Libs, Extended(f), ~IsLoaded(f)
      PROVE  Distinct'
  <2>1. /\ Len(libs') = Len(libs) + 1 /\ \A i \in 1 .. Len(libs) : libs'[i] = libs[i]
        /\ libs'[Len(libs) + 1].path = f
        /\ \A i \in 1 .. Len(libs) : libs[i].path # f
    BY <1>3 DEF Extended, IsLoaded
  <2>2. \A i \in 1 .. Len(libs) + 1 : i = Len(libs) + 1 \/ i \in 1 .. Len(libs)
    BY <1>1
  <2> QED
    BY ONLY <1>1, <2>1, <2>2 DEF Distinct
<1> QED
  BY <1>2, <1>3, Vectors

LEMMA LinkedKept ==
  ASSUME LoaderInv, NEW n, n = Len(stack), Moves(n)
  PROVE  Linked'
<1>1. /\ n \in Nat \ {0} /\ n = Len(stack)
      /\ stack[n].fn \notin {"start", "load", "open"} => \A i \in 1 .. Len(libs) : libs[i].linked
  BY Typed DEF LoaderInv, Linked
<1>2. ASSUME n # 1
      PROVE  OnTop(stack[n - 1].fn, stack[n].fn)
  BY <1>1, <1>2 DEF LoaderInv, Shape
<1>3. CASE Stays
  BY ONLY <1>1, <1>3 DEF Stays, Quiet, Linked
<1>4. CASE LoadFinds(n) \/ InitGoesOn(n)
  BY ONLY <1>1, <1>4 DEF LoadFinds, InitGoesOn, Turn, SameCall, Quiet, Linked
<1>5. CASE LoadEnds(n)
  <2>1. n # 1
    BY <1>5, NotBottom DEF LoadEnds
  <2>2. stack[n - 1].fn \in {"start", "load", "open"}
    BY <1>2, <1>5, <2>1 DEF LoadEnds, OnTop
  <2> QED
    BY ONLY <1>1, <1>5, <2>2 DEF LoadEnds, PopReturn, SameCall, Linked
<1>6. CASE StartEnds(n) \/ OpenEnds(n)
  BY ONLY <1>6 DEF StartEnds, OpenEnds, SamePaths, AllLinked, Linked
<1>7. CASE MainStarts(n)
  BY ONLY <1>1, <1>7 DEF MainStarts, Restart, New, Quiet, Linked
<1>8. CASE Constructs(n) \/ Destructs(n)
  BY ONLY <1>1, <1>8 DEF Constructs, Destructs, TurnPush, New, MarksOnly, SamePaths, Linked
<1>9. CASE Ends(n) \/ Exits(n)
  BY ONLY <1>1, <1>9 DEF Ends, Exits, Pop, Push, New, Quiet, Linked
<1>10. ASSUME NEW f \in Libs, LoadAdds(n, f)
       PROVE  Linked'
  BY ONLY <1>1, <1>10 DEF LoadAdds, TurnPush, New, Linked
<1>11. ASSUME NEW i \in 1 .. Len(libs), InitCalls(n, i) \/ OpenFinds(n, i)
       PROVE  Linked'
  BY ONLY <1>1, <1>11 DEF InitCalls, OpenFinds, TurnPush, Push, New, MarksOnly, SamePaths, Linked
<1>12. ASSUME NEW f \in Libs, OpenAdds(n, f)
       PROVE  Linked'
  BY ONLY <1>1, <1>12 DEF OpenAdds, PushTwo, New, Linked
<1> QED
  BY <1>3, <1>4, <1>5, <1>6, <1>7, <1>8, <1>9, <1>10, <1>11, <1>12 DEF Moves

LEMMA NeedsKept ==
  ASSUME LoaderInv, NEW n, Moves(n), UNCHANGED disk, NEW i \in 1 .. Len(libs)
  PROVE  /\ \A f : IsLoaded(f) => IsLoaded(f)'
         /\ Needing(i)' = Needing(i) /\ \A j : NeedOf(i, j)' = NeedOf(i, j)
         /\ AllNeeds(i) => AllNeeds(i)'
         /\ \A k : UpTo(i, k) => UpTo(i, k)'
<1>1. /\ \A j \in 1 .. Len(libs) : libs'[j].path = libs[j].path /\ j \in 1 .. Len(libs')
      /\ Len(libs) \in Nat
  <2>1. Len(libs) \in Nat
    BY LenProperties DEF LoaderInv, Vector
  <2> QED
    BY <2>1, Vectors DEF SamePaths, Extended
<1>2. \A f : IsLoaded(f) => IsLoaded(f)'
  BY <1>1 DEF IsLoaded
<1>3. Needing(i)' = Needing(i) /\ \A j : NeedOf(i, j)' = NeedOf(i, j)
  BY <1>1 DEF Needing, NeedOf
<1>4. AllNeeds(i) => AllNeeds(i)'
  BY ONLY <1>2, <1>3 DEF AllNeeds
<1>5. \A k : UpTo(i, k) => UpTo(i, k)'
  BY ONLY <1>2, <1>3 DEF UpTo
<1> QED
  BY <1>2, <1>3, <1>4, <1>5

\* A load takes the next entry: the frames below it are those of other loads.
LEMMA LoadOn ==
  ASSUME LoaderInv, NEW n, n = Len(stack), Moves(n), UNCHANGED disk,
         Len(stack') \in {n, n + 1}, Kept(n - 1), SameCall(n, 1),
         NEW f, f = NeedOf(stack[n].i, stack[n].k), IsLoaded(f)',
         NEW i \in 1 .. Len(libs), ~AllNeeds(i)
  PROVE  Reached(i)'
<1>1. n \in Nat \ {0} /\ \A d \in 1 .. n : stack[d].k \in Nat \ {0}
  BY Typed
<1>2. PICK d \in 1 .. n, k \in Nat :
        stack[d].fn = "load" /\ stack[d].i = i /\ stack[d].k = k /\ UpTo(i, k)
  BY DEF LoaderInv, Loading, Reached
<1>3. /\ UpTo(i, k)' /\ Needing(i)' = Needing(i) /\ Needing(i) \in Nat
      /\ \A j : NeedOf(i, j)' = NeedOf(i, j)
  BY <1>2, NeedsKept, NeedTypes
<1>4. d \in 1 .. Len(stack') /\ (d = n \/ d \in 1 .. n - 1)
  BY <1>1
<1>5. CASE d \in 1 .. n - 1
  <2>1. stack'[d] = stack[d]
    BY <1>5 DEF Kept
  <2> QED
    BY <1>2, <1>3, <1>4, <2>1 DEF Reached
<1>6. CASE d = n
  <2>1. stack'[n].fn = "load" /\ stack'[n].i = i /\ stack'[n].k = k + 1 /\ k + 1 \in Nat
    BY <1>2, <1>6 DEF SameCall
  <2>2. f = NeedOf(i, k)
    BY <1>2, <1>6
  <2>3. UpTo(i, k + 1)'
    <3>1. \A j \in 1 .. Needing(i)' : j < k + 1 => j < k \/ j = k
      BY <1>3
    <3> QED
      BY ONLY <1>3, <2>2, <3>1, IsLoaded(f)' DEF UpTo
  <2> QED
    BY <1>4, <1>6, <2>1, <2>3 DEF Reached
<1> QED
  BY <1>4, <1>5, <1>6

LEMMA LoadingKept ==
  ASSUME LoaderInv, NEW n, n = Len(stack), Moves(n), UNCHANGED disk
  PROVE  Loading'
<1>1. /\ n \in Nat \ {0} /\ n = Len(stack) /\ Len(libs) \in Nat
      /\ \A d \in 1 .. n : stack[d].k \in Nat
  BY Typed
<1>2. \A i \in 1 .. Len(libs) : AllNeeds(i) => AllNeeds(i)'
  BY NeedsKept
<1>3. CASE stack[n].fn # "load" /\ SamePaths
  BY <1>2, <1>3, AllLoaded DEF Loading, SamePaths
<1>4. CASE Stays
  <2>1. ASSUME NEW i \in 1 .. Len(libs), Reached(i)
        PROVE  Reached(i)'
    <3>1. \A k : UpTo(i, k) => UpTo(i, k)'
      BY NeedsKept
    <3>2. PICK d \in 1 .. Len(stack), k \in Nat :
            stack[d].fn = "load" /\ stack[d].i = i /\ stack[d].k = k /\ UpTo(i, k)
      BY <2>1 DEF Reached
    <3> QED
      BY <1>4, <3>1, <3>2 DEF Stays, Reached
  <2> QED
    BY <1>2, <1>4, <2>1 DEF LoaderInv, Loading, Stays, Quiet
<1>5. CASE LoadFinds(n)
  <2>1. PICK f : f = NeedOf(stack[n].i, stack[n].k)
    OBVIOUS
  <2>2. /\ Len(stack') = n /\ Kept(n - 1) /\ SameCall(n, 1) /\ UNCHANGED libs
        /\ IsLoaded(f)
    BY <1>5, <2>1 DEF LoadFinds, Turn, Quiet
  <2>3. IsLoaded(f)'
    BY <2>2 DEF IsLoaded
  <2>4. \A i \in 1 .. Len(libs) : ~AllNeeds(i) => Reached(i)'
    BY <2>1, <2>2, <2>3, LoadOn
  <2> QED
    BY <1>2, <2>2, <2>4 DEF Loading
<1>6. ASSUME NEW f \in Libs, LoadAdds(n, f)
      PROVE  Loading'
  <2>0. PICK l : l = Len(libs) + 1
    OBVIOUS
  <2>1. /\ f = NeedOf(stack[n].i, stack[n].k)
        /\ Len(stack') = n + 1 /\ Kept(n - 1) /\ SameCall(n, 1)
        /\ New(stack'[n + 1], "load", l, gen')
        /\ Len(libs') = l /\ libs'[l].path = f
    BY <1>6, <2>0 DEF LoadAdds, TurnPush, Extended
  <2>2. IsLoaded(f)'
    BY <1>1, <2>0, <2>1 DEF IsLoaded
  <2>3. \A i \in 1 .. Len(libs) : ~AllNeeds(i) => Reached(i)'
    BY <1>1, <2>1, <2>2, LoadOn
  <2>4. Reached(l)'
    <3>1. UpTo(l, 1)'
      BY DEF UpTo
    <3> QED
      BY <1>1, <2>1, <3>1 DEF Reached, New
  <2>5. \A i \in 1 .. l : i = l \/ i \in 1 .. Len(libs)
    BY <1>1, <2>0
  <2> QED
    BY <1>2, <2>1, <2>3, <2>4, <2>5 DEF Loading
<1>7. ASSUME NEW f \in Libs, OpenAdds(n, f)
      PROVE  Loading'
  <2>0. PICK l : l = Len(libs) + 1
    OBVIOUS
  <2>1. /\ stack[n].fn # "load" /\ Len(libs') = l
        /\ Len(stack') = n + 2 /\ New(stack'[n + 2], "load", l, gen')
    BY <1>7, <2>0 DEF OpenAdds, PushTwo, Extended, User
  <2>2. \A i \in 1 .. Len(libs) : AllNeeds(i)'
    BY <1>2, <2>1, AllLoaded
  <2>3. Reached(l)'
    <3>1. UpTo(l, 1)'
      BY DEF UpTo
    <3> QED
      BY <1>1, <2>1, <3>1 DEF Reached, New
  <2>4. \A i \in 1 .. l : i = l \/ i \in 1 .. Len(libs)
    BY <1>1, <2>0
  <2> QED
    BY <2>1, <2>2, <2>3, <2>4 DEF Loading
<1>8. CASE LoadEnds(n)
  <2>1. /\ n # 1 /\ UNCHANGED libs /\ stack[n].k > Needing(stack[n].i)
        /\ Len(stack') = n - 1 /\ Kept(n - 2) /\ SameCall(n - 1, 0)
    BY <1>8, NotBottom DEF LoadEnds, Quiet, PopReturn
  <2>2. ASSUME NEW i \in 1 .. Len(libs), ~AllNeeds(i)
        PROVE  Reached(i)'
    <3>1. PICK d \in 1 .. n, k \in Nat :
            stack[d].fn = "load" /\ stack[d].i = i /\ stack[d].k = k /\ UpTo(i, k)
      BY <2>2 DEF LoaderInv, Loading, Reached
    <3>2. UpTo(i, k)'
      BY <3>1, NeedsKept
    <3>3. d # n
      <4>1. SUFFICES ASSUME d = n
                     PROVE  AllNeeds(i)
        BY <2>2
      <4>2. Needing(i) \in Nat /\ Needing(i) < k
        BY <2>1, <3>1, <4>1, NeedTypes
      <4> QED
        BY <3>1, <4>2 DEF UpTo, AllNeeds
    <3>4. d \in 1 .. n - 1 /\ (d = n - 1 \/ d \in 1 .. n - 2)
      BY <1>1, <3>3
    <3>5. stack'[d].fn = "load" /\ stack'[d].i = i /\ stack'[d].k = k
      <4>1. CASE d = n - 1
        BY <2>1, <3>1, <4>1 DEF SameCall
      <4>2. CASE d \in 1 .. n - 2
        BY <2>1, <3>1, <4>2 DEF Kept
      <4> QED
        BY <3>4, <4>1, <4>2
    <3> QED
      BY <2>1, <3>2, <3>4, <3>5 DEF Reached
  <2> QED
    BY <1>2, <2>1, <2>2 DEF Loading
<1>9. StartEnds(n) \/ InitGoesOn(n) \/ MainStarts(n) \/ Constructs(n) \/ Destructs(n)
        \/ Ends(n) \/ Exits(n) \/ OpenEnds(n)
        \/ (\E i \in 1 .. Len(libs) : InitCalls(n, i) \/ OpenFinds(n, i))
      => stack[n].fn # "load" /\ SamePaths
  BY DEF StartEnds, InitGoesOn, MainStarts, Constructs, Destructs, Ends, Exits, OpenEnds,
    InitCalls, OpenFinds, User, Quiet, MarksOnly, SamePaths
<1> QED
  BY <1>3, <1>4, <1>5, <1>6, <1>7, <1>8, <1>9 DEF Moves

LEMMA InvStep == LoaderInv /\ [LNext]_vars => LoaderInv'
<1> SUFFICES ASSUME LoaderInv, [LNext]_vars
             PROVE  LoaderInv'
  OBVIOUS
<1>1. PICK n : n = Len(stack)
  OBVIOUS
<1>2. Vector' /\ Calls' /\ Moves(n)
  BY <1>1, Stepping
<1>3. Len(libs) <= Len(libs') /\ gen <= gen'
  BY <1>2, VectorGrows
<1>4. Scalars' /\ UNCHANGED disk
  BY <1>2, <1>3, ScalarsKept
<1>5. Pointers' /\ Shape' /\ LoadsOnTop' /\ FiniOnTop' /\ Current' /\ Distinct' /\ Loading' /\ Linked'
  BY <1>1, <1>2, <1>4, PointersKept, ShapeKept, CurrentKept, DistinctKept, LoadingKept, LinkedKept
<1> QED
  BY <1>2, <1>4, <1>5 DEF LoaderInv

LEMMA InvInit == LInit => LoaderInv
<1> SUFFICES ASSUME LInit
             PROVE  LoaderInv
  OBVIOUS
<1>1. PICK l : l = [path |-> Exe, linked |-> FALSE, started |-> FALSE, inits |-> 0, finis |-> 0]
  OBVIOUS
<1>2. PICK s, t : s = Frame("start", 1, 0) /\ t = Frame("load", 1, 0)
  OBVIOUS
<1>3. /\ disk \in Disks /\ libs = <<l>> /\ capacity = VecLength /\ gen = 0
      /\ stack = <<s, t>> /\ handles = {} /\ spliced = FALSE /\ linkMap = <<>>
      /\ status = "running" /\ opens = 0
  BY <1>1, <1>2 DEF LInit
<1>4. l \in LibSet /\ l.path = Exe
  BY <1>1, LoaderAssumption DEF LibSet
<1>5. /\ s \in FrameSet /\ s.fn = "start" /\ s.i = 1 /\ s.g = 0 /\ s.k = 1
      /\ t \in FrameSet /\ t.fn = "load" /\ t.i = 1 /\ t.g = 0 /\ t.k = 1
  BY <1>2, NewFrame, FnNames
<1>6. /\ libs \in Seq(LibSet) /\ Len(libs) = 1 /\ libs[1] = l /\ libs # <<>>
      /\ stack \in Seq(FrameSet) /\ Len(stack) = 2 /\ stack[1] = s /\ stack[2] = t
      /\ stack # <<>>
  BY ONLY <1>3, <1>4, <1>5
<1>7. Vector /\ Calls
  BY <1>3, <1>6, LoaderAssumption DEF Vector, Calls
<1>8. Pointers /\ Current
  BY ONLY <1>3, <1>5, <1>6 DEF Pointers, Current
<1>9. Scalars
  <2>1. MaxOpens \in Nat
    BY LoaderAssumption
  <2>2. opens \in 0 .. MaxOpens
    BY ONLY <1>3, <2>1
  <2>3. linkMap \in Seq(Libs)
    BY ONLY <1>3, EmptySeq
  <2> QED
    BY ONLY <1>3, <2>2, <2>3 DEF Scalars
<1>10. Shape /\ LoadsOnTop /\ FiniOnTop
  BY ONLY <1>5, <1>6 DEF Shape, LoadsOnTop, FiniOnTop, OnTop
<1>11. Distinct /\ Linked
  BY ONLY <1>5, <1>6 DEF Distinct, Linked
<1>12. Loading
  <2>1. UpTo(1, 1)
    BY DEF UpTo
  <2>2. Reached(1)
    BY ONLY <1>5, <1>6, <2>1 DEF Reached
  <2> QED
    BY ONLY <1>6, <2>2 DEF Loading
<1> QED
  BY <1>7, <1>8, <1>9, <1>10, <1>11, <1>12 DEF LoaderInv
----------------------------------------------------------------------------
(* The theorems *)

LEMMA InvHolds == LSpec => []LoaderInv
  BY InvInit, InvStep, PTL DEF LSpec

LEMMA Domains ==
  ASSUME LoaderInv
  PROVE  DOMAIN libs = 1 .. Len(libs) /\ DOMAIN stack = 1 .. Len(stack)
  BY LenProperties DEF LoaderInv, Vector, Calls

\* Every variable keeps its type, and every index held by a frame of the call
\* stack or by a handle stays within the vector.
THEOREM LoaderTypeCorrect == LSpec => []LTypeOK
<1>1. LoaderInv => LTypeOK
  <2> SUFFICES ASSUME LoaderInv
               PROVE  LTypeOK
    OBVIOUS
  <2>1. PICK n : n = Len(stack)
    OBVIOUS
  <2>2. disk \in [Libs -> [needed : Seq(Libs), soname : BOOLEAN]]
    BY LoaderAssumption DEF LoaderInv, Scalars
  <2>3. \A i \in DOMAIN libs : libs[i] \in LibSet
    BY Domains, ElementOfSeq DEF LoaderInv, Vector
  <2>4. capacity \in Nat /\ Len(libs) <= capacity /\ gen \in Nat
    BY DEF LoaderInv, Vector
  <2>5. \A d \in DOMAIN stack : /\ stack[d].fn \in Fns
                                /\ stack[d].i \in DOMAIN libs
                                /\ stack[d].g \in 0 .. gen
                                /\ stack[d].k \in Nat \ {0}
    <3>1. /\ Len(libs) \in Nat
          /\ \A d \in 1 .. n : /\ stack[d].fn \in Fns /\ stack[d].i \in Nat \ {0}
                               /\ stack[d].g \in Nat /\ stack[d].k \in Nat \ {0}
      BY <2>1, Typed
    <3>2. \A d \in 1 .. n : stack[d].i <= Len(libs) /\ stack[d].g <= gen
      BY <2>1 DEF LoaderInv, Pointers
    <3>3. DOMAIN stack = 1 .. n /\ DOMAIN libs = 1 .. Len(libs)
      BY <2>1, Domains
    <3> QED
      BY ONLY <2>4, <3>1, <3>2, <3>3
  <2>6. /\ \A h \in handles : h.i \in DOMAIN libs /\ h.g \in 0 .. gen
        /\ spliced \in BOOLEAN /\ linkMap \in Seq(Libs)
        /\ status \in {"running", "exited", "error", "undefined"} /\ opens \in 0 .. MaxOpens
    BY Domains DEF LoaderInv, Scalars
  <2> QED
    BY ONLY <2>2, <2>3, <2>4, <2>5, <2>6 DEF LTypeOK, LibSet, Fns
<1> QED
  BY <1>1, InvHolds, PTL

\* However the DT_NEEDED entries refer to each other, and whatever is opened
\* later, load_absolute never holds one path twice.
THEOREM EachLoadedOnce == LSpec => []LoadedOnce
<1>1. LoaderInv => LoadedOnce
  BY Domains DEF LoaderInv, Distinct, LoadedOnce
<1> QED
  BY <1>1, InvHolds, PTL

\* The pointer that load_absolute or dlopen2 works with is never one into a
\* vector that was freed, whatever was loaded below it.
THEOREM LoadingPointersCurrent == LSpec => []LoadPointersCurrent
<1>1. LoaderInv => LoadPointersCurrent
  BY DEF LoaderInv, Current, LoadPointersCurrent, InFrame, Top
<1> QED
  BY <1>1, InvHolds, PTL

\* No library is entered behind the end of the vector, no pointer dangles and
\* nobody has read through one that does while the program holds no more
\* libraries than the first size of the vector (load_elf.c:152-163).
THEOREM SafeUntilGrown == LSpec => []SafeWithinVector
<1>1. LoaderInv => SafeWithinVector
  <2>5. LoaderInv => Len(libs) <= capacity
    BY DEF LoaderInv, Vector
  <2> SUFFICES ASSUME LoaderInv, Len(libs) <= VecLength
               PROVE  /\ \A d \in DOMAIN stack : stack[d].g = gen
                      /\ \A h \in handles : h.g = gen
                      /\ status # "undefined"
    BY <2>5 DEF SafeWithinVector
  <2>1. gen = 0
    <3>1. Len(libs) \in Nat /\ VecLength \in Nat /\ gen \in Nat /\ (gen > 0 => VecLength < Len(libs))
      BY LenProperties, LoaderAssumption DEF LoaderInv, Vector
    <3> QED
      BY <3>1
  <2>2. PICK n : n = Len(stack)
    OBVIOUS
  <2>3. \A d \in 1 .. n : stack[d].g \in Nat /\ stack[d].g <= gen
    BY <2>2, Typed DEF LoaderInv, Pointers
  <2>4. (\A h \in handles : h.g \in 0 .. gen) /\ (status = "undefined" => gen > 0)
    BY DEF LoaderInv, Scalars
  <2> QED
    BY <2>1, <2>2, <2>3, <2>4, Domains
<1> QED
  BY <1>1, InvHolds, PTL

\* Whenever a constructor, main or a destructor runs, every library in the
\* vector is linked and everything it needs is there.
THEOREM CodeRunsLinked == LSpec => []LinkedBeforeRun
<1>1. LoaderInv => LinkedBeforeRun
  <2> SUFFICES ASSUME LoaderInv, InUser, NEW i \in DOMAIN libs
               PROVE  libs[i].linked /\ Needs(libs[i].path) \subseteq Loaded
    BY DEF LinkedBeforeRun
  <2>1. PICK n : n = Len(stack)
    OBVIOUS
  <2>2. i \in 1 .. Len(libs) /\ stack[n].fn \in {"ctor", "main", "dtor"}
    BY <2>1, Domains DEF InUser, InFrame, Top, User
  <2>3. libs[i].linked
    BY <2>1, <2>2 DEF LoaderInv, Linked
  <2>4. \A j \in 1 .. Needing(i) : NeedOf(i, j) \in Loaded
    BY <2>1, <2>2, AllLoaded, LoadedIs DEF AllNeeds
  <2>5. /\ libs[i].path \in Libs
        /\ disk \in [Libs -> [needed : Seq(Libs), soname : BOOLEAN]]
    <3>1. libs[i] \in LibSet
      BY <2>2, ElementOfSeq DEF LoaderInv, Vector
    <3> QED
      BY <3>1, FieldsOfLib, LoaderAssumption DEF LoaderInv, Scalars
  <2>6. DOMAIN Needed(libs[i].path) = 1 .. Needing(i)
    BY <2>5, LenProperties DEF Needed, Needing
  <2> QED
    BY <2>3, <2>4, <2>6 DEF Needs, Needed, NeedOf
<1> QED
  BY <1>1, InvHolds, PTL

\* Frame d is a call of fn for library i that got to k.
CallAt(fn, d, i, k) ==
  d \in 1 .. Len(stack) /\ stack[d].fn = fn /\ stack[d].i = i /\ stack[d].k = k

\* No two calls of init_lib for library i are under way.
OneCall(i) == \A d, e, k, l : CallAt("init", d, i, k) /\ CallAt("init", e, i, l) => d = e

\* If the constructor of library i is still to run after init_lib has begun,
\* then a call of init_lib will run it.
Counted(i) ==
  /\ libs[i].inits \in {0, 1} /\ (~libs[i].started => libs[i].inits = 0)
  /\ libs[i].started /\ libs[i].inits = 0 => \E d, k : CallAt("init", d, i, k)
  /\ \A d, k : CallAt("init", d, i, k) =>
       libs[i].started /\ (libs[i].inits = 0 <=> k <= Needing(i) + 1)

Initialised == \A i \in 1 .. Len(libs) : OneCall(i) /\ Counted(i)

\* init_libs has begun all it has passed.
Passed ==
  stack[1].fn = "init_libs" =>
    /\ stack[1].k <= Len(libs) + 1
    /\ \A i \in 1 .. Len(libs) : i < stack[1].k => libs[i].started

\* fini_libs has run the destructors it has passed.
Ended ==
  \/ status = "exited" /\ \A i \in 1 .. Len(libs) : libs[i].finis = 1
  \/ /\ status # "exited" /\ \A d, j, k : ~CallAt("fini_libs", d, j, k)
     /\ \A i \in 1 .. Len(libs) : libs[i].finis = 0
  \/ /\ status # "exited"
     /\ \E d, j : \E k \in 1 .. Len(libs) + 1 :
          /\ CallAt("fini_libs", d, j, k)
          /\ \A i \in 1 .. Len(libs) : libs[i].finis = IF i < k THEN 1 ELSE 0

OnceInv == LoaderInv /\ Initialised /\ Passed /\ Ended
----------------------------------------------------------------------------
(* Which calls of init_lib and fini_libs a move leaves *)

\* The frames that stay are at the same point.
Fixed(m) ==
  \A d \in 1 .. m : /\ stack'[d].fn = stack[d].fn /\ stack'[d].i = stack[d].i
                    /\ stack'[d].k = stack[d].k

LEMMA Fixing ==
  ASSUME LoaderInv, NEW n, n = Len(stack)
  PROVE  /\ \A g : Turn(n, g) => Fixed(n - 1)
         /\ \A fn, i, g : TurnPush(n, fn, i, g) => Fixed(n - 1)
         /\ \A fn, i, g : Push(n, fn, i, g) => Fixed(n)
         /\ \A i, j : PushTwo(n, i, j) => Fixed(n)
         /\ Pop(n) => Fixed(n - 1)
         /\ n # 1 /\ PopReturn(n) => Fixed(n - 1)
<1>1. n \in Nat \ {0} /\ \A d \in 1 .. n : stack[d].k \in Nat
  BY Typed
<1>2. \A m : Kept(m) => Fixed(m)
  BY DEF Kept, Fixed
<1>3. n # 1 /\ SameCall(n - 1, 0) /\ Kept(n - 2) => Fixed(n - 1)
  <2> SUFFICES ASSUME n # 1, SameCall(n - 1, 0), Kept(n - 2), NEW d \in 1 .. n - 1
               PROVE  /\ stack'[d].fn = stack[d].fn /\ stack'[d].i = stack[d].i
                      /\ stack'[d].k = stack[d].k
    BY DEF Fixed
  <2>1. d = n - 1 \/ d \in 1 .. n - 2
    BY ONLY <1>1, d \in 1 .. n - 1
  <2>2. stack[d].k + 0 = stack[d].k
    BY <1>1
  <2> QED
    BY <2>1, <2>2 DEF SameCall, Kept
<1> QED
  BY ONLY <1>2, <1>3 DEF Turn, TurnPush, Push, PushTwo, Pop, PopReturn

LEMMA CallsAfter ==
  ASSUME NEW n \in Nat, NEW m \in 0 .. n, n = Len(stack), Fixed(m), NEW l \in Nat,
         Len(stack') = m + l, NEW fn, NEW d, NEW i, NEW k
  PROVE  CallAt(fn, d, i, k)' <=>
           \/ d \in 1 .. m /\ CallAt(fn, d, i, k)
           \/ /\ d \in m + 1 .. m + l
              /\ stack'[d].fn = fn /\ stack'[d].i = i /\ stack'[d].k = k
<1>1. d \in 1 .. m + l <=> d \in 1 .. m \/ d \in m + 1 .. m + l
  OBVIOUS
<1>2. d \in 1 .. m => d \in 1 .. n
  OBVIOUS
<1>3. d \in 1 .. m => (CallAt(fn, d, i, k)' <=> CallAt(fn, d, i, k))
  BY <1>1, <1>2 DEF CallAt, Fixed
<1> QED
  BY ONLY <1>1, <1>3, Len(stack') = m + l DEF CallAt

\* Only the bottom frame is one of these.
LEMMA Bottom ==
  ASSUME LoaderInv, NEW n, n = Len(stack), stack[n].fn \in {"start", "init_libs"}
  PROVE  n = 1
<1>1. n \in Nat \ {0}
  BY Typed
<1>2. n # 1 => OnTop(stack[n - 1].fn, stack[n].fn)
  BY <1>1 DEF LoaderInv, Shape
<1> QED
  BY <1>1, <1>2 DEF OnTop

LEMMA CallsSame ==
  ASSUME NEW n \in Nat \ {0}, n = Len(stack), NEW m \in {n - 1, n}, NEW l \in Nat,
         Fixed(m), Len(stack') = m + l, NEW fn, m = n \/ stack[n].fn # fn,
         \A d \in m + 1 .. m + l : stack'[d].fn # fn
  PROVE  \A d, i, k : CallAt(fn, d, i, k)' <=> CallAt(fn, d, i, k)
<1> SUFFICES ASSUME NEW d, NEW i, NEW k
             PROVE  CallAt(fn, d, i, k)' <=> CallAt(fn, d, i, k)
  OBVIOUS
<1>1. m \in 0 .. n /\ n \in Nat
  OBVIOUS
<1>2. CallAt(fn, d, i, k)' <=>
           \/ d \in 1 .. m /\ CallAt(fn, d, i, k)
           \/ /\ d \in m + 1 .. m + l
              /\ stack'[d].fn = fn /\ stack'[d].i = i /\ stack'[d].k = k
  BY <1>1, CallsAfter
<1>3. CallAt(fn, d, i, k) => d \in 1 .. m
  <2>1. CallAt(fn, d, i, k) => d \in 1 .. n /\ (d = n => stack[n].fn = fn)
    BY DEF CallAt
  <2> QED
    BY <2>1
<1> QED
  BY <1>2, <1>3

LEMMA Uncalled ==
  ASSUME LoaderInv, NEW n, n = Len(stack), Moves(n),
         NEW fn \in {"init", "fini_libs", "load"}, stack[n].fn # fn,
         fn = "init" => \A i \in 1 .. Len(libs) : ~InitCalls(n, i),
         fn = "fini_libs" => ~Exits(n),
         fn = "load" => \A f \in Libs : ~OpenAdds(n, f)
  PROVE  \A d, i, k : CallAt(fn, d, i, k)' <=> CallAt(fn, d, i, k)
<1>1. n \in Nat \ {0} /\ n = Len(stack)
  BY Typed
<1>2. \A d \in n + 1 .. n + 1 : d = n + 1
  BY <1>1
<1>3. \A d \in n - 1 + 1 .. n - 1 + 1 : d = n
  BY <1>1
<1>4. \A d \in n - 1 + 1 .. n - 1 + 2 : d = n \/ d = n + 1
  BY <1>1
<1>5. \A d \in n + 1 .. n + 2 : d = n + 1 \/ d = n + 2
  BY <1>1
<1>6. ASSUME Fixed(n), Len(stack') = n + 1, stack'[n + 1].fn # fn
      PROVE  \A d, i, k : CallAt(fn, d, i, k)' <=> CallAt(fn, d, i, k)
  BY <1>1, <1>2, <1>6, CallsSame
<1>7. ASSUME Fixed(n - 1), Len(stack') = n, stack'[n].fn # fn
      PROVE  \A d, i, k : CallAt(fn, d, i, k)' <=> CallAt(fn, d, i, k)
  <2>1. Len(stack') = n - 1 + 1
    BY <1>1, <1>7
  <2> QED
    BY <1>1, <1>3, <1>7, <2>1, CallsSame
<1>8. ASSUME Fixed(n - 1), Len(stack') = n + 1, stack'[n].fn # fn, stack'[n + 1].fn # fn
      PROVE  \A d, i, k : CallAt(fn, d, i, k)' <=> CallAt(fn, d, i, k)
  <2>1. Len(stack') = n - 1 + 2
    BY <1>1, <1>8
  <2>2. \A d \in n - 1 + 1 .. n - 1 + 2 : stack'[d].fn # fn
    BY <1>4, <1>8
  <2> QED
    BY <1>1, <1>8, <2>1, <2>2, CallsSame
<1>9. CASE Stays
  BY <1>9 DEF Stays, CallAt
<1>10. CASE LoadFinds(n) \/ InitGoesOn(n)
  <2>1. \E g : Turn(n, g)
    BY <1>10 DEF LoadFinds, InitGoesOn
  <2> QED
    BY <1>7, <2>1, Fixing DEF Turn, SameCall
<1>11. CASE LoadEnds(n) \/ Ends(n) \/ OpenEnds(n)
  <2>1. n # 1 /\ (PopReturn(n) \/ Pop(n))
    BY <1>11, NotBottom DEF LoadEnds, Ends, OpenEnds
  <2>2. Fixed(n - 1) /\ Len(stack') = n - 1 + 0 /\ n - 1 \in {n - 1, n}
    BY <1>1, <2>1, Fixing DEF Pop, PopReturn
  <2>3. \A d \in n - 1 + 1 .. n - 1 + 0 : FALSE
    BY <1>1
  <2> QED
    BY <1>1, <2>2, <2>3, CallsSame
<1>12. CASE StartEnds(n) \/ MainStarts(n)
  <2>1. n = 1 /\ Len(stack') = n /\ stack'[n].fn \in {"init_libs", "main"}
    BY <1>12, Bottom DEF StartEnds, MainStarts, Restart, New
  <2>2. Fixed(n - 1)
    BY <2>1 DEF Fixed
  <2> QED
    BY <1>7, <2>1, <2>2
<1>13. CASE Constructs(n) \/ Destructs(n)
  <2>1. \E i, g : TurnPush(n, "ctor", i, g) \/ TurnPush(n, "dtor", i, g)
    BY <1>13 DEF Constructs, Destructs
  <2> QED
    BY <1>8, <2>1, Fixing DEF TurnPush, SameCall, New
<1>14. CASE Exits(n)
  <2>1. Push(n, "fini_libs", 1, gen) /\ fn # "fini_libs"
    BY <1>14 DEF Exits
  <2> QED
    BY <1>6, <2>1, Fixing DEF Push, New
<1>15. ASSUME NEW f \in Libs, LoadAdds(n, f)
       PROVE  \A d, i, k : CallAt(fn, d, i, k)' <=> CallAt(fn, d, i, k)
  <2>1. TurnPush(n, "load", Len(libs) + 1, gen') /\ fn # "load"
    BY <1>15 DEF LoadAdds
  <2> QED
    BY <1>8, <2>1, Fixing DEF TurnPush, SameCall, New
<1>16. ASSUME NEW f \in Libs, OpenAdds(n, f)
       PROVE  \A d, i, k : CallAt(fn, d, i, k)' <=> CallAt(fn, d, i, k)
  <2>1. PushTwo(n, Len(libs) + 1, Len(libs) + 1) /\ fn # "load"
    BY <1>16 DEF OpenAdds
  <2>2. /\ Fixed(n) /\ Len(stack') = n + 2
        /\ \A d \in n + 1 .. n + 2 : stack'[d].fn # fn
    BY <1>5, <2>1, Fixing DEF PushTwo, New
  <2> QED
    BY <1>1, <2>2, CallsSame
<1>17. ASSUME NEW i \in 1 .. Len(libs), OpenFinds(n, i)
       PROVE  \A d, j, k : CallAt(fn, d, j, k)' <=> CallAt(fn, d, j, k)
  <2>1. Push(n, "open", i, gen)
    BY <1>17 DEF OpenFinds
  <2> QED
    BY <1>6, <2>1, Fixing DEF Push, New
<1>18. ASSUME NEW i \in 1 .. Len(libs), InitCalls(n, i)
       PROVE  \A d, j, k : CallAt(fn, d, j, k)' <=> CallAt(fn, d, j, k)
  <2>1. TurnPush(n, "init", i, gen) /\ fn # "init"
    BY <1>18 DEF InitCalls
  <2> QED
    BY <1>8, <2>1, Fixing DEF TurnPush, SameCall, New
<1> QED
  BY <1>9, <1>10, <1>11, <1>12, <1>13, <1>14, <1>15, <1>16, <1>17, <1>18 DEF Moves

LEMMA TopTurns ==
  ASSUME NEW n \in Nat \ {0}, n = Len(stack), Fixed(n - 1), Len(stack') = n, SameCall(n, 1),
         NEW fn, NEW d, NEW i, NEW k
  PROVE  CallAt(fn, d, i, k)' <=>
           \/ d \in 1 .. n - 1 /\ CallAt(fn, d, i, k)
           \/ d = n /\ stack[n].fn = fn /\ stack[n].i = i /\ stack[n].k + 1 = k
<1> DEFINE m == n - 1
<1>1. m \in 0 .. n /\ n \in Nat /\ Len(stack') = m + 1 /\ (d \in m + 1 .. m + 1 <=> d = n)
  OBVIOUS
<1>2. Fixed(m)
  OBVIOUS
<1> HIDE DEF m
<1>3. CallAt(fn, d, i, k)' <=>
           \/ d \in 1 .. m /\ CallAt(fn, d, i, k)
           \/ /\ d \in m + 1 .. m + 1
              /\ stack'[d].fn = fn /\ stack'[d].i = i /\ stack'[d].k = k
  BY ONLY <1>1, <1>2, n = Len(stack), CallsAfter
<1>4. CallAt(fn, d, i, k)' <=>
           \/ d \in 1 .. n - 1 /\ CallAt(fn, d, i, k)
           \/ d = n /\ stack'[d].fn = fn /\ stack'[d].i = i /\ stack'[d].k = k
  BY ONLY <1>1, <1>3 DEF m
<1> QED
  BY ONLY <1>4, SameCall(n, 1) DEF SameCall

LEMMA PushCalls ==
  ASSUME LoaderInv, NEW n, n = Len(stack), NEW f, NEW j, NEW g, TurnPush(n, f, j, g)
  PROVE  \A fn, d, i, k : CallAt(fn, d, i, k)' <=>
           \/ d \in 1 .. n - 1 /\ CallAt(fn, d, i, k)
           \/ d = n /\ stack[n].fn = fn /\ stack[n].i = i /\ stack[n].k + 1 = k
           \/ d = n + 1 /\ f = fn /\ j = i /\ 1 = k
<1> SUFFICES ASSUME NEW fn, NEW d, NEW i, NEW k
             PROVE  CallAt(fn, d, i, k)' <=>
                      \/ d \in 1 .. n - 1 /\ CallAt(fn, d, i, k)
                      \/ d = n /\ stack[n].fn = fn /\ stack[n].i = i /\ stack[n].k + 1 = k
                      \/ d = n + 1 /\ f = fn /\ j = i /\ 1 = k
  OBVIOUS
<1>0. /\ n \in Nat \ {0} /\ n = Len(stack) /\ Fixed(n - 1) /\ Len(stack') = n + 1
      /\ SameCall(n, 1) /\ New(stack'[n + 1], f, j, g)
  BY Typed, Fixing DEF TurnPush
<1> DEFINE m == n - 1
<1>1. /\ m \in 0 .. n /\ n \in Nat /\ Len(stack') = m + 2
      /\ d \in m + 1 .. m + 2 <=> d = n \/ d = n + 1
  BY ONLY <1>0 DEF m
<1>2. Fixed(m)
  BY <1>0
<1> HIDE DEF m
<1>3. CallAt(fn, d, i, k)' <=>
           \/ d \in 1 .. m /\ CallAt(fn, d, i, k)
           \/ /\ d \in m + 1 .. m + 2
              /\ stack'[d].fn = fn /\ stack'[d].i = i /\ stack'[d].k = k
  BY ONLY <1>1, <1>2, <1>0, CallsAfter
<1>4. CallAt(fn, d, i, k)' <=>
           \/ d \in 1 .. n - 1 /\ CallAt(fn, d, i, k)
           \/ /\ d = n \/ d = n + 1
              /\ stack'[d].fn = fn /\ stack'[d].i = i /\ stack'[d].k = k
  BY ONLY <1>1, <1>3 DEF m
<1>5. CASE d = n
  <2>1. d # n + 1 /\ d \notin 1 .. n - 1
    BY ONLY <1>0, <1>5
  <2> QED
    BY ONLY <1>4, <1>5, <2>1, <1>0 DEF SameCall
<1>6. CASE d = n + 1
  <2>1. d # n /\ d \notin 1 .. n - 1
    BY ONLY <1>0, <1>6
  <2> QED
    BY ONLY <1>4, <1>6, <2>1, <1>0 DEF New
<1>7. CASE d # n /\ d # n + 1
  BY ONLY <1>4, <1>7
<1> QED
  BY <1>5, <1>6, <1>7

\* The calls of the innermost frame's function.
LEMMA TopCall ==
  ASSUME NEW n \in Nat \ {0}, n = Len(stack), NEW fn, NEW d, NEW i, NEW k
  PROVE  CallAt(fn, d, i, k) <=>
           \/ d \in 1 .. n - 1 /\ CallAt(fn, d, i, k)
           \/ d = n /\ stack[n].fn = fn /\ stack[n].i = i /\ stack[n].k = k
<1>1. d \in 1 .. n <=> d \in 1 .. n - 1 \/ d = n
  OBVIOUS
<1> QED
  BY ONLY <1>1, n = Len(stack) DEF CallAt
----------------------------------------------------------------------------
(* Constructors *)

\* A move that has nothing to do with the initialisation of library i.
LEMMA InitOther ==
  ASSUME LoaderInv, NEW n, Moves(n), UNCHANGED disk, NEW i \in 1 .. Len(libs),
         OneCall(i), Counted(i),
         \A d, k : CallAt("init", d, i, k)' <=> CallAt("init", d, i, k),
         libs'[i].started <=> libs[i].started, libs'[i].inits = libs[i].inits
  PROVE  OneCall(i)' /\ Counted(i)'
<1>1. OneCall(i)'
  BY DEF OneCall
<1>2. Needing(i)' = Needing(i)
  BY NeedsKept
<1>3. Counted(i)'
  <2>1. /\ libs[i].inits \in {0, 1} /\ (~libs[i].started => libs[i].inits = 0)
        /\ libs[i].started /\ libs[i].inits = 0 => \E d, k : CallAt("init", d, i, k)
        /\ \A d, k : CallAt("init", d, i, k) =>
             libs[i].started /\ (libs[i].inits = 0 <=> k <= Needing(i) + 1)
    BY DEF Counted
  <2>2. /\ libs'[i].inits \in {0, 1} /\ (~libs'[i].started => libs'[i].inits = 0)
        /\ libs'[i].started /\ libs'[i].inits = 0 => \E d, k : CallAt("init", d, i, k)'
    BY <2>1
  <2>3. \A d, k : CallAt("init", d, i, k)' =>
          libs'[i].started /\ (libs'[i].inits = 0 <=> k <= Needing(i)' + 1)
    BY <1>2, <2>1
  <2> QED
    BY ONLY <2>2, <2>3 DEF Counted
<1> QED
  BY <1>1, <1>3

\* A library that comes into the vector has not been initialised.
LEMMA InitNew ==
  ASSUME LoaderInv, NEW i, i = Len(libs) + 1, NEW f, Extended(f),
         \A d, k : CallAt("init", d, i, k)' <=> CallAt("init", d, i, k)
  PROVE  OneCall(i)' /\ Counted(i)'
<1>1. \A d, k : ~CallAt("init", d, i, k)
  <2> SUFFICES ASSUME NEW d, NEW k, CallAt("init", d, i, k)
               PROVE  FALSE
    OBVIOUS
  <2>1. d \in 1 .. Len(stack) /\ stack[d].i = i
    BY DEF CallAt
  <2>2. stack[d].i <= Len(libs) /\ Len(libs) \in Nat
    BY <2>1, LenProperties DEF LoaderInv, Pointers, Vector
  <2> QED
    BY <2>1, <2>2
<1>2. ~libs'[i].started /\ libs'[i].inits = 0
  BY DEF Extended
<1> QED
  BY ONLY <1>1, <1>2, \A d, k : CallAt("init", d, i, k)' <=> CallAt("init", d, i, k)
     DEF OneCall, Counted

\* init_lib for library p takes a turn: a dependency, or the constructor.
LEMMA InitTurns ==
  ASSUME LoaderInv, NEW n, n = Len(stack), Moves(n), UNCHANGED disk,
         stack[n].fn = "init", NEW p, p = stack[n].i, NEW q, q = stack[n].k,
         Counted(p),
         \A d, k : CallAt("init", d, p, k)' <=> d = n /\ k = q + 1,
         libs'[p].started <=> libs[p].started,
         \/ libs'[p].inits = libs[p].inits /\ q <= Needing(p)
         \/ libs'[p].inits = libs[p].inits + 1 /\ q = Needing(p) + 1
  PROVE  OneCall(p)' /\ Counted(p)'
<1>1. /\ n \in 1 .. Len(stack) /\ q \in Nat \ {0} /\ p \in 1 .. Len(libs)
      /\ Needing(p)' = Needing(p) /\ Needing(p) \in Nat
  <2>1. n \in Nat \ {0} /\ q \in Nat \ {0} /\ p \in 1 .. Len(libs)
    BY TopIs
  <2> QED
    BY <2>1, NeedsKept, NeedTypes
<1>2. CallAt("init", n, p, q)
  BY <1>1 DEF CallAt
<1>3. libs[p].started /\ (libs[p].inits = 0 <=> q <= Needing(p) + 1)
  BY <1>2 DEF Counted
<1>4. libs[p].inits = 0
  BY ONLY <1>1, <1>3, \/ libs'[p].inits = libs[p].inits /\ q <= Needing(p)
                      \/ libs'[p].inits = libs[p].inits + 1 /\ q = Needing(p) + 1
<1>5. libs'[p].inits \in {0, 1} /\ (libs'[p].inits = 0 <=> q + 1 <= Needing(p) + 1)
  BY ONLY <1>1, <1>4, \/ libs'[p].inits = libs[p].inits /\ q <= Needing(p)
                      \/ libs'[p].inits = libs[p].inits + 1 /\ q = Needing(p) + 1
<1>6. OneCall(p)'
  BY DEF OneCall
<1>7. Counted(p)'
  BY ONLY <1>1, <1>3, <1>5, libs'[p].started <=> libs[p].started,
          \A d, k : CallAt("init", d, p, k)' <=> d = n /\ k = q + 1 DEF Counted
<1> QED
  BY <1>6, <1>7

\* init_lib begins for library i.
LEMMA InitBegins ==
  ASSUME LoaderInv, NEW n, n = Len(stack), Moves(n), UNCHANGED disk, NEW i \in 1 .. Len(libs),
         Counted(i), ~libs[i].started,
         \A d, k : CallAt("init", d, i, k)' <=> d = n + 1 /\ k = 1,
         libs'[i].started, libs'[i].inits = libs[i].inits
  PROVE  OneCall(i)' /\ Counted(i)'
<1>1. Needing(i)' = Needing(i) /\ Needing(i) \in Nat
  BY NeedsKept, NeedTypes
<1>2. libs'[i].inits = 0 /\ 1 <= Needing(i)' + 1
  BY <1>1 DEF Counted
<1>3. OneCall(i)'
  BY DEF OneCall
<1>4. Counted(i)'
  BY ONLY <1>2, libs'[i].started,
          \A d, k : CallAt("init", d, i, k)' <=> d = n + 1 /\ k = 1 DEF Counted
<1> QED
  BY <1>3, <1>4

\* init_lib for library p returns.
LEMMA InitEnds ==
  ASSUME LoaderInv, NEW n, n = Len(stack), stack[n].fn = "init", NEW p, p = stack[n].i,
         Counted(p), stack[n].k > Needing(p) + 1, UNCHANGED libs,
         \A d, k : ~CallAt("init", d, p, k)'
  PROVE  OneCall(p)' /\ Counted(p)'
<1>1. n \in 1 .. Len(stack) /\ stack[n].k \in Nat /\ Needing(p) \in Nat
  <2>1. n \in Nat \ {0} /\ stack[n].k \in Nat /\ p \in 1 .. Len(libs)
    BY TopIs
  <2> QED
    BY <2>1, NeedTypes
<1>2. CallAt("init", n, p, stack[n].k)
  BY <1>1 DEF CallAt
<1>3. libs[p].inits # 0
  BY <1>1, <1>2 DEF Counted
<1> QED
  BY <1>3 DEF OneCall, Counted

\* What the innermost call of init_lib leaves to a library it is not for.
LEMMA Initialising ==
  ASSUME LoaderInv, NEW n, n = Len(stack), stack[n].fn = "init",
         NEW i \in 1 .. Len(libs), OneCall(i)
  PROVE  /\ i = stack[n].i => \A d, k : ~(d \in 1 .. n - 1 /\ CallAt("init", d, i, k))
         /\ i # stack[n].i => \A d, k : CallAt("init", d, i, k) <=> d \in 1 .. n - 1 /\ CallAt("init", d, i, k)
<1>1. n \in Nat \ {0} /\ n = Len(stack)
  BY Typed
<1>2. CASE i = stack[n].i
  <2>1. CallAt("init", n, i, stack[n].k)
    BY <1>1, <1>2 DEF CallAt
  <2>2. \A d \in 1 .. n - 1 : d # n
    BY <1>1
  <2> QED
    BY <1>2, <2>1, <2>2 DEF OneCall
<1>3. CASE i # stack[n].i
  BY <1>1, <1>3, TopCall
<1> QED
  BY <1>2, <1>3

LEMMA InitialisedKept ==
  ASSUME LoaderInv, Initialised, NEW n, n = Len(stack), Moves(n), UNCHANGED disk
  PROVE  Initialised'
<1>0. PICK p, q : p = stack[n].i /\ q = stack[n].k
  OBVIOUS
<1>1. /\ n \in Nat \ {0} /\ n = Len(stack) /\ Len(libs) \in Nat
      /\ p \in 1 .. Len(libs) /\ q \in Nat /\ p = stack[n].i /\ q = stack[n].k
  BY <1>0, Typed, TopIs
<1>2. \A i \in 1 .. Len(libs) : OneCall(i) /\ Counted(i)
  BY DEF Initialised
<1>3. ASSUME NEW i \in 1 .. Len(libs), stack[n].fn # "init",
             \A j \in 1 .. Len(libs) : ~InitCalls(n, j),
             libs'[i].started <=> libs[i].started, libs'[i].inits = libs[i].inits
      PROVE  OneCall(i)' /\ Counted(i)'
  <2>1. \A d, k : CallAt("init", d, i, k)' <=> CallAt("init", d, i, k)
    BY <1>3, Uncalled
  <2> QED
    BY <1>2, <1>3, <2>1, InitOther
<1>4. CASE /\ stack[n].fn # "init" /\ \A j \in 1 .. Len(libs) : ~InitCalls(n, j)
           /\ SamePaths /\ SameStarted /\ SameInits
  BY <1>3, <1>4 DEF SamePaths, SameStarted, SameInits, Initialised
<1>5. ASSUME NEW f \in Libs, Extended(f), stack[n].fn # "init",
             \A j \in 1 .. Len(libs) : ~InitCalls(n, j)
      PROVE  Initialised'
  <2>1. \A i \in 1 .. Len(libs) : OneCall(i)' /\ Counted(i)'
    BY <1>3, <1>5 DEF Extended
  <2>2. ASSUME NEW i, i = Len(libs) + 1
        PROVE  OneCall(i)' /\ Counted(i)'
    <3>1. \A d, k : CallAt("init", d, i, k)' <=> CallAt("init", d, i, k)
      BY <1>5, Uncalled
    <3> QED
      BY <1>5, <2>2, <3>1, InitNew
  <2>3. Len(libs') = Len(libs) + 1
    BY <1>5 DEF Extended
  <2>4. \A i \in 1 .. Len(libs) + 1 : i = Len(libs) + 1 \/ i \in 1 .. Len(libs)
    BY <1>1
  <2> QED
    BY <2>1, <2>2, <2>3, <2>4 DEF Initialised
<1>6. ASSUME stack[n].fn = "init",
             \A d, i, k : CallAt("init", d, i, k)' <=>
               \/ d \in 1 .. n - 1 /\ CallAt("init", d, i, k)
               \/ d = n /\ p = i /\ q + 1 = k,
             SamePaths, SameStarted,
             \A i \in 1 .. Len(libs) : i # p => libs'[i].inits = libs[i].inits,
             \/ libs'[p].inits = libs[p].inits /\ q <= Needing(p)
             \/ libs'[p].inits = libs[p].inits + 1 /\ q = Needing(p) + 1
      PROVE  Initialised'
  <2>1. OneCall(p)' /\ Counted(p)'
    <3>1. \A d, k : CallAt("init", d, p, k)' <=> d = n /\ k = q + 1
      BY <1>1, <1>2, <1>6, Initialising
    <3>2. libs'[p].started <=> libs[p].started
      BY <1>1, <1>6 DEF SameStarted
    <3>3. Counted(p)
      BY <1>1, <1>2
    <3> QED
      BY <1>0, <1>6, <3>1, <3>2, <3>3, InitTurns
  <2>2. ASSUME NEW i \in 1 .. Len(libs), i # p
        PROVE  OneCall(i)' /\ Counted(i)'
    <3>1. \A d, k : CallAt("init", d, i, k)' <=> CallAt("init", d, i, k)
      BY <1>1, <1>2, <1>6, <2>2, Initialising
    <3>2. /\ libs'[i].started <=> libs[i].started
          /\ libs'[i].inits = libs[i].inits
      BY <1>6, <2>2 DEF SameStarted
    <3> QED
      BY <1>2, <3>1, <3>2, InitOther
  <2> QED
    BY <1>6, <2>1, <2>2 DEF Initialised, SamePaths
<1>7. CASE stack[n].fn = "init" /\ InitGoesOn(n)
  <2>1. Turn(n, stack[n].g) /\ UNCHANGED libs /\ q <= Needing(p)
    BY <1>1, <1>7 DEF InitGoesOn, Visits, Quiet
  <2>2. Fixed(n - 1) /\ Len(stack') = n /\ SameCall(n, 1)
    BY <2>1, Fixing DEF Turn
  <2>3. \A d, i, k : CallAt("init", d, i, k)' <=>
               \/ d \in 1 .. n - 1 /\ CallAt("init", d, i, k)
               \/ d = n /\ p = i /\ q + 1 = k
    BY <1>1, <1>7, <2>2, TopTurns
  <2>4. SamePaths /\ SameStarted
    BY <1>7, <2>1 DEF InitGoesOn, Quiet, SamePaths, SameStarted
  <2> QED
    BY <1>6, <1>7, <2>1, <2>3, <2>4
<1>8. CASE Constructs(n)
  <2>1. /\ TurnPush(n, "ctor", p, stack[n].g) /\ q = Needing(p) + 1
        /\ SamePaths /\ SameStarted /\ stack[n].fn = "init"
        /\ \A i \in 1 .. Len(libs) :
             libs'[i].inits = IF i = p THEN libs[i].inits + 1 ELSE libs[i].inits
    BY <1>1, <1>8 DEF Constructs, MarksOnly
  <2>2. PICK c, g : c = "ctor" /\ g = stack[n].g
    OBVIOUS
  <2>3. TurnPush(n, c, p, g)
    BY ONLY <2>1, <2>2
  <2>4. \A d, i, k : CallAt("init", d, i, k)' <=>
               \/ d \in 1 .. n - 1 /\ CallAt("init", d, i, k)
               \/ d = n /\ p = i /\ q + 1 = k
    <3>1. \A d, i, k : CallAt("init", d, i, k)' <=>
               \/ d \in 1 .. n - 1 /\ CallAt("init", d, i, k)
               \/ d = n /\ stack[n].fn = "init" /\ stack[n].i = i /\ stack[n].k + 1 = k
               \/ d = n + 1 /\ c = "init" /\ p = i /\ 1 = k
      BY <1>1, <2>3, PushCalls
    <3> QED
      BY ONLY <1>0, <2>1, <2>2, <3>1
  <2>5. libs'[p].inits = libs[p].inits + 1
    BY <1>1, <2>1
  <2> QED
    BY <1>6, <2>1, <2>4, <2>5
<1>9. CASE stack[n].fn = "init" /\ Ends(n)
  <2>1. Pop(n) /\ UNCHANGED libs /\ q > Needing(p) + 1 /\ n # 1
    BY <1>1, <1>9, NotBottom DEF Ends, Quiet
  <2>2. Fixed(n - 1) /\ Len(stack') = n - 1
    BY <2>1, Fixing DEF Pop
  <2>3. \A d, i, k : CallAt("init", d, i, k)' <=> d \in 1 .. n - 1 /\ CallAt("init", d, i, k)
    <3> SUFFICES ASSUME NEW d, NEW i, NEW k
                 PROVE  CallAt("init", d, i, k)' <=> d \in 1 .. n - 1 /\ CallAt("init", d, i, k)
      OBVIOUS
    <3>1. d \in 1 .. n - 1 => d \in 1 .. n
      BY <1>1
    <3> QED
      BY ONLY <1>1, <2>2, <3>1 DEF CallAt, Fixed
  <2>4. OneCall(p)' /\ Counted(p)'
    <3>1. \A d, k : ~CallAt("init", d, p, k)'
      BY <1>1, <1>2, <1>9, <2>3, Initialising
    <3> QED
      BY <1>0, <1>1, <1>2, <1>9, <2>1, <3>1, InitEnds
  <2>5. ASSUME NEW i \in 1 .. Len(libs), i # p
        PROVE  OneCall(i)' /\ Counted(i)'
    <3>1. \A d, k : CallAt("init", d, i, k)' <=> CallAt("init", d, i, k)
      BY <1>1, <1>2, <1>9, <2>3, <2>5, Initialising
    <3> QED
      BY <1>2, <2>1, <3>1, InitOther
  <2> QED
    BY <2>1, <2>4, <2>5 DEF Initialised
<1>10. ASSUME NEW j \in 1 .. Len(libs), InitCalls(n, j)
       PROVE  Initialised'
  <2>1. /\ TurnPush(n, "init", j, gen) /\ SamePaths /\ ~libs[j].started
        /\ stack[n].fn \in {"init_libs", "init"}
        /\ stack[n].fn = "init" => q <= Needing(p)
        /\ \A i \in 1 .. Len(libs) :
             /\ libs'[i].started <=> i = j \/ libs[i].started
             /\ libs'[i].inits = libs[i].inits
    BY <1>1, <1>10 DEF InitCalls, MarksOnly, Visits, SameInits
  <2>2. TurnPush(n, "init", j, gen)
    BY <2>1
  <2>3. \A d, i, k : CallAt("init", d, i, k)' <=>
               \/ d \in 1 .. n - 1 /\ CallAt("init", d, i, k)
               \/ d = n /\ stack[n].fn = "init" /\ stack[n].i = i /\ stack[n].k + 1 = k
               \/ d = n + 1 /\ "init" = "init" /\ j = i /\ 1 = k
    BY <1>1, <2>2, PushCalls
  <2>4. \A d, k : ~CallAt("init", d, j, k)
    BY <1>2, <2>1 DEF Counted
  <2>5. stack[n].fn = "init" => j # p
    <3>1. stack[n].fn = "init" => CallAt("init", n, p, q)
      BY <1>1 DEF CallAt
    <3> QED
      BY <2>4, <3>1
  <2>6. OneCall(j)' /\ Counted(j)'
    <3>1. \A d, k : CallAt("init", d, j, k)' <=> d = n + 1 /\ k = 1
      BY ONLY <1>0, <2>3, <2>4, <2>5
    <3> QED
      BY <1>2, <2>1, <3>1, InitBegins
  <2>7. ASSUME stack[n].fn = "init"
        PROVE  OneCall(p)' /\ Counted(p)'
    <3>1. \A d, k : ~(d \in 1 .. n - 1 /\ CallAt("init", d, p, k))
      BY <1>1, <1>2, <2>7, Initialising
    <3>2. \A d, k : CallAt("init", d, p, k)' <=> d = n /\ k = q + 1
      BY ONLY <1>0, <2>3, <2>5, <2>7, <3>1
    <3>3. /\ libs'[p].started <=> libs[p].started
          /\ libs'[p].inits = libs[p].inits /\ q <= Needing(p)
      BY <1>1, <2>1, <2>5, <2>7
    <3> QED
      BY <1>0, <1>1, <1>2, <2>7, <3>2, <3>3, InitTurns
  <2>8. ASSUME NEW i \in 1 .. Len(libs), i # j, stack[n].fn = "init" => i # p
        PROVE  OneCall(i)' /\ Counted(i)'
    <3>1. \A d, k : CallAt("init", d, i, k)' <=> CallAt("init", d, i, k)
      <4>1. \A d, k : CallAt("init", d, i, k)' <=> d \in 1 .. n - 1 /\ CallAt("init", d, i, k)
        BY ONLY <1>0, <2>3, <2>8
      <4>2. \A d, k : CallAt("init", d, i, k) <=> d \in 1 .. n - 1 /\ CallAt("init", d, i, k)
        BY <1>0, <1>1, <2>8, TopCall
      <4> QED
        BY <4>1, <4>2
    <3>2. /\ libs'[i].started <=> libs[i].started
          /\ libs'[i].inits = libs[i].inits
      BY <2>1, <2>8
    <3> QED
      BY <1>2, <3>1, <3>2, InitOther
  <2> QED
    BY <2>1, <2>6, <2>7, <2>8 DEF Initialised, SamePaths
<1>11. ASSUME \A j \in 1 .. Len(libs) : ~InitCalls(n, j)
       PROVE  Initialised'
  <2>1. Quiet => SamePaths /\ SameStarted /\ SameInits
    BY DEF Quiet, SamePaths, SameStarted, SameInits
  <2>2. AllLinked => SameStarted /\ SameInits
    BY DEF AllLinked, SameStarted, SameInits
  <2>3. CASE Stays
    <3>1. \A d, i, k : CallAt("init", d, i, k)' <=> CallAt("init", d, i, k)
      BY <2>3 DEF Stays, CallAt
    <3>2. UNCHANGED libs
      BY <2>3 DEF Stays, Quiet
    <3>3. \A i \in 1 .. Len(libs) : OneCall(i)' /\ Counted(i)'
      BY <1>2, <3>1, <3>2, InitOther
    <3> QED
      BY <3>2, <3>3 DEF Initialised
  <2>4. CASE stack[n].fn = "init" /\ ~Stays
    <3>1. InitGoesOn(n) \/ Constructs(n) \/ Ends(n)
      BY ONLY Moves(n), <1>11, <2>4 DEF Moves, LoadFinds, LoadEnds, StartEnds, MainStarts,
        Destructs, Exits, OpenEnds, LoadAdds, OpenAdds, OpenFinds, User
    <3> QED
      BY <1>7, <1>8, <1>9, <2>4, <3>1
  <2>5. CASE stack[n].fn # "init" /\ ~Stays /\ (\A f \in Libs : ~Extended(f))
    <3>1. SamePaths /\ SameStarted /\ SameInits
      BY ONLY Moves(n), <1>11, <2>1, <2>2, <2>5 DEF Moves, LoadFinds, LoadEnds, StartEnds,
        InitGoesOn, MainStarts, Constructs, Destructs, Ends, Exits, OpenEnds, LoadAdds, OpenAdds,
        OpenFinds, MarksOnly
    <3> QED
      BY <1>4, <1>11, <2>5, <3>1
  <2>6. ASSUME NEW f \in Libs, Extended(f), stack[n].fn # "init"
        PROVE  Initialised'
    BY <1>5, <1>11, <2>6
  <2> QED
    BY <2>3, <2>4, <2>5, <2>6
<1> QED
  BY <1>10, <1>11

LEMMA PassedKept ==
  ASSUME LoaderInv, Passed, NEW n, n = Len(stack), Moves(n)
  PROVE  Passed'
<1>1. /\ n \in Nat \ {0} /\ n = Len(stack) /\ Len(libs) \in Nat
      /\ stack[n].k \in Nat /\ stack[1].k \in Nat
  BY Typed
<1>2. ASSUME stack'[1].fn = stack[1].fn, stack'[1].k = stack[1].k,
             SamePaths, \A i \in 1 .. Len(libs) : libs[i].started => libs'[i].started
      PROVE  Passed'
  BY ONLY <1>1, <1>2, Passed DEF Passed, SamePaths
<1>3. ASSUME stack'[1].fn = stack[1].fn, stack'[1].k = stack[1].k, NEW f, Extended(f)
      PROVE  Passed'
  <2>1. \A i \in 1 .. Len(libs) + 1 : i = Len(libs) + 1 \/ i \in 1 .. Len(libs)
    BY <1>1
  <2> QED
    BY ONLY <1>1, <1>3, <2>1, Passed DEF Passed, Extended
<1>4. ASSUME NEW m \in {n - 1, n}, Fixed(m), m # 0
      PROVE  stack'[1].fn = stack[1].fn /\ stack'[1].k = stack[1].k
  BY <1>1, <1>4 DEF Fixed
<1>5. ASSUME n # 1, Fixed(n - 1)
      PROVE  stack'[1].fn = stack[1].fn /\ stack'[1].k = stack[1].k
  BY <1>1, <1>4, <1>5
<1>6. Quiet => SamePaths /\ \A i \in 1 .. Len(libs) : libs[i].started => libs'[i].started
  BY DEF Quiet, SamePaths
<1>7. CASE Stays
  BY <1>2, <1>6, <1>7 DEF Stays
<1>8. CASE LoadFinds(n) \/ InitGoesOn(n)
  <2>1. Fixed(n - 1) /\ Quiet /\ SameCall(n, 1)
    BY <1>8, Fixing DEF LoadFinds, InitGoesOn, Turn
  <2>2. CASE n # 1
    BY <1>2, <1>5, <1>6, <2>1, <2>2
  <2>3. CASE n = 1 /\ stack[n].fn # "init_libs"
    BY <2>1, <2>3 DEF SameCall, Passed
  <2>4. CASE n = 1 /\ stack[n].fn = "init_libs"
    <3>1. PICK i \in 1 .. Len(libs) : i = stack[1].k /\ libs[i].started
      BY <1>8, <2>4 DEF LoadFinds, InitGoesOn, Visits
    <3>2. UNCHANGED libs /\ stack'[1].k = stack[1].k + 1
      BY <2>1, <2>4 DEF Quiet, SameCall
    <3>3. \A j \in 1 .. Len(libs) : j < stack[1].k + 1 => j < stack[1].k \/ j = i
      BY <1>1, <3>1
    <3> QED
      BY ONLY <1>1, <2>4, <3>1, <3>2, <3>3, Passed DEF Passed
  <2> QED
    BY <2>2, <2>3, <2>4
<1>9. CASE LoadEnds(n) \/ Ends(n) \/ OpenEnds(n)
  <2>1. n # 1 /\ (PopReturn(n) \/ Pop(n))
    BY <1>9, NotBottom DEF LoadEnds, Ends, OpenEnds
  <2>2. Fixed(n - 1)
    BY <2>1, Fixing
  <2>3. SamePaths /\ \A i \in 1 .. Len(libs) : libs[i].started => libs'[i].started
    BY <1>6, <1>9 DEF LoadEnds, Ends, OpenEnds, AllLinked
  <2> QED
    BY <1>2, <1>5, <2>1, <2>2, <2>3
<1>10. CASE StartEnds(n) \/ MainStarts(n)
  <2>1. stack'[1].k = 1 /\ (stack'[1].fn = "init_libs" => Len(libs') = Len(libs))
    BY <1>10 DEF StartEnds, MainStarts, Restart, New, SamePaths
  <2> QED
    BY <1>1, <2>1 DEF Passed
<1>11. CASE Constructs(n) \/ Destructs(n)
  <2>1. /\ \E fn, i, g : TurnPush(n, fn, i, g)
        /\ SamePaths /\ SameStarted /\ stack[n].fn # "init_libs"
    BY <1>11 DEF Constructs, Destructs, MarksOnly
  <2>2. Fixed(n - 1) /\ SameCall(n, 1)
    BY <2>1, Fixing DEF TurnPush
  <2>3. CASE n # 1
    BY <1>2, <1>5, <2>1, <2>2, <2>3 DEF SameStarted
  <2>4. CASE n = 1
    BY <2>1, <2>2, <2>4 DEF SameCall, Passed
  <2> QED
    BY <2>3, <2>4
<1>12. CASE Exits(n)
  <2>1. Fixed(n) /\ Quiet
    BY <1>12, Fixing DEF Exits
  <2> QED
    BY <1>1, <1>2, <1>4, <1>6, <2>1
<1>13. ASSUME NEW f \in Libs, LoadAdds(n, f)
       PROVE  Passed'
  <2>1. /\ TurnPush(n, "load", Len(libs) + 1, gen') /\ Extended(f) /\ stack[n].fn # "init_libs"
    BY <1>13 DEF LoadAdds
  <2>2. Fixed(n - 1) /\ SameCall(n, 1)
    BY <2>1, Fixing DEF TurnPush
  <2>3. CASE n # 1
    BY <1>3, <1>5, <2>1, <2>2, <2>3
  <2>4. CASE n = 1
    BY <2>1, <2>2, <2>4 DEF SameCall, Passed
  <2> QED
    BY <2>3, <2>4
<1>14. ASSUME NEW f \in Libs, OpenAdds(n, f)
       PROVE  Passed'
  <2>1. Fixed(n) /\ Extended(f)
    BY <1>14, Fixing DEF OpenAdds
  <2> QED
    BY <1>1, <1>3, <1>4, <2>1
<1>15. ASSUME NEW i \in 1 .. Len(libs), OpenFinds(n, i)
       PROVE  Passed'
  <2>1. Fixed(n) /\ Quiet
    BY <1>15, Fixing DEF OpenFinds
  <2> QED
    BY <1>1, <1>2, <1>4, <1>6, <2>1
<1>16. ASSUME NEW i \in 1 .. Len(libs), InitCalls(n, i)
       PROVE  Passed'
  <2>1. /\ TurnPush(n, "init", i, gen) /\ SamePaths
        /\ \A j \in 1 .. Len(libs) : libs'[j].started <=> j = i \/ libs[j].started
        /\ stack[n].fn = "init_libs" => i = stack[n].k
    BY <1>16 DEF InitCalls, MarksOnly, Visits
  <2>2. Fixed(n - 1) /\ SameCall(n, 1)
    BY <2>1, Fixing DEF TurnPush
  <2>3. CASE n # 1
    BY <1>2, <1>5, <2>1, <2>2, <2>3
  <2>4. CASE n = 1
    <3>1. stack'[1].fn = stack[1].fn /\ stack'[1].k = stack[1].k + 1
      BY <2>2, <2>4 DEF SameCall
    <3>2. \A j \in 1 .. Len(libs) : j < stack[1].k + 1 => j < stack[1].k \/ j = stack[1].k
      BY <1>1
    <3> QED
      BY ONLY <1>1, <2>1, <2>4, <3>1, <3>2, Passed DEF Passed, SamePaths
  <2> QED
    BY <2>3, <2>4
<1> QED
  BY <1>7, <1>8, <1>9, <1>10, <1>11, <1>12, <1>13, <1>14, <1>15, <1>16 DEF Moves
----------------------------------------------------------------------------
(* Destructors *)

\* The process ends when fini_libs has passed the last library.
LEMMA Exiting ==
  ASSUME LoaderInv, NEW n, n = Len(stack), LNext
  PROVE  /\ status = "running"
         /\ status' = "exited" <=> stack[n].fn = "fini_libs" /\ stack[n].k > Len(libs)
<1>1. Top = stack[n] /\ stack[n].k \in Nat /\ Len(libs) \in Nat
  BY TopIs, Typed
<1>2. CASE FiniNext
  BY <1>1, <1>2 DEF FiniNext, InFrame
<1>3. CASE LoadStep \/ LinkStep \/ InitStep \/ OpenReturn \/ DanglingRead
  BY <1>1, <1>3 DEF LoadStep, LinkStep, InitStep, LoadNeeded, LoadReturn, LoadFails, LinkFails,
    MainLink, InitNext, InitDependency, InitSelf, InitReturn, OpenReturn, DanglingRead, InFrame
<1>4. CASE UserStep
  BY <1>1, <1>4 DEF UserStep, UserReturn, UserExit, Open, InUser, User, InFrame
<1> QED
  BY <1>2, <1>3, <1>4 DEF LNext

\* Destructors run nowhere else, and a library that comes into the vector has
\* not been destroyed.
LEMMA FinisSame ==
  ASSUME LoaderInv, NEW n, Moves(n), ~Destructs(n)
  PROVE  /\ SameFinis /\ Len(libs) <= Len(libs')
         /\ \A i \in 1 .. Len(libs') : i \in 1 .. Len(libs) \/ (i = Len(libs) + 1 /\ libs'[i].finis = 0)
<1>1. Len(libs) \in Nat
  BY LenProperties DEF LoaderInv, Vector
<1>2. Quiet => SamePaths /\ SameFinis
  BY DEF Quiet, SamePaths, SameFinis
<1>3. AllLinked => SameFinis
  BY DEF AllLinked, SameFinis
<1>4. \/ SamePaths /\ SameFinis
      \/ \E f : Extended(f)
  BY ONLY <1>2, <1>3, Moves(n), ~Destructs(n) DEF Moves, Stays, LoadFinds, LoadAdds, LoadEnds,
    StartEnds, InitGoesOn, InitCalls, MainStarts, Constructs, Ends, Exits, OpenFinds, OpenAdds,
    OpenEnds, MarksOnly
<1>5. CASE SamePaths /\ SameFinis
  BY <1>1, <1>5 DEF SamePaths
<1>6. ASSUME NEW f, Extended(f)
      PROVE  /\ SameFinis /\ Len(libs) <= Len(libs')
             /\ \A i \in 1 .. Len(libs') : i \in 1 .. Len(libs) \/ (i = Len(libs) + 1 /\ libs'[i].finis = 0)
  <2>1. /\ Len(libs') = Len(libs) + 1 /\ libs'[Len(libs) + 1].finis = 0
        /\ \A i \in 1 .. Len(libs) : libs'[i] = libs[i]
    BY <1>6 DEF Extended
  <2> QED
    BY ONLY <1>1, <2>1 DEF SameFinis
<1> QED
  BY <1>4, <1>5, <1>6

LEMMA EndedKept ==
  ASSUME LoaderInv, Ended, NEW n, n = Len(stack), Moves(n), [LNext]_vars
  PROVE  Ended'
<1>1. /\ n \in Nat \ {0} /\ n = Len(stack) /\ Len(libs) \in Nat /\ stack[n].k \in Nat
  BY Typed
<1>2. CASE UNCHANGED vars
  BY <1>2 DEF vars, Ended, CallAt
<1>3. CASE LNext
  <2>1. /\ status = "running"
        /\ status' = "exited" <=> stack[n].fn = "fini_libs" /\ stack[n].k > Len(libs)
    BY <1>3, Exiting
  <2>2. CASE /\ \A d, j, k : ~CallAt("fini_libs", d, j, k)
             /\ \A i \in 1 .. Len(libs) : libs[i].finis = 0
    <3>1. stack[n].fn # "fini_libs"
      <4>1. n \in 1 .. Len(stack)
        BY <1>1
      <4> QED
        BY <2>2, <4>1 DEF CallAt
    <3>2. \A i \in 1 .. Len(libs') : libs'[i].finis = 0
      BY <2>2, <3>1, FinisSame DEF SameFinis, Destructs
    <3>3. CASE Exits(n)
      <4>1. Push(n, "fini_libs", 1, gen)
        BY <3>3 DEF Exits
      <4>2. CallAt("fini_libs", n + 1, 1, 1)'
        BY <1>1, <4>1 DEF Push, New, CallAt
      <4>3. 1 \in 1 .. Len(libs') + 1 /\ \A i \in 1 .. Len(libs') : ~(i < 1)
        <5>1. Len(libs') \in Nat
          BY <1>1, <3>3 DEF Exits, Quiet
        <5> QED
          BY <5>1
      <4> QED
        BY <2>1, <3>1, <3>2, <4>2, <4>3 DEF Ended
    <3>4. CASE ~Exits(n)
      <4>1. \A d, j, k : CallAt("fini_libs", d, j, k)' <=> CallAt("fini_libs", d, j, k)
        BY <3>1, <3>4, Uncalled
      <4> QED
        BY <2>1, <2>2, <3>1, <3>2, <4>1 DEF Ended
    <3> QED
      BY <3>3, <3>4
  <2>3. ASSUME NEW d, NEW j, NEW k \in 1 .. Len(libs) + 1, CallAt("fini_libs", d, j, k),
               \A i \in 1 .. Len(libs) : libs[i].finis = IF i < k THEN 1 ELSE 0
        PROVE  Ended'
    <3>1. d \in 1 .. n /\ stack[d].fn = "fini_libs" /\ stack[d].i = j /\ stack[d].k = k
      BY <1>1, <2>3 DEF CallAt
    <3>2. CASE d # n
      <4>1. stack[n].fn \in {"dtor", "open", "load"}
        <5>1. n \in 1 .. n /\ d < n
          BY <1>1, <3>1, <3>2
        <5> QED
          BY <1>1, <3>1, <5>1 DEF LoaderInv, FiniOnTop
      <4>2. CallAt("fini_libs", d, j, k)'
        BY <2>3, <4>1, Uncalled DEF Exits
      <4>3. /\ SameFinis /\ Len(libs) <= Len(libs')
            /\ \A i \in 1 .. Len(libs') :
                 i \in 1 .. Len(libs) \/ (i = Len(libs) + 1 /\ libs'[i].finis = 0)
        BY <4>1, FinisSame DEF Destructs
      <4>4. k \in 1 .. Len(libs') + 1
        <5>1. Len(libs') \in Nat
          BY Stepping, LenProperties DEF Vector
        <5> QED
          BY <1>1, <4>3, <5>1
      <4>5. \A i \in 1 .. Len(libs') : libs'[i].finis = IF i < k THEN 1 ELSE 0
        <5> TAKE i \in 1 .. Len(libs')
        <5>1. CASE i \in 1 .. Len(libs)
          BY <2>3, <4>3, <5>1 DEF SameFinis
        <5>2. CASE i = Len(libs) + 1 /\ libs'[i].finis = 0
          BY <1>1, <5>2
        <5> QED
          BY <4>3, <5>1, <5>2
      <4>6. status' # "exited"
        BY <2>1, <4>1
      <4> QED
        BY <4>2, <4>4, <4>5, <4>6 DEF Ended
    <3>3. CASE d = n /\ k > Len(libs)
      <4>1. ~Destructs(n) /\ UNCHANGED libs
        <5>1. stack[n].fn = "fini_libs"
          BY <3>1, <3>3
        <5>2. Stays \/ Ends(n) \/ Destructs(n)
          <6>1. ~LoadFinds(n) /\ ~LoadEnds(n) /\ \A f : ~LoadAdds(n, f)
            BY <5>1 DEF LoadFinds, LoadEnds, LoadAdds
          <6>2. ~StartEnds(n) /\ ~InitGoesOn(n) /\ ~MainStarts(n) /\ \A i : ~InitCalls(n, i)
            BY <5>1 DEF StartEnds, InitGoesOn, MainStarts, InitCalls
          <6>3. ~Constructs(n) /\ ~Exits(n) /\ ~OpenEnds(n)
            BY <5>1 DEF Constructs, Exits, OpenEnds
          <6>4. \A f : ~OpenFinds(n, f) /\ ~OpenAdds(n, f)
            BY <5>1 DEF OpenFinds, OpenAdds, User
          <6> QED
            BY ONLY Moves(n), <6>1, <6>2, <6>3, <6>4 DEF Moves
        <5>3. ~Destructs(n)
          BY <3>3, <3>1 DEF Destructs
        <5> QED
          BY <5>2, <5>3 DEF Stays, Ends, Quiet
      <4>2. status' = "exited"
        BY <2>1, <3>1, <3>3
      <4>3. \A i \in 1 .. Len(libs) : i < k
        BY <1>1, <3>3
      <4> QED
        BY <2>3, <4>1, <4>2, <4>3 DEF Ended
    <3>4. CASE d = n /\ ~(k > Len(libs)) /\ Destructs(n)
      <4>1. /\ TurnPush(n, "dtor", stack[n].k, gen) /\ SamePaths
            /\ \A i \in 1 .. Len(libs) :
                 libs'[i].finis = IF i = k THEN libs[i].finis + 1 ELSE libs[i].finis
        BY <3>1, <3>4 DEF Destructs, MarksOnly
      <4>2. Len(stack') = n + 1 /\ SameCall(n, 1)
        BY <4>1 DEF TurnPush
      <4>3. CallAt("fini_libs", n, j, k + 1)'
        BY <1>1, <3>1, <3>4, <4>2 DEF CallAt, SameCall
      <4>4. Len(libs') = Len(libs) /\ k + 1 \in 1 .. Len(libs') + 1
        BY <1>1, <3>4, <4>1 DEF SamePaths
      <4>5. \A i \in 1 .. Len(libs) : libs'[i].finis = IF i < k + 1 THEN 1 ELSE 0
        <5> TAKE i \in 1 .. Len(libs)
        <5>1. CASE i = k
          BY <2>3, <4>1, <5>1
        <5>2. CASE i # k
          BY <1>1, <2>3, <4>1, <5>2
        <5> QED
          BY <5>1, <5>2
      <4>6. status' # "exited"
        BY <2>1, <3>1, <3>4
      <4> QED
        BY <4>3, <4>4, <4>5, <4>6 DEF Ended
    <3>5. CASE d = n /\ ~(k > Len(libs)) /\ ~Destructs(n)
      <4>1. Stays
        BY <3>1, <3>5, Moves(n) DEF Moves, LoadFinds, LoadAdds, LoadEnds, StartEnds,
          InitGoesOn, InitCalls, MainStarts, Constructs, Ends, Exits, OpenFinds, OpenAdds,
          OpenEnds, User
      <4>2. UNCHANGED <<libs, stack>> /\ CallAt("fini_libs", d, j, k)'
        BY <2>3, <4>1 DEF Stays, Quiet, CallAt
      <4>3. status' # "exited"
        BY <2>1, <3>1, <3>5
      <4> QED
        BY <2>3, <4>2, <4>3 DEF Ended
    <3> QED
      BY <3>2, <3>3, <3>4, <3>5
  <2> QED
    BY <2>1, <2>2, <2>3 DEF Ended
<1> QED
  BY <1>2, <1>3
----------------------------------------------------------------------------
(* The theorems *)

LEMMA OnceStep == OnceInv /\ [LNext]_vars => OnceInv'
<1> SUFFICES ASSUME OnceInv, [LNext]_vars
             PROVE  OnceInv'
  OBVIOUS
<1>1. PICK n : n = Len(stack)
  OBVIOUS
<1>2. LoaderInv /\ Initialised /\ Passed /\ Ended
  BY DEF OnceInv
<1>3. LoaderInv' /\ Moves(n) /\ UNCHANGED disk
  <2>1. Vector' /\ Moves(n)
    BY <1>1, <1>2, Stepping
  <2>2. Len(libs) <= Len(libs') /\ gen <= gen'
    BY <1>2, <2>1, VectorGrows
  <2> QED
    BY <1>2, <2>1, <2>2, InvStep, ScalarsKept
<1>4. Initialised'
  BY <1>1, <1>2, <1>3, InitialisedKept
<1>5. Passed'
  BY <1>1, <1>2, <1>3, PassedKept
<1>6. Ended'
  BY <1>1, <1>2, <1>3, EndedKept
<1> QED
  BY <1>3, <1>4, <1>5, <1>6 DEF OnceInv

LEMMA OnceInit == LInit => OnceInv
<1> SUFFICES ASSUME LInit
             PROVE  OnceInv
  OBVIOUS
<1>1. LoaderInv
  BY InvInit
<1>2. PICK l : l = [path |-> Exe, linked |-> FALSE, started |-> FALSE, inits |-> 0, finis |-> 0]
  OBVIOUS
<1>3. PICK s, t : s = Frame("start", 1, 0) /\ t = Frame("load", 1, 0)
  OBVIOUS
<1>4. libs = <<l>> /\ stack = <<s, t>> /\ status = "running"
  BY <1>2, <1>3 DEF LInit
<1>5. ~l.started /\ l.inits = 0 /\ l.finis = 0
  BY ONLY <1>2
<1>6. s.fn = "start" /\ t.fn = "load"
  BY <1>3 DEF Frame
<1>7. /\ Len(libs) = 1 /\ libs[1] = l
      /\ Len(stack) = 2 /\ stack[1].fn = "start" /\ stack[2].fn = "load"
  BY ONLY <1>4, <1>6
<1>8. \A d, i, k : ~CallAt("init", d, i, k) /\ ~CallAt("fini_libs", d, i, k)
  <2>1. \A d \in 1 .. 2 : d = 1 \/ d = 2
    OBVIOUS
  <2> QED
    BY ONLY <1>7, <2>1 DEF CallAt
<1>9. \A i \in 1 .. Len(libs) : libs[i] = l
  BY ONLY <1>7
<1>10. Initialised
  BY ONLY <1>5, <1>8, <1>9 DEF Initialised, OneCall, Counted
<1>11. Passed
  BY ONLY <1>7 DEF Passed
<1>12. Ended
  BY ONLY <1>4, <1>5, <1>8, <1>9 DEF Ended
<1> QED
  BY <1>1, <1>10, <1>11, <1>12 DEF OnceInv

LEMMA OnceHolds == LSpec => []OnceInv
  BY OnceInit, OnceStep, PTL DEF LSpec

\* However the libraries need each other, and whatever is opened while they
\* are initialised, no constructor runs twice; and a process that exits has
\* run every destructor once.
THEOREM ConstructedAndDestroyedOnce == LSpec => []OnceEach
<1>1. OnceInv => OnceEach
  <2> SUFFICES ASSUME OnceInv
               PROVE  OnceEach
    OBVIOUS
  <2>1. DOMAIN libs = 1 .. Len(libs) /\ Len(libs) \in Nat
    BY Domains, LenProperties DEF OnceInv, LoaderInv, Vector
  <2>2. \A i \in 1 .. Len(libs) : libs[i].inits <= 1
    BY DEF OnceInv, Initialised, Counted
  <2>3. \/ \A i \in 1 .. Len(libs) : libs[i].finis = 1
        \/ status # "exited" /\ \A i \in 1 .. Len(libs) : libs[i].finis \in {0, 1}
    BY DEF OnceInv, Ended
  <2>4. \A i \in 1 .. Len(libs) : libs[i].finis <= 1
    BY <2>3
  <2> QED
    BY <2>1, <2>2, <2>3, <2>4 DEF OnceEach
<1> QED
  BY <1>1, OnceHolds, PTL

\* init_libs passes every library before main_f is called, those that came in
\* through xload_open in a constructor too.
THEOREM MainComesAfterInit == LSpec => MainAfterInit
<1> DEFINE A == stack' # stack /\ stack' # <<>> /\ stack'[Len(stack')].fn = "main"
                  /\ InFrame("init_libs") => \A i \in DOMAIN libs : libs[i].inits = 1
<1>1. OnceInv /\ [LNext]_vars => [A]_vars
  <2> SUFFICES ASSUME OnceInv, [LNext]_vars, InFrame("init_libs"), stack' # stack,
                      stack'[Len(stack')].fn = "main"
               PROVE  \A i \in DOMAIN libs : libs[i].inits = 1
    OBVIOUS
  <2>1. PICK n : n = Len(stack)
    OBVIOUS
  <2>2. LoaderInv /\ Initialised /\ Passed
    BY DEF OnceInv
  <2>3. stack[n].fn = "init_libs" /\ n = 1
    BY <2>1, <2>2, Bottom DEF InFrame, Top
  <2>4. Moves(n)
    BY <2>1, <2>2, Stepping
  <2>5. MainStarts(n)
    BY <2>1, <2>3, <2>4 DEF Moves, Stays, LoadFinds, LoadAdds, LoadEnds, StartEnds, InitGoesOn,
      InitCalls, Constructs, Destructs, Ends, Exits, OpenFinds, OpenAdds, OpenEnds, User, Turn,
      TurnPush, SameCall, New
  <2>6. stack[1].k > Len(libs) /\ Len(libs) \in Nat /\ stack[1].k \in Nat
    BY <2>1, <2>2, <2>3, <2>5, Typed DEF MainStarts
  <2>7. \A i \in 1 .. Len(libs) : libs[i].started
    BY <2>2, <2>3, <2>6 DEF Passed
  <2>8. \A d, i, k : ~CallAt("init", d, i, k)
    BY <2>1, <2>3 DEF CallAt
  <2>9. \A i \in 1 .. Len(libs) : libs[i].inits = 1
    BY <2>2, <2>7, <2>8 DEF Initialised, Counted
  <2> QED
    BY <2>2, <2>9, Domains
<1>2. LSpec => [][A]_vars
  BY <1>1, OnceHolds, PTL DEF LSpec
<1> QED
  BY <1>2 DEF MainAfterInit
----------------------------------------------------------------------------
(* The link_map list *)

\* Frame d is a load of library i.
LoadAt(d, i) == \E k : CallAt("load", d, i, k)

InList(f) == \E j \in 1 .. Len(linkMap) : linkMap[j] = f

\* The list holds every library once whose load is done, and only those.
Listed ==
  /\ \A j, k \in 1 .. Len(linkMap) : linkMap[j] = linkMap[k] => j = k
  /\ \A j \in 1 .. Len(linkMap) : IsLoaded(linkMap[j])
  /\ \A i \in 1 .. Len(libs) : InList(libs[i].path) \/ \E d : LoadAt(d, i)
  /\ \A i \in 1 .. Len(libs) : \A d : LoadAt(d, i) => ~InList(libs[i].path)
  /\ \A i, d, e : LoadAt(d, i) /\ LoadAt(e, i) => d = e

\* The list is off the system's only while something is loaded.
Shown == spliced \/ stack[Len(stack)].fn \in {"start", "load", "open"}

DebugInv == LoaderInv /\ Listed /\ Shown

LEMMA LoadRange ==
  ASSUME LoaderInv, NEW d, NEW i, LoadAt(d, i)
  PROVE  d \in 1 .. Len(stack) /\ i \in 1 .. Len(libs)
<1>1. d \in 1 .. Len(stack) /\ stack[d].i = i
  BY DEF LoadAt, CallAt
<1>2. stack[d].i \in Nat \ {0} /\ Len(libs) \in Nat
  BY <1>1, Typed
<1>3. stack[d].i <= Len(libs)
  BY <1>1 DEF LoaderInv, Pointers
<1> QED
  BY <1>1, <1>2, <1>3

\* Nothing is loaded and nothing done with loading.
LEMMA ListedSame ==
  ASSUME LoaderInv, Listed, SamePaths, UNCHANGED linkMap,
         \A d, i : LoadAt(d, i)' <=> LoadAt(d, i)
  PROVE  Listed'
<1>1. Len(libs') = Len(libs) /\ \A i \in 1 .. Len(libs) : libs'[i].path = libs[i].path
  BY DEF SamePaths
<1>2. \A f : IsLoaded(f)' <=> IsLoaded(f)
  BY <1>1 DEF IsLoaded
<1>3. \A f : InList(f)' <=> InList(f)
  BY DEF InList
<1> QED
  BY <1>1, <1>2, <1>3 DEF Listed

\* A load begins: in frame m that was not there before.
LEMMA ListedMore ==
  ASSUME LoaderInv, Listed, NEW f, ~IsLoaded(f), Extended(f), UNCHANGED linkMap,
         NEW m, m \notin 1 .. Len(stack),
         \A d, i : LoadAt(d, i)' <=> LoadAt(d, i) \/ (d = m /\ i = Len(libs) + 1)
  PROVE  Listed'
<1> DEFINE l == Len(libs) + 1
<1>1. Len(libs) \in Nat /\ \A i \in 1 .. Len(libs)' : i \in 1 .. Len(libs) \/ i = l
  BY Typed DEF Extended
<1>2. /\ l \in 1 .. Len(libs)' /\ l \notin 1 .. Len(libs) /\ libs'[l].path = f
      /\ \A i \in 1 .. Len(libs) : libs'[i].path = libs[i].path /\ i \in 1 .. Len(libs)'
  BY <1>1 DEF Extended
<1>3. \A g : IsLoaded(g) => IsLoaded(g)'
  BY <1>2 DEF IsLoaded
<1>4. \A g : InList(g)' <=> InList(g)
  BY DEF InList
<1>5. ~InList(f)
  BY DEF InList, Listed
<1>6. \A d, i : LoadAt(d, i) => d # m /\ i \in 1 .. Len(libs)
  BY LoadRange
<1> HIDE DEF l
<1>7. \A d, i : LoadAt(d, i)' <=> LoadAt(d, i) \/ (d = m /\ i = l)
  BY DEF l
<1>8. /\ \A j, k \in 1 .. Len(linkMap') : linkMap'[j] = linkMap'[k] => j = k
      /\ \A j \in 1 .. Len(linkMap') : IsLoaded(linkMap[j])'
  BY <1>3 DEF Listed
<1>9. \A i \in 1 .. Len(libs)' : InList(libs[i].path)' \/ \E d : LoadAt(d, i)'
  BY <1>1, <1>2, <1>4, <1>7 DEF Listed
<1>10. \A i \in 1 .. Len(libs)' : \A d : LoadAt(d, i)' => ~InList(libs[i].path)'
  BY <1>2, <1>4, <1>5, <1>6, <1>7 DEF Listed
<1>11. \A i, d, e : LoadAt(d, i)' /\ LoadAt(e, i)' => d = e
  BY <1>2, <1>6, <1>7 DEF Listed
<1> QED
  BY <1>8, <1>9, <1>10, <1>11 DEF Listed

\* A load of library t ends, which was frame m.
LEMMA ListedDone ==
  ASSUME LoaderInv, Listed, SamePaths, NEW m, NEW t, LoadAt(m, t),
         linkMap' = Append(linkMap, libs[t].path),
         \A d, i : LoadAt(d, i)' <=> LoadAt(d, i) /\ d # m
  PROVE  Listed'
<1> DEFINE l == Len(linkMap) + 1
           f == libs[t].path
<1>1. t \in 1 .. Len(libs) /\ linkMap \in Seq(Libs)
  BY LoadRange DEF LoaderInv, Scalars
<1>2. Len(libs') = Len(libs) /\ \A i \in 1 .. Len(libs) : libs'[i].path = libs[i].path
  BY DEF SamePaths
<1>3. IsLoaded(f) /\ ~InList(f)
  BY <1>1 DEF Listed, IsLoaded
<1>4. libs[t] \in LibSet
  BY <1>1, ElementOfSeq DEF LoaderInv, Vector
<1>5. f \in Libs
  BY <1>4, FieldsOfLib
<1> HIDE DEF f
<1>6. /\ Len(linkMap) \in Nat /\ Len(linkMap') = l /\ linkMap'[l] = f
      /\ \A j \in 1 .. Len(linkMap) : linkMap'[j] = linkMap[j]
  BY <1>1, <1>5, AppendProperties, LenProperties DEF f
<1>7. \A j \in 1 .. Len(linkMap') : j \in 1 .. Len(linkMap) \/ j = l
  BY <1>6
<1>8. l \in 1 .. Len(linkMap') /\ \A j \in 1 .. Len(linkMap) : j \in 1 .. Len(linkMap')
  BY <1>6
<1> HIDE DEF l
<1>9. \A g : IsLoaded(g)' <=> IsLoaded(g)
  BY <1>2 DEF IsLoaded
<1>10. \A g : InList(g)' <=> InList(g) \/ g = f
  BY <1>6, <1>7, <1>8 DEF InList
<1>11. \A j, k \in 1 .. Len(linkMap') : linkMap'[j] = linkMap'[k] => j = k
  BY <1>3, <1>6, <1>7 DEF Listed, InList
<1>12. \A j \in 1 .. Len(linkMap') : IsLoaded(linkMap[j])'
  BY <1>3, <1>6, <1>7, <1>9 DEF Listed
<1>13. \A i \in 1 .. Len(libs') : InList(libs[i].path)' \/ \E d : LoadAt(d, i)'
  <2> SUFFICES ASSUME NEW i \in 1 .. Len(libs), ~InList(libs[i].path)', NEW d, LoadAt(d, i)
               PROVE  d # m
    BY <1>2, <1>10 DEF Listed
  <2>1. d = m => i = t
    BY DEF LoadAt, CallAt
  <2> QED
    BY <1>2, <1>10, <2>1 DEF f
<1>14. \A i \in 1 .. Len(libs') : \A d : LoadAt(d, i)' => ~InList(libs[i].path)'
  <2> SUFFICES ASSUME NEW i \in 1 .. Len(libs), NEW d, LoadAt(d, i), d # m
               PROVE  ~InList(libs[i].path) /\ libs[i].path # f
    BY <1>2, <1>10
  <2>1. ~InList(libs[i].path)
    BY DEF Listed
  <2>2. libs[i].path = f => i = t
    BY <1>1 DEF LoaderInv, Distinct, f
  <2> QED
    BY <2>1, <2>2 DEF Listed
<1>15. \A i, d, e : LoadAt(d, i)' /\ LoadAt(e, i)' => d = e
  BY DEF Listed
<1> QED
  BY <1>11, <1>12, <1>13, <1>14, <1>15 DEF Listed

\* What a step does to the loads under way.
LEMMA LoadCalls ==
  ASSUME LoaderInv, NEW n, n = Len(stack), Moves(n)
  PROVE  /\ LoadFinds(n) => \A d, i : LoadAt(d, i)' <=> LoadAt(d, i)
         /\ \A f \in Libs : LoadAdds(n, f) =>
              \A d, i : LoadAt(d, i)' <=> LoadAt(d, i) \/ (d = n + 1 /\ i = Len(libs) + 1)
         /\ \A f \in Libs : OpenAdds(n, f) =>
              \A d, i : LoadAt(d, i)' <=> LoadAt(d, i) \/ (d = n + 2 /\ i = Len(libs) + 1)
         /\ LoadEnds(n) => \A d, i : LoadAt(d, i)' <=> LoadAt(d, i) /\ d # n
<1>1. n \in Nat \ {0} /\ n = Len(stack)
  BY Typed
<1>2. \A d, i : LoadAt(d, i) <=> d \in 1 .. n /\ stack[d].fn = "load" /\ stack[d].i = i
  BY <1>1 DEF LoadAt, CallAt
<1>3. \A d, i : LoadAt(d, i)' <=> d \in 1 .. Len(stack') /\ stack'[d].fn = "load" /\ stack'[d].i = i
  BY DEF LoadAt, CallAt
<1>4. /\ \A d \in 1 .. n - 1 : d \in 1 .. n /\ d # n
      /\ \A d \in 1 .. n : d \in 1 .. n - 1 \/ d = n
      /\ \A d \in 1 .. n + 1 : d \in 1 .. n \/ d = n + 1
      /\ \A d \in 1 .. n + 2 : d \in 1 .. n \/ d = n + 1 \/ d = n + 2
      /\ 1 .. n \subseteq 1 .. n + 1 /\ 1 .. n + 1 \subseteq 1 .. n + 2
      /\ n \in 1 .. n /\ n + 1 \in 1 .. n + 1 /\ n + 2 \in 1 .. n + 2
      /\ n + 1 \notin 1 .. n /\ n + 2 \notin 1 .. n + 1
  BY <1>1
<1>5. ASSUME LoadFinds(n) PROVE \A d, i : LoadAt(d, i)' <=> LoadAt(d, i)
  <2>1. /\ Len(stack') = n /\ \A d \in 1 .. n - 1 : stack'[d] = stack[d]
        /\ stack'[n].fn = stack[n].fn /\ stack'[n].i = stack[n].i
    BY <1>5 DEF LoadFinds, Turn, Kept, SameCall
  <2> QED
    BY ONLY <1>2, <1>3, <1>4, <2>1
<1>6. ASSUME NEW f \in Libs, LoadAdds(n, f)
      PROVE  \A d, i : LoadAt(d, i)' <=> LoadAt(d, i) \/ (d = n + 1 /\ i = Len(libs) + 1)
  <2>1. /\ Len(stack') = n + 1 /\ \A d \in 1 .. n - 1 : stack'[d] = stack[d]
        /\ stack'[n].fn = stack[n].fn /\ stack'[n].i = stack[n].i
        /\ stack'[n + 1].fn = "load" /\ stack'[n + 1].i = Len(libs) + 1
    BY <1>6 DEF LoadAdds, TurnPush, Kept, SameCall, New
  <2> QED
    BY ONLY <1>2, <1>3, <1>4, <2>1
<1>7. ASSUME NEW f \in Libs, OpenAdds(n, f)
      PROVE  \A d, i : LoadAt(d, i)' <=> LoadAt(d, i) \/ (d = n + 2 /\ i = Len(libs) + 1)
  <2>1. /\ Len(stack') = n + 2 /\ \A d \in 1 .. n : stack'[d] = stack[d]
        /\ stack'[n + 1].fn = "open"
        /\ stack'[n + 2].fn = "load" /\ stack'[n + 2].i = Len(libs) + 1
    BY <1>7 DEF OpenAdds, PushTwo, Kept, New
  <2> QED
    BY ONLY <1>2, <1>3, <1>4, <2>1
<1>8. ASSUME LoadEnds(n) PROVE \A d, i : LoadAt(d, i)' <=> LoadAt(d, i) /\ d # n
  <2>1. n # 1
    BY <1>8, NotBottom DEF LoadEnds
  <2>2. Fixed(n - 1) /\ Len(stack') = n - 1
    BY <1>8, <2>1, Fixing DEF LoadEnds, PopReturn
  <2>3. \A d \in 1 .. n - 1 : stack'[d].fn = stack[d].fn /\ stack'[d].i = stack[d].i
    BY <2>2 DEF Fixed
  <2> QED
    BY ONLY <1>2, <1>3, <1>4, <2>2, <2>3
<1> QED
  BY <1>5, <1>6, <1>7, <1>8

LEMMA ListedKept ==
  ASSUME LoaderInv, NEW n, n = Len(stack), Listed, [LNext]_vars
  PROVE  Listed'
<1>1. Moves(n) /\ n \in Nat \ {0} /\ n = Len(stack)
  BY Stepping, Typed
<1>2. CASE LoadReturn
  <2>1. LoadEnds(n) /\ stack[n].fn = "load" /\ Self = libs[stack[n].i].path
    BY <1>2, DoesLoadReturn DEF LoadEnds, Self, Top
  <2>2. SamePaths /\ LoadAt(n, stack[n].i)
    BY <1>1, <2>1 DEF LoadEnds, Quiet, SamePaths, LoadAt, CallAt
  <2>3. linkMap' = Append(linkMap, libs[stack[n].i].path)
    BY <1>2, <2>1 DEF LoadReturn
  <2> QED
    BY <1>1, <2>1, <2>2, <2>3, LoadCalls, ListedDone
<1>3. ASSUME ~LoadReturn PROVE UNCHANGED linkMap
  BY <1>3 DEF LNext, LoadStep, LinkStep, InitStep, UserStep, LoadNeeded, LoadFails, LinkFails,
    MainLink, InitNext, InitDependency, InitSelf, InitReturn, FiniNext, UserReturn, UserExit,
    Open, OpenReturn, DanglingRead, vars
<1>4. ASSUME NEW f \in Libs, LoadAdds(n, f), ~LoadReturn PROVE Listed'
  <2>1. ~IsLoaded(f) /\ Extended(f) /\ n + 1 \notin 1 .. Len(stack)
    BY <1>1, <1>4 DEF LoadAdds
  <2> QED
    BY <1>1, <1>3, <1>4, <2>1, LoadCalls, ListedMore
<1>5. ASSUME NEW f \in Libs, OpenAdds(n, f), ~LoadReturn PROVE Listed'
  <2>1. ~IsLoaded(f) /\ Extended(f) /\ n + 2 \notin 1 .. Len(stack)
    BY <1>1, <1>5 DEF OpenAdds
  <2> QED
    BY <1>1, <1>3, <1>5, <2>1, LoadCalls, ListedMore
<1>6. CASE stack[n].fn = "load" /\ ~LoadReturn
  <2>1. LoadNeeded \/ LoadFails \/ UNCHANGED vars
    BY <1>6, TopIs DEF LNext, LoadStep, LinkStep, InitStep, UserStep, LinkFails, MainLink, InitNext,
      InitDependency, InitSelf, InitReturn, FiniNext, UserReturn, UserExit, Open, OpenReturn,
      DanglingRead, InUser, InFrame, User
  <2>2. CASE LoadNeeded
    <3>1. LoadFinds(n) \/ \E f \in Libs : LoadAdds(n, f)
      BY <1>1, <2>2, DoesLoadNeeded
    <3>2. ASSUME LoadFinds(n) PROVE Listed'
      <4>1. SamePaths
        BY <3>2 DEF LoadFinds, Quiet, SamePaths
      <4> QED
        BY <1>1, <1>3, <1>6, <3>2, <4>1, LoadCalls, ListedSame
    <3> QED
      BY <1>4, <1>6, <3>1, <3>2
  <2>3. CASE LoadFails \/ UNCHANGED vars
    <3>1. UNCHANGED <<libs, stack, gen, linkMap>>
      BY <2>3 DEF LoadFails, vars
    <3>2. SamePaths /\ \A d, i : LoadAt(d, i)' <=> LoadAt(d, i)
      BY <3>1 DEF SamePaths, LoadAt, CallAt
    <3> QED
      BY <3>1, <3>2, ListedSame
  <2> QED
    BY <2>1, <2>2, <2>3
<1>7. CASE stack[n].fn # "load" /\ ~LoadReturn /\ \A f \in Libs : ~OpenAdds(n, f)
  <2>1. \A d, i, k : CallAt("load", d, i, k)' <=> CallAt("load", d, i, k)
    BY <1>1, <1>7, Uncalled
  <2>2. \A d, i : LoadAt(d, i)' <=> LoadAt(d, i)
    BY <2>1 DEF LoadAt
  <2>3. SamePaths
    BY <1>1, <1>7 DEF Moves, Stays, LoadFinds, LoadAdds, LoadEnds, StartEnds, InitGoesOn, InitCalls,
      MainStarts, Constructs, Destructs, Ends, Exits, OpenFinds, OpenEnds, Quiet, MarksOnly, SamePaths
  <2> QED
    BY <1>3, <1>7, <2>2, <2>3, ListedSame
<1> QED
  BY <1>2, <1>5, <1>6, <1>7

LEMMA ShownKept ==
  ASSUME LoaderInv, NEW n, n = Len(stack), Shown, [LNext]_vars
  PROVE  Shown'
<1>1. Moves(n) /\ n \in Nat \ {0} /\ Top = stack[n]
  BY Stepping, TopIs
<1>2. CASE MainLink \/ OpenReturn
  BY <1>2 DEF MainLink, OpenReturn, Shown
<1>3. ASSUME NEW f \in Libs, Open(f) PROVE Shown'
  <2>1. OpenAdds(n, f) \/ \E i \in 1 .. Len(libs) : OpenFinds(n, i)
    BY <1>3, DoesOpen
  <2>2. stack'[Len(stack')].fn \in {"load", "open"}
    BY <2>1 DEF OpenAdds, OpenFinds, PushTwo, Push, New
  <2> QED
    BY <2>2 DEF Shown
<1>4. CASE LoadNeeded
  <2>1. LoadFinds(n) \/ \E f \in Libs : LoadAdds(n, f)
    BY <1>4, DoesLoadNeeded
  <2>2. stack'[Len(stack')].fn = "load"
    BY <2>1 DEF LoadFinds, LoadAdds, Turn, TurnPush, SameCall, New
  <2> QED
    BY <2>2 DEF Shown
<1>5. CASE LoadReturn
  <2>1. LoadEnds(n)
    BY <1>5, DoesLoadReturn
  <2>2. n # 1 /\ stack[n].fn = "load" /\ PopReturn(n)
    BY <2>1, NotBottom DEF LoadEnds
  <2>3. n - 1 \in 1 .. Len(stack) - 1 /\ n - 1 + 1 = n
    BY <1>1, <2>2
  <2>4. stack[n - 1].fn \in {"start", "load", "open"}
    BY <2>2, <2>3 DEF LoaderInv, Shape, OnTop
  <2>5. stack'[Len(stack')].fn = stack[n - 1].fn
    BY <2>2 DEF PopReturn, SameCall
  <2> QED
    BY <2>4, <2>5 DEF Shown
<1>6. CASE LoadFails \/ LinkFails \/ DanglingRead \/ UNCHANGED vars
  BY <1>6 DEF LoadFails, LinkFails, DanglingRead, vars, Shown
<1>7. CASE InitStep \/ FiniNext \/ UserReturn \/ UserExit
  <2>1. UNCHANGED spliced
    BY <1>7 DEF InitStep, InitNext, InitDependency, InitSelf, InitReturn, FiniNext, UserReturn, UserExit
  <2>2. stack[n].fn \notin {"start", "load", "open"}
    BY <1>1, <1>7 DEF InitStep, InitNext, InitDependency, InitSelf, InitReturn, FiniNext, UserReturn,
      UserExit, InFrame
  <2> QED
    BY <2>1, <2>2 DEF Shown
<1> QED
  BY <1>2, <1>3, <1>4, <1>5, <1>6, <1>7 DEF LNext, LoadStep, LinkStep, UserStep

LEMMA DebugStep == DebugInv /\ [LNext]_vars => DebugInv'
<1> SUFFICES ASSUME DebugInv, [LNext]_vars
             PROVE  DebugInv'
  OBVIOUS
<1>1. PICK n : n = Len(stack)
  OBVIOUS
<1> QED
  BY <1>1, InvStep, ListedKept, ShownKept DEF DebugInv

LEMMA DebugInit == LInit => DebugInv
<1> SUFFICES ASSUME LInit
             PROVE  DebugInv
  OBVIOUS
<1>1. LoaderInv
  BY InvInit
<1>2. PICK l, s, t : /\ l.path = Exe /\ libs = <<l>> /\ stack = <<s, t>>
                     /\ s.fn = "start" /\ t.fn = "load" /\ t.i = 1 /\ t.k = 1
  BY DEF LInit, Frame
<1>3. /\ Len(libs) = 1 /\ libs[1] = l /\ Len(stack) = 2 /\ stack[1] = s /\ stack[2] = t
      /\ linkMap = <<>> /\ Len(linkMap) = 0
  BY <1>2 DEF LInit
<1>4. \A d, i : LoadAt(d, i) <=> d = 2 /\ i = 1
  <2>1. \A d \in 1 .. 2 : d = 1 \/ d = 2
    OBVIOUS
  <2>2. 2 \in 1 .. 2
    OBVIOUS
  <2> QED
    BY ONLY <1>2, <1>3, <2>1, <2>2 DEF LoadAt, CallAt
<1>5. \A f : ~InList(f)
  BY <1>3 DEF InList
<1>6. Listed
  BY ONLY <1>3, <1>4, <1>5 DEF Listed
<1>7. Shown
  BY ONLY <1>2, <1>3 DEF Shown
<1> QED
  BY <1>1, <1>6, <1>7 DEF DebugInv

LEMMA DebugHolds == LSpec => []DebugInv
  BY DebugInit, DebugStep, PTL DEF LSpec

\* No more pigeons than holes.
LEMMA NoLonger ==
  ASSUME NEW m \in Nat, NEW n \in Nat, NEW h \in [1 .. m -> 1 .. n],
         \A j, k \in 1 .. m : h[j] = h[k] => j = k
  PROVE  m <= n
<1>1. /\ IsFiniteSet(1 .. m) /\ Cardinality(1 .. m) = m
      /\ IsFiniteSet(1 .. n) /\ Cardinality(1 .. n) = n
  BY FS_Interval
<1> SUFFICES ASSUME n < m
             PROVE  FALSE
  OBVIOUS
<1>2. \E j, k \in 1 .. m : j # k /\ h[j] = h[k]
  BY <1>1, FS_PigeonHole
<1> QED
  BY <1>2

\* While a constructor, main or a destructor runs, and whatever it has opened
\* itself, a debugger sees every library of the vector on the list of the
\* system exactly once (load_elf.c:565-575, 758-771).
THEOREM DebuggerAlwaysSees == LSpec => []DebuggerSeesAll
<1>1. ASSUME DebugInv PROVE DebuggerSeesAll
  <2> SUFFICES ASSUME InUser
               PROVE  /\ spliced /\ Len(linkMap) = Len(libs)
                      /\ {linkMap[i] : i \in DOMAIN linkMap} = Loaded
    BY DEF DebuggerSeesAll
  <2> DEFINE m == Len(linkMap)
             l == Len(libs)
  <2>1. PICK n : n = Len(stack)
    OBVIOUS
  <2>2. LoaderInv /\ Listed /\ Shown
    BY <1>1 DEF DebugInv
  <2>3. stack[n].fn \in {"ctor", "main", "dtor"} /\ n \in Nat \ {0}
    BY <2>1, <2>2, Typed DEF InUser, InFrame, Top, User
  <2>4. spliced
    BY <2>1, <2>2, <2>3 DEF Shown
  <2>5. \A d, i : ~LoadAt(d, i)
    <3>1. \A d \in 1 .. n : stack[d].fn # "load"
      <4>1. n \in 1 .. n /\ \A d \in 1 .. n : d = n \/ d < n
        BY <2>3
      <4> QED
        BY <2>1, <2>2, <2>3, <4>1 DEF LoaderInv, LoadsOnTop
    <3> QED
      BY <2>1, <3>1 DEF LoadAt, CallAt
  <2>6. /\ m \in Nat /\ l \in Nat /\ DOMAIN linkMap = 1 .. m /\ DOMAIN libs = 1 .. l
    BY <2>2, LenProperties DEF LoaderInv, Scalars, Vector
  <2>7. \A j \in 1 .. m : \E i \in 1 .. l : libs[i].path = linkMap[j]
    BY <2>2 DEF Listed, IsLoaded
  <2>8. \A i \in 1 .. l : \E j \in 1 .. m : linkMap[j] = libs[i].path
    BY <2>2, <2>5 DEF Listed, InList
  <2>9. {linkMap[i] : i \in DOMAIN linkMap} = Loaded
    <3> DEFINE Names == {linkMap[i] : i \in DOMAIN linkMap}
    <3>1. \A f \in Names : f \in Loaded
      BY <2>6, <2>7 DEF Loaded
    <3>2. \A f \in Loaded : f \in Names
      BY <2>6, <2>8 DEF Loaded
    <3> QED
      BY <3>1, <3>2
  <2>10. \A j, k \in 1 .. m : linkMap[j] = linkMap[k] => j = k
    BY <2>2 DEF Listed
  <2>11. \A j, k \in 1 .. l : libs[j].path = libs[k].path => j = k
    BY <2>2 DEF LoaderInv, Distinct
  <2> HIDE DEF m, l
  <2>12. m <= l
    <3> DEFINE h == [j \in 1 .. m |-> CHOOSE i \in 1 .. l : libs[i].path = linkMap[j]]
    <3>1. \A j \in 1 .. m : h[j] \in 1 .. l /\ libs[h[j]].path = linkMap[j]
      BY <2>7
    <3>2. h \in [1 .. m -> 1 .. l]
      BY <3>1
    <3> HIDE DEF h
    <3>3. \A j, k \in 1 .. m : h[j] = h[k] => j = k
      BY <2>10, <3>1
    <3> QED
      BY <2>6, <3>2, <3>3, NoLonger
  <2>13. l <= m
    <3> DEFINE h == [i \in 1 .. l |-> CHOOSE j \in 1 .. m : linkMap[j] = libs[i].path]
    <3>1. \A i \in 1 .. l : h[i] \in 1 .. m /\ linkMap[h[i]] = libs[i].path
      BY <2>8
    <3>2. h \in [1 .. l -> 1 .. m]
      BY <3>1
    <3> HIDE DEF h
    <3>3. \A j, k \in 1 .. l : h[j] = h[k] => j = k
      BY <2>11, <3>1
    <3> QED
      BY <2>6, <3>2, <3>3, NoLonger
  <2>14. m = l
    BY <2>6, <2>12, <2>13
  <2> QED
    BY <2>4, <2>9, <2>14 DEF m, l
<1> QED
  BY <1>1, DebugHolds, PTL
----------------------------------------------------------------------------
(* The order of the constructors *)

IsStarted(f) == \E i \in 1 .. Len(libs) : libs[i].path = f /\ libs[i].started

\* Whatever contains what f needs, and with a library what that one needs, has g.
Reaches(f, g) ==
  \A S \in SUBSET Libs : Needs(f) \subseteq S /\ (\A h \in S : Needs(h) \subseteq S) => g \in S

\* init_lib is called for what the libraries of the calls below it depend on.
Reaching ==
  \A d, e, i, j, k, l :
    CallAt("init", d, i, k) /\ CallAt("init", e, j, l) /\ d < e
      => Reaches(libs[i].path, libs[j].path)

\* init_lib has begun everything it has passed.
Begun ==
  \A d, i, k : CallAt("init", d, i, k) =>
    \A j \in 1 .. Needing(i) : j < k => IsStarted(NeedOf(i, j))

\* A constructor runs in the call of init_lib that has called it.
CtorOver ==
  \A d, i, k : CallAt("ctor", d, i, k) =>
    \E l : CallAt("init", d - 1, i, l) /\ l > Needing(i) + 1

OrderInv == OnceInv /\ Reaching /\ Begun /\ CtorOver

LEMMA CallRange ==
  ASSUME LoaderInv, NEW fn, NEW d, NEW i, NEW k, CallAt(fn, d, i, k)
  PROVE  d \in 1 .. Len(stack) /\ i \in 1 .. Len(libs) /\ k \in Nat \ {0}
<1>1. d \in 1 .. Len(stack) /\ stack[d].i = i /\ stack[d].k = k
  BY DEF CallAt
<1>2. stack[d].i \in Nat \ {0} /\ Len(libs) \in Nat /\ stack[d].k \in Nat \ {0}
  BY <1>1, Typed
<1>3. stack[d].i <= Len(libs)
  BY <1>1 DEF LoaderInv, Pointers
<1> QED
  BY <1>1, <1>2, <1>3

\* What the libraries are and need stays, and what is begun stays begun.
LEMMA Lasting ==
  ASSUME LoaderInv, NEW n, Moves(n), UNCHANGED disk
  PROVE  /\ \A i \in 1 .. Len(libs) :
              /\ i \in 1 .. Len(libs') /\ libs'[i].path = libs[i].path
              /\ Needing(i)' = Needing(i) /\ \A j : NeedOf(i, j)' = NeedOf(i, j)
              /\ libs[i].started => libs'[i].started
         /\ \A f, g : Reaches(f, g)' <=> Reaches(f, g)
         /\ \A f : IsStarted(f) => IsStarted(f)'
<1>1. \A j \in 1 .. Len(libs) : libs'[j].path = libs[j].path /\ j \in 1 .. Len(libs')
  <2>1. Len(libs) \in Nat
    BY Typed
  <2> QED
    BY <2>1, Vectors DEF SamePaths, Extended
<1>2. \A i \in 1 .. Len(libs) : Needing(i)' = Needing(i) /\ \A j : NeedOf(i, j)' = NeedOf(i, j)
  BY NeedsKept
<1>3. \A i \in 1 .. Len(libs) : libs[i].started => libs'[i].started
  BY Moves(n) DEF Moves, Stays, LoadFinds, LoadAdds, LoadEnds, StartEnds, InitGoesOn, InitCalls,
    MainStarts, Constructs, Destructs, Ends, Exits, OpenFinds, OpenAdds, OpenEnds, Quiet, MarksOnly,
    AllLinked, Extended, SameStarted
<1>4. \A f : Needs(f)' = Needs(f)
  BY DEF Needs, Needed
<1>5. \A f, g : Reaches(f, g)' <=> Reaches(f, g)
  BY <1>4 DEF Reaches
<1>6. \A f : IsStarted(f) => IsStarted(f)'
  BY <1>1, <1>3 DEF IsStarted
<1> QED
  BY <1>1, <1>2, <1>3, <1>5, <1>6

LEMMA Needful ==
  ASSUME LoaderInv, NEW i \in 1 .. Len(libs), NEW j \in 1 .. Needing(i)
  PROVE  /\ NeedOf(i, j) \in Needs(libs[i].path)
         /\ Reaches(libs[i].path, NeedOf(i, j))
         /\ \A f : Reaches(f, libs[i].path) => Reaches(f, NeedOf(i, j))
<1>1. libs[i] \in LibSet
  BY ElementOfSeq DEF LoaderInv, Vector
<1>2. libs[i].path \in Libs
  BY <1>1, FieldsOfLib
<1>3. disk \in [Libs -> [needed : Seq(Libs), soname : BOOLEAN]]
  BY LoaderAssumption DEF LoaderInv, Scalars
<1>4. NeedOf(i, j) \in Needs(libs[i].path)
  BY <1>2, <1>3, LenProperties DEF NeedOf, Needing, Needs, Needed
<1>5. Reaches(libs[i].path, NeedOf(i, j))
  BY <1>4 DEF Reaches
<1>6. \A f : Reaches(f, libs[i].path) => Reaches(f, NeedOf(i, j))
  BY <1>4 DEF Reaches
<1> QED
  BY <1>4, <1>5, <1>6

\* No constructor begins but in one move, and none comes back.
LEMMA CtorsLeft ==
  ASSUME LoaderInv, NEW n, n = Len(stack), Moves(n), ~Constructs(n),
         NEW d, NEW i, NEW k, CallAt("ctor", d, i, k)'
  PROVE  CallAt("ctor", d, i, k) /\ (stack[n].fn = "init" => d # n)
<1>1. n \in Nat \ {0} /\ n = Len(stack)
  BY Typed
<1> SUFFICES CallAt("ctor", d, i, k)
  BY DEF CallAt
<1>2. d \in 1 .. Len(stack') /\ stack'[d].fn = "ctor" /\ stack'[d].i = i /\ stack'[d].k = k
  BY DEF CallAt
<1>3. ASSUME Fixed(n), d \in 1 .. n PROVE CallAt("ctor", d, i, k)
  BY <1>1, <1>2, <1>3 DEF Fixed, CallAt
<1>4. ASSUME Fixed(n - 1), d \in 1 .. n - 1 PROVE CallAt("ctor", d, i, k)
  BY <1>1, <1>2, <1>4 DEF Fixed, CallAt
<1>5. /\ \A m \in 1 .. n : m \in 1 .. n - 1 \/ m = n
      /\ \A m \in 1 .. n + 1 : m \in 1 .. n \/ m = n + 1
      /\ \A m \in 1 .. n + 2 : m \in 1 .. n \/ m = n + 1 \/ m = n + 2
  BY <1>1
<1>6. CASE Stays
  BY <1>6 DEF Stays, CallAt
<1>7. CASE LoadFinds(n) \/ InitGoesOn(n)
  <2>1. Fixed(n - 1) /\ Len(stack') = n /\ stack'[n].fn # "ctor"
    BY <1>7, Fixing DEF LoadFinds, InitGoesOn, Turn, SameCall
  <2> QED
    BY <1>2, <1>4, <1>5, <2>1
<1>8. CASE LoadEnds(n) \/ Ends(n) \/ OpenEnds(n)
  <2>1. n # 1 /\ (PopReturn(n) \/ Pop(n))
    BY <1>8, NotBottom DEF LoadEnds, Ends, OpenEnds
  <2>2. Fixed(n - 1) /\ Len(stack') = n - 1
    BY <1>1, <2>1, Fixing DEF Pop, PopReturn
  <2> QED
    BY <1>2, <1>4, <2>2
<1>9. CASE StartEnds(n) \/ MainStarts(n)
  <2>1. Len(stack') = 1 /\ stack'[1].fn # "ctor"
    BY <1>9 DEF StartEnds, MainStarts, Restart, New
  <2> QED
    BY <1>2, <2>1
<1>10. CASE Destructs(n)
  <2>1. Fixed(n - 1) /\ Len(stack') = n + 1 /\ stack'[n].fn # "ctor" /\ stack'[n + 1].fn # "ctor"
    BY <1>10, Fixing DEF Destructs, TurnPush, SameCall, New
  <2> QED
    BY <1>2, <1>4, <1>5, <2>1
<1>11. ASSUME NEW f \in Libs, LoadAdds(n, f) PROVE CallAt("ctor", d, i, k)
  <2>1. Fixed(n - 1) /\ Len(stack') = n + 1 /\ stack'[n].fn # "ctor" /\ stack'[n + 1].fn # "ctor"
    BY <1>11, Fixing DEF LoadAdds, TurnPush, SameCall, New
  <2> QED
    BY <1>2, <1>4, <1>5, <2>1
<1>12. ASSUME NEW j \in 1 .. Len(libs), InitCalls(n, j) PROVE CallAt("ctor", d, i, k)
  <2>1. Fixed(n - 1) /\ Len(stack') = n + 1 /\ stack'[n].fn # "ctor" /\ stack'[n + 1].fn # "ctor"
    BY <1>12, Fixing DEF InitCalls, TurnPush, SameCall, New
  <2> QED
    BY <1>2, <1>4, <1>5, <2>1
<1>13. CASE Exits(n) \/ \E j \in 1 .. Len(libs) : OpenFinds(n, j)
  <2>1. \E fn \in {"fini_libs", "open"} : \E j, g : Push(n, fn, j, g)
    BY <1>13 DEF Exits, OpenFinds
  <2>2. Fixed(n) /\ Len(stack') = n + 1 /\ stack'[n + 1].fn # "ctor"
    BY <2>1, Fixing DEF Push, New
  <2>3. d \in 1 .. n
    BY <1>2, <1>5, <2>2
  <2> QED
    BY <1>3, <2>2, <2>3
<1>14. ASSUME NEW f \in Libs, OpenAdds(n, f) PROVE CallAt("ctor", d, i, k)
  <2>1. Fixed(n) /\ Len(stack') = n + 2 /\ stack'[n + 1].fn # "ctor" /\ stack'[n + 2].fn # "ctor"
    BY <1>14, Fixing DEF OpenAdds, PushTwo, New
  <2> QED
    BY <1>2, <1>3, <1>5, <2>1
<1> QED
  BY <1>6, <1>7, <1>8, <1>9, <1>10, <1>11, <1>12, <1>13, <1>14 DEF Moves

\* A move that has nothing to do with calls of init_lib.
LEMMA OrderSame ==
  ASSUME LoaderInv, NEW n, n = Len(stack), Moves(n), UNCHANGED disk,
         ~Constructs(n), Reaching, Begun, CtorOver,
         \A d, i, k : CallAt("init", d, i, k)' <=> CallAt("init", d, i, k)
  PROVE  Reaching' /\ Begun' /\ CtorOver'
<1>1. \A d, i, k : CallAt("init", d, i, k) => i \in 1 .. Len(libs)
  BY CallRange
<1>2. \A d, i, k : CallAt("ctor", d, i, k)' => CallAt("ctor", d, i, k) /\ i \in 1 .. Len(libs)
  BY CtorsLeft, CallRange
<1>3. Reaching'
  <2> SUFFICES ASSUME NEW d, NEW e, NEW i, NEW j, NEW k, NEW l, CallAt("init", d, i, k),
                      CallAt("init", e, j, l), d < e
               PROVE  Reaches(libs[i].path, libs[j].path)'
    BY DEF Reaching
  <2>1. Reaches(libs[i].path, libs[j].path) /\ i \in 1 .. Len(libs) /\ j \in 1 .. Len(libs)
    BY <1>1 DEF Reaching
  <2>2. Reaches(libs'[i].path, libs'[j].path)
    BY <2>1, Lasting
  <2> QED
    BY <2>2, Lasting
<1>4. Begun'
  <2> SUFFICES ASSUME NEW d, NEW i, NEW k, CallAt("init", d, i, k),
                      NEW j \in 1 .. Needing(i)', j < k
               PROVE  IsStarted(NeedOf(i, j))'
    BY DEF Begun
  <2>1. i \in 1 .. Len(libs)
    BY <1>1
  <2>2. IsStarted(NeedOf(i, j))
    BY <2>1, Lasting DEF Begun
  <2> QED
    BY <2>1, <2>2, Lasting
<1>5. CtorOver'
  <2> SUFFICES ASSUME NEW d, NEW i, NEW k, CallAt("ctor", d, i, k), i \in 1 .. Len(libs)
               PROVE  \E l : CallAt("init", d - 1, i, l)' /\ l > Needing(i)' + 1
    BY <1>2 DEF CtorOver
  <2>1. PICK l : CallAt("init", d - 1, i, l) /\ l > Needing(i) + 1
    BY DEF CtorOver
  <2> QED
    BY <2>1, Lasting
<1> QED
  BY <1>3, <1>4, <1>5

\* The innermost call of init_lib or init_libs takes a turn, with or without
\* a call of init_lib, or returns.
LEMMA OrderOn ==
  ASSUME LoaderInv, NEW n, n = Len(stack), Moves(n), UNCHANGED disk, Reaching, Begun,
         \A d, i, k : CallAt("init", d, i, k)' =>
           \/ d \in 1 .. n - 1 /\ CallAt("init", d, i, k)
           \/ d = n /\ CallAt("init", d, i, stack[n].k) /\ k = stack[n].k + 1
           \/ /\ d = n + 1 /\ i \in 1 .. Len(libs) /\ k = 1
              /\ Visits(n, i) /\ stack[n].fn \in {"init_libs", "init"},
         NEW p, p = stack[n].i, NEW q, q = stack[n].k,
         stack[n].fn = "init" /\ q <= Needing(p) => IsStarted(NeedOf(p, q))'
  PROVE  Reaching' /\ Begun'
<1>1. n \in Nat \ {0}
  BY Typed
<1>2. \A d, i, k : CallAt("init", d, i, k) => i \in 1 .. Len(libs) /\ k \in Nat \ {0}
  BY CallRange
<1>3. \A d, i, k : CallAt("init", d, i, k)' => i \in 1 .. Len(libs)
  BY <1>2
<1>4. Reaching'
  <2> SUFFICES ASSUME NEW d, NEW e, NEW i, NEW j, NEW k, NEW l, CallAt("init", d, i, k)',
                      CallAt("init", e, j, l)', d < e
               PROVE  Reaches(libs[i].path, libs[j].path)'
    BY DEF Reaching
  <2>1. i \in 1 .. Len(libs) /\ j \in 1 .. Len(libs)
    BY <1>3
  <2> SUFFICES Reaches(libs[i].path, libs[j].path)
    <3>1. Reaches(libs[i].path, libs[j].path) => Reaches(libs'[i].path, libs'[j].path)
      BY <2>1, Lasting
    <3> QED
      BY <3>1, Lasting
  <2>2. \/ d \in 1 .. n - 1 /\ CallAt("init", d, i, k)
        \/ d = n /\ CallAt("init", d, i, stack[n].k)
        \/ d = n + 1
    OBVIOUS
  <2>3. \/ e \in 1 .. n - 1 /\ CallAt("init", e, j, l)
        \/ e = n /\ CallAt("init", e, j, stack[n].k)
        \/ e = n + 1 /\ Visits(n, j) /\ stack[n].fn \in {"init_libs", "init"}
    OBVIOUS
  <2>4. d \in 1 .. n /\ \E m : CallAt("init", d, i, m)
    BY <1>1, <2>2, <2>3
  <2>5. CASE e # n + 1
    BY <2>3, <2>4, <2>5 DEF Reaching
  <2>6. CASE e = n + 1
    <3>1. Visits(n, j) /\ stack[n].fn \in {"init_libs", "init"}
      BY <1>1, <2>3, <2>6
    <3>2. stack[d].fn = "init" /\ stack[d].i = i
      BY <2>4 DEF CallAt
    <3>3. stack[n].fn = "init"
      <4>1. stack[n].fn = "init_libs" => n = 1 /\ d = 1
        BY <2>4, Bottom
      <4> QED
        BY <3>1, <3>2, <4>1
    <3>4. /\ p \in 1 .. Len(libs) /\ stack[n].k \in 1 .. Needing(p)
          /\ libs[j].path = NeedOf(p, stack[n].k)
      <4>1. stack[n].k \in Nat \ {0} /\ p \in 1 .. Len(libs) /\ Needing(p) \in Nat
        BY TopIs, TopNeeds
      <4> QED
        BY <3>1, <3>3, <4>1 DEF Visits
    <3>5. CASE d = n
      BY <3>2, <3>4, <3>5, Needful
    <3>6. CASE d # n
      <4>1. CallAt("init", n, p, stack[n].k) /\ d < n
        BY <1>1, <2>4, <3>3, <3>6 DEF CallAt
      <4>2. Reaches(libs[i].path, libs[p].path)
        BY <2>4, <4>1 DEF Reaching
      <4> QED
        BY <3>4, <4>2, Needful
    <3> QED
      BY <3>5, <3>6
  <2> QED
    BY <2>5, <2>6
<1>5. Begun'
  <2> SUFFICES ASSUME NEW d, NEW i, NEW k, CallAt("init", d, i, k)',
                      NEW j \in 1 .. Needing(i)', j < k
               PROVE  IsStarted(NeedOf(i, j))'
    BY DEF Begun
  <2>1. i \in 1 .. Len(libs) /\ Needing(i)' = Needing(i) /\ NeedOf(i, j)' = NeedOf(i, j)
    BY <1>3, Lasting
  <2>2. j \in Nat \ {0} /\ stack[n].k \in Nat \ {0} /\ j \in 1 .. Needing(i)
    <3>1. Needing(i) \in Nat
      BY <2>1, NeedTypes
    <3> QED
      BY <2>1, <3>1, TopIs
  <2>3. ASSUME IsStarted(NeedOf(i, j)) PROVE IsStarted(NeedOf(i, j))'
    BY <2>1, <2>3, Lasting
  <2>4. CASE d \in 1 .. n - 1 /\ CallAt("init", d, i, k)
    BY <2>2, <2>3, <2>4 DEF Begun
  <2>5. CASE d = n /\ CallAt("init", d, i, stack[n].k) /\ k = stack[n].k + 1
    <3>1. stack[n].fn = "init" /\ i = stack[n].i
      BY <2>5 DEF CallAt
    <3>2. CASE j < stack[n].k
      BY <2>2, <2>3, <2>5, <3>2 DEF Begun
    <3>3. CASE j = stack[n].k
      BY <2>1, <2>2, <3>1, <3>3
    <3> QED
      BY <2>2, <2>5, <3>2, <3>3
  <2>6. CASE k = 1
    BY <2>2, <2>6
  <2> QED
    BY <2>4, <2>5, <2>6
<1> QED
  BY <1>4, <1>5

\* The constructors that still run are called by calls that stay as they are.
LEMMA CtorOverKept ==
  ASSUME LoaderInv, NEW n, n = Len(stack), Moves(n), UNCHANGED disk, CtorOver,
         stack[n].fn \in {"init_libs", "init"}, Fixed(n - 1), ~Constructs(n),
         Len(stack') \in {n - 1, n, n + 1}
  PROVE  CtorOver'
<1> SUFFICES ASSUME NEW d, NEW i, NEW k, CallAt("ctor", d, i, k)'
             PROVE  \E l : CallAt("init", d - 1, i, l)' /\ l > Needing(i)' + 1
  BY DEF CtorOver
<1>1. CallAt("ctor", d, i, k) /\ i \in 1 .. Len(libs)
  BY CtorsLeft, CallRange
<1>2. PICK l : CallAt("init", d - 1, i, l) /\ l > Needing(i) + 1
  BY <1>1 DEF CtorOver
<1>3. d \in 1 .. n /\ d # n /\ d - 1 \in 1 .. n /\ n \in Nat \ {0}
  BY <1>1, <1>2, Typed DEF CallAt
<1>4. d - 1 \in 1 .. n - 1 /\ d - 1 \in 1 .. Len(stack')
  BY <1>3
<1>5. CallAt("init", d - 1, i, l)'
  BY <1>2, <1>4 DEF CallAt, Fixed
<1> QED
  BY <1>1, <1>2, <1>5, Lasting

LEMMA OrderKept ==
  ASSUME LoaderInv, NEW n, n = Len(stack), Moves(n), UNCHANGED disk, Reaching, Begun, CtorOver
  PROVE  Reaching' /\ Begun' /\ CtorOver'
<1> DEFINE p == stack[n].i
           q == stack[n].k
<1>1. /\ n \in Nat \ {0} /\ Len(libs) \in Nat
      /\ p \in 1 .. Len(libs) /\ q \in Nat \ {0} /\ Needing(p) \in Nat
  BY Typed, TopIs, TopNeeds
<1>2. stack[n].fn = "init" => \A i : p = i => CallAt("init", n, i, q)
  BY <1>1 DEF CallAt
<1>3. CASE /\ ~Constructs(n) /\ \A j \in 1 .. Len(libs) : ~InitCalls(n, j)
           /\ stack[n].fn # "init"
  BY <1>1, <1>3, Uncalled, OrderSame
<1>4. CASE stack[n].fn = "init" /\ InitGoesOn(n)
  <2>1. Turn(n, stack[n].g) /\ UNCHANGED libs
    BY <1>4 DEF InitGoesOn, Quiet
  <2>2. Fixed(n - 1) /\ Len(stack') = n /\ SameCall(n, 1) /\ ~Constructs(n)
    BY <1>1, <2>1, Fixing DEF Turn, Constructs, TurnPush
  <2>3. \A d, i, k : CallAt("init", d, i, k)' =>
               \/ d \in 1 .. n - 1 /\ CallAt("init", d, i, k)
               \/ d = n /\ CallAt("init", d, i, q) /\ k = q + 1
    BY <1>1, <1>2, <1>4, <2>2, TopTurns
  <2>4. IsStarted(NeedOf(p, q))
    BY <1>4 DEF InitGoesOn, Visits, IsStarted
  <2>5. \A r, s : r \in 1 .. Len(libs) /\ IsStarted(NeedOf(r, s)) => IsStarted(NeedOf(r, s))'
    BY Lasting
  <2>6. \A r, s : r = p /\ s = q => IsStarted(NeedOf(r, s))'
    BY <1>1, <2>4, <2>5
  <2>7. Reaching' /\ Begun'
    <3>1. PICK r, s : r = p /\ s = q
      OBVIOUS
    <3>2. IsStarted(NeedOf(r, s))'
      BY <2>6, <3>1
    <3> HIDE DEF p, q
    <3> QED
      BY <2>3, <3>1, <3>2, OrderOn DEF p, q
  <2>8. CtorOver'
    BY <1>4, <2>2, CtorOverKept
  <2> QED
    BY <2>7, <2>8
<1>5. CASE stack[n].fn = "init" /\ Ends(n)
  <2>1. n # 1 /\ Pop(n) /\ q > Needing(p) + 1 /\ ~Constructs(n)
    BY <1>1, <1>5, NotBottom DEF Ends, Constructs
  <2>2. Fixed(n - 1) /\ Len(stack') = n - 1
    BY <2>1, Fixing DEF Pop
  <2>3. \A d, i, k : CallAt("init", d, i, k)' => d \in 1 .. n - 1 /\ CallAt("init", d, i, k)
    BY <1>1, <2>2 DEF CallAt, Fixed
  <2>4. ~(q <= Needing(p))
    BY <1>1, <2>1
  <2>5. Reaching' /\ Begun'
    BY <2>3, <2>4, OrderOn
  <2>6. CtorOver'
    BY <1>5, <2>1, <2>2, CtorOverKept
  <2> QED
    BY <2>5, <2>6
<1>6. ASSUME NEW x \in 1 .. Len(libs), InitCalls(n, x) PROVE Reaching' /\ Begun' /\ CtorOver'
  <2>1. /\ TurnPush(n, "init", x, gen) /\ stack[n].fn \in {"init_libs", "init"} /\ Visits(n, x)
        /\ libs'[x].started /\ Len(libs') = Len(libs) /\ libs'[x].path = libs[x].path
    BY <1>6 DEF InitCalls, MarksOnly, SamePaths
  <2>2. Fixed(n - 1) /\ Len(stack') = n + 1
    BY <2>1, Fixing DEF TurnPush
  <2>3. ~Constructs(n)
    <3>1. stack'[n + 1].fn = "init"
      BY <2>1 DEF TurnPush, New
    <3> QED
      BY <3>1 DEF Constructs, TurnPush, New
  <2>4. \A d, i, k : CallAt("init", d, i, k)' =>
               \/ d \in 1 .. n - 1 /\ CallAt("init", d, i, k)
               \/ d = n /\ stack[n].fn = "init" /\ stack[n].i = i /\ stack[n].k + 1 = k
               \/ d = n + 1 /\ x = i /\ 1 = k
    <3>1. PICK c, g : c = "init" /\ g = gen /\ TurnPush(n, c, x, g)
      BY <2>1
    <3> QED
      BY <3>1, PushCalls
  <2>5. \A d, i, k : CallAt("init", d, i, k)' =>
               \/ d \in 1 .. n - 1 /\ CallAt("init", d, i, k)
               \/ d = n /\ CallAt("init", d, i, q) /\ k = q + 1
               \/ /\ d = n + 1 /\ i \in 1 .. Len(libs) /\ k = 1
                  /\ Visits(n, i) /\ stack[n].fn \in {"init_libs", "init"}
    BY <1>2, <2>1, <2>4
  <2>6. ASSUME NEW r, r = p, NEW s, s = q, stack[n].fn = "init" PROVE IsStarted(NeedOf(r, s))'
    <3>1. libs[x].path = NeedOf(r, s) /\ r \in 1 .. Len(libs)
      BY <1>1, <2>1, <2>6 DEF Visits
    <3>2. NeedOf(r, s)' = NeedOf(r, s)
      BY <3>1, Lasting
    <3>3. libs'[x].path = NeedOf(r, s)' /\ x \in 1 .. Len(libs')
      BY <2>1, <3>1, <3>2
    <3> QED
      BY <2>1, <3>3 DEF IsStarted
  <2>7. Reaching' /\ Begun'
    <3>1. PICK r, s : r = p /\ s = q
      OBVIOUS
    <3>2. stack[n].fn = "init" => IsStarted(NeedOf(r, s))'
      BY <2>6, <3>1
    <3> HIDE DEF p, q
    <3> QED
      BY <2>5, <3>1, <3>2, OrderOn DEF p, q
  <2>8. CtorOver'
    BY <2>1, <2>2, <2>3, CtorOverKept
  <2> QED
    BY <2>7, <2>8
<1>7. CASE Constructs(n)
  <2>1. /\ TurnPush(n, "ctor", p, stack[n].g) /\ stack[n].fn = "init" /\ q = Needing(p) + 1
    BY <1>7 DEF Constructs
  <2>2. Fixed(n - 1) /\ Len(stack') = n + 1
    BY <2>1, Fixing DEF TurnPush
  <2>3. \A fn, d, i, k : CallAt(fn, d, i, k)' <=>
               \/ d \in 1 .. n - 1 /\ CallAt(fn, d, i, k)
               \/ d = n /\ stack[n].fn = fn /\ stack[n].i = i /\ stack[n].k + 1 = k
               \/ d = n + 1 /\ "ctor" = fn /\ p = i /\ 1 = k
    <3>1. PICK c, x, g : c = "ctor" /\ x = p /\ g = stack[n].g /\ TurnPush(n, c, x, g)
      BY <2>1
    <3>2. \A fn, d, i, k : CallAt(fn, d, i, k)' <=>
               \/ d \in 1 .. n - 1 /\ CallAt(fn, d, i, k)
               \/ d = n /\ stack[n].fn = fn /\ stack[n].i = i /\ stack[n].k + 1 = k
               \/ d = n + 1 /\ c = fn /\ x = i /\ 1 = k
      BY <3>1, PushCalls
    <3> QED
      BY ONLY <3>1, <3>2
  <2>4. \A d, i, k : CallAt("init", d, i, k)' =>
               \/ d \in 1 .. n - 1 /\ CallAt("init", d, i, k)
               \/ d = n /\ CallAt("init", d, i, q) /\ k = q + 1
    BY <1>2, <2>1, <2>3
  <2>5. ~(q <= Needing(p))
    BY <1>1, <2>1
  <2>6. Reaching' /\ Begun'
    BY <2>4, <2>5, OrderOn
  <2>7. CtorOver'
    <3> SUFFICES ASSUME NEW d, NEW i, NEW k, CallAt("ctor", d, i, k)'
                 PROVE  \E l : CallAt("init", d - 1, i, l)' /\ l > Needing(i)' + 1
      BY DEF CtorOver
    <3>1. CASE d \in 1 .. n - 1 /\ CallAt("ctor", d, i, k)
      <4>1. PICK l : CallAt("init", d - 1, i, l) /\ l > Needing(i) + 1
        BY <3>1 DEF CtorOver
      <4>2. d - 1 \in 1 .. n /\ i \in 1 .. Len(libs)
        BY <1>1, <4>1, CallRange
      <4>3. d - 1 \in 1 .. n - 1
        BY <1>1, <3>1, <4>2
      <4>4. CallAt("init", d - 1, i, l)'
        BY <2>3, <4>1, <4>3
      <4> QED
        BY <4>1, <4>2, <4>4, Lasting
    <3>2. CASE d = n + 1 /\ p = i
      <4>1. PICK l : l = q + 1 /\ d - 1 = n /\ l > Needing(i) + 1
        BY <1>1, <2>1, <3>2
      <4>2. CallAt("init", d - 1, i, l)'
        BY <2>1, <2>3, <3>2, <4>1
      <4>3. i \in 1 .. Len(libs)
        BY <1>1, <3>2
      <4> QED
        BY <4>1, <4>2, <4>3, Lasting
    <3> QED
      BY <2>1, <2>3, <3>1, <3>2
  <2> QED
    BY <2>6, <2>7
<1>8. stack[n].fn = "init" =>
        InitGoesOn(n) \/ Ends(n) \/ Constructs(n) \/ Stays \/ \E x \in 1 .. Len(libs) : InitCalls(n, x)
  BY DEF Moves, LoadFinds, LoadAdds, LoadEnds, StartEnds, MainStarts, Destructs, Exits, OpenFinds,
    OpenAdds, OpenEnds, User
<1>9. CASE Stays
  <2>1. \A d, i, k : CallAt("init", d, i, k)' <=> CallAt("init", d, i, k)
    BY <1>9 DEF Stays, CallAt
  <2>2. ~Constructs(n)
    BY <1>1, <1>9 DEF Stays, Constructs, TurnPush
  <2> QED
    BY <2>1, <2>2, OrderSame
<1> QED
  BY <1>3, <1>4, <1>5, <1>6, <1>7, <1>8, <1>9 DEF Constructs

LEMMA OrderHolds == LSpec => []OrderInv
<1>1. LInit => OrderInv
  <2> SUFFICES ASSUME LInit PROVE OrderInv
    OBVIOUS
  <2>1. OnceInv
    BY OnceInit
  <2>2. PICK s, t : stack = <<s, t>> /\ s.fn = "start" /\ t.fn = "load"
    BY DEF LInit, Frame
  <2>3. Len(stack) = 2 /\ stack[1].fn = "start" /\ stack[2].fn = "load"
    BY <2>2
  <2>4. \A d, i, k : ~CallAt("init", d, i, k) /\ ~CallAt("ctor", d, i, k)
    <3>1. \A d \in 1 .. 2 : d = 1 \/ d = 2
      OBVIOUS
    <3> QED
      BY ONLY <2>3, <3>1 DEF CallAt
  <2> QED
    BY <2>1, <2>4 DEF OrderInv, Reaching, Begun, CtorOver
<1>2. OrderInv /\ [LNext]_vars => OrderInv'
  <2> SUFFICES ASSUME OrderInv, [LNext]_vars PROVE OrderInv'
    OBVIOUS
  <2>1. PICK n : n = Len(stack)
    OBVIOUS
  <2>2. OnceInv /\ LoaderInv /\ Reaching /\ Begun /\ CtorOver
    BY DEF OrderInv, OnceInv
  <2>3. Moves(n) /\ UNCHANGED disk
    <3>1. Vector' /\ Moves(n)
      BY <2>1, <2>2, Stepping
    <3>2. Len(libs) <= Len(libs') /\ gen <= gen'
      BY <2>2, <3>1, VectorGrows
    <3> QED
      BY <2>2, <3>1, <3>2, ScalarsKept
  <2>4. Reaching' /\ Begun' /\ CtorOver'
    BY <2>1, <2>2, <2>3, OrderKept
  <2>5. OnceInv'
    BY <2>2, OnceStep
  <2> QED
    BY <2>4, <2>5 DEF OrderInv
<1> QED
  BY <1>1, <1>2, PTL DEF LSpec

\* A library's constructor finds everything it needs constructed, but for what
\* depends on it in turn, whatever the dependencies and whatever constructors
\* open meanwhile (load_elf.c:910-937).
THEOREM ConstructedInOrder == LSpec => []DependenciesFirst
<1>1. ASSUME OrderInv PROVE DependenciesFirst
  <2> SUFFICES ASSUME InFrame("ctor"), NEW f \in Needs(Self), ~(libs[IndexOf(f)].inits > 0)
               PROVE  Self \in Dependencies(f)
    BY DEF DependenciesFirst
  <2>1. PICK n : n = Len(stack)
    OBVIOUS
  <2>2. LoaderInv /\ Initialised /\ Reaching /\ Begun /\ CtorOver
    BY <1>1 DEF OrderInv, OnceInv
  <2> DEFINE p == stack[n].i
  <2>3. /\ n \in Nat \ {0} /\ p \in 1 .. Len(libs) /\ Self = libs[p].path
        /\ CallAt("ctor", n, p, stack[n].k)
    BY <2>1, <2>2, TopIs DEF InFrame, Self, CallAt
  <2>4. PICK l : CallAt("init", n - 1, p, l) /\ l > Needing(p) + 1
    BY <2>2, <2>3 DEF CtorOver
  <2>5. PICK j \in 1 .. Needing(p) : f = NeedOf(p, j)
    <3>1. DOMAIN Needed(libs[p].path) = 1 .. Needing(p)
      <4>1. libs[p] \in LibSet
        BY <2>2, <2>3, ElementOfSeq DEF LoaderInv, Vector
      <4>2. libs[p].path \in Libs /\ disk \in [Libs -> [needed : Seq(Libs), soname : BOOLEAN]]
        BY <2>2, <4>1, FieldsOfLib, LoaderAssumption DEF LoaderInv, Scalars
      <4> QED
        BY <4>2, LenProperties DEF Needed, Needing
    <3> QED
      BY <2>3, <3>1 DEF Needs, Needed, NeedOf
  <2>6. IsStarted(f)
    <3>1. j < l
      BY <2>2, <2>3, <2>4, <2>5, NeedTypes, CallRange
    <3> QED
      BY <2>2, <2>4, <2>5, <3>1 DEF Begun
  <2>7. PICK m \in 1 .. Len(libs) : libs[m].path = f /\ libs[m].started
    BY <2>6 DEF IsStarted
  <2>8. IndexOf(f) = m
    <3>1. IndexOf(f) \in 1 .. Len(libs) /\ libs[IndexOf(f)].path = f
      BY <2>2, <2>7, LoadedIs DEF IsLoaded
    <3> QED
      BY <2>2, <2>7, <3>1 DEF LoaderInv, Distinct
  <2>9. libs[m].inits = 0 /\ Counted(m) /\ Counted(p)
    BY <2>2, <2>3, <2>8 DEF Initialised, Counted
  <2>10. PICK d, k : CallAt("init", d, m, k)
    BY <2>7, <2>9 DEF Counted
  <2>11. m # p
    BY <2>2, <2>4, <2>9, CallRange, NeedTypes DEF Counted
  <2>12. d \in 1 .. n /\ d # n /\ d # n - 1
    BY <2>1, <2>3, <2>4, <2>10, <2>11 DEF CallAt
  <2>13. d < n - 1
    BY <2>3, <2>12
  <2>14. Reaches(f, Self)
    BY <2>2, <2>3, <2>4, <2>7, <2>10, <2>13 DEF Reaching
  <2>15. Self \in Libs
    <3>1. libs[p] \in LibSet
      BY <2>2, <2>3, ElementOfSeq DEF LoaderInv, Vector
    <3> QED
      BY <2>3, <3>1, FieldsOfLib
  <2> QED
    BY <2>14, <2>15 DEF Dependencies, Reaches
<1> QED
  BY <1>1, OrderHolds, PTL
=============================================================================
