----------------------------- MODULE TextProofs -----------------------------
(***************************************************************************)
(* Theorems about the algorithms on data in Text: how a symbol is bound,   *)
(* which file a path names, which number a string is, and what qsort and   *)
(* bsearch make of an array.  All are loops, of any length: what is said   *)
(* of every round is proved by induction over the rounds.                  *)
(***************************************************************************)
EXTENDS Text, SequenceTheorems, WellFoundedInduction, TLAPS

(* Induction and recursion *)

\* A set of naturals that is not empty has a least member.
LEMMA Least ==
  ASSUME NEW T \in SUBSET Nat, T # {}
  PROVE  \E n \in T : \A m \in T : n <= m
<1> DEFINE R == {ss \in Nat \X Nat : ss[1] < ss[2]}
<1>1. IsWellFoundedOn(R, Nat)
  BY NatLessThanWellFounded DEF OpToRel
<1>2. \A m, n \in Nat : <<m, n>> \in R <=> m < n
  OBVIOUS
<1> HIDE DEF R
<1>3. PICK n \in T : \A m \in T : ~ (<<m, n>> \in R)
  BY <1>1, WFMin
<1>4. ASSUME NEW m \in T PROVE n <= m
  <2>1. m \in Nat /\ n \in Nat
    OBVIOUS
  <2>2. ~ (<<m, n>> \in R)
    BY <1>3
  <2>3. <<m, n>> \in R <=> m < n
    BY <1>2, <2>1
  <2> QED
    BY ONLY <2>1, <2>2, <2>3
<1> QED
  BY <1>4

\* Induction over the naturals: a counterexample would have a least one.
LEMMA SetInduction ==
  ASSUME NEW S, 0 \in S, \A n \in Nat : n \in S => n + 1 \in S
  PROVE  Nat \subseteq S
<1> SUFFICES ASSUME Nat \ S # {} PROVE FALSE
  OBVIOUS
<1>1. PICK n \in Nat \ S : \A m \in Nat \ S : n <= m
  BY Least
<1>2. n # 0 /\ n - 1 \in Nat
  BY <1>1
<1>3. n - 1 \in S
  BY <1>1, <1>2
<1> QED
  BY <1>1, <1>2, <1>3

\* The states g of a loop of N rounds.
Rounds(g, N, S, init, step) ==
  g \in [0 .. N -> S] /\ g[0] = init /\ \A n \in 1 .. N : g[n] = step[n][g[n - 1]]

\* Every loop has them: a function can be defined by recursion.
LEMMA Recursion ==
  ASSUME NEW S, NEW init \in S, NEW N \in Nat, NEW step \in [1 .. N -> [S -> S]]
  PROVE  \E g : Rounds(g, N, S, init, step)
<1> DEFINE Starts(g, n) == g[0] = init /\ \A k \in 1 .. n : g[k] = step[k][g[k - 1]]
           G == {n \in Nat : n <= N => \E g \in [0 .. n -> S] : Starts(g, n)}
<1>1. 0 \in G
  <2> DEFINE h == [k \in 0 .. 0 |-> init]
  <2>1. h \in [0 .. 0 -> S] /\ Starts(h, 0)
    OBVIOUS
  <2> HIDE DEF h
  <2> QED
    BY <2>1
<1>2. ASSUME NEW n \in Nat, n \in G PROVE n + 1 \in G
  <2> SUFFICES ASSUME n + 1 <= N PROVE \E g \in [0 .. n + 1 -> S] : Starts(g, n + 1)
    OBVIOUS
  <2>1. PICK g \in [0 .. n -> S] : Starts(g, n)
    BY <1>2
  <2> DEFINE h == [k \in 0 .. n + 1 |-> IF k = n + 1 THEN step[n + 1][g[n]] ELSE g[k]]
  <2>2. step[n + 1][g[n]] \in S
    <3>1. n + 1 \in 1 .. N /\ g[n] \in S
      BY <2>1
    <3>2. step[n + 1] \in [S -> S]
      BY <3>1
    <3> QED BY <3>1, <3>2
  <2>3. h \in [0 .. n + 1 -> S]
    BY <2>2
  <2>4. h[0] = init
    BY <2>1
  <2>5. ASSUME NEW k \in 1 .. n + 1 PROVE h[k] = step[k][h[k - 1]]
    <3>1. CASE k = n + 1
      <4>1. h[k - 1] = g[n] /\ h[k] = step[n + 1][g[n]]
        BY <3>1
      <4> QED BY <3>1, <4>1
    <3>2. CASE k \in 1 .. n
      <4>1. h[k - 1] = g[k - 1] /\ h[k] = g[k]
        BY <3>2
      <4> QED BY <2>1, <3>2, <4>1
    <3> QED BY <3>1, <3>2
  <2> HIDE DEF h
  <2>6. Starts(h, n + 1)
    BY <2>4, <2>5
  <2> QED
    BY <2>3, <2>6
<1>3. Nat \subseteq G
  <2> HIDE DEF G
  <2> QED BY <1>1, <1>2, SetInduction
<1>4. PICK g \in [0 .. N -> S] : Starts(g, N)
  BY <1>3
<1> QED
  BY <1>4 DEF Rounds

\* Max of FiniteSetsExt is the greatest member of a bounded set.
LEMMA Greatest ==
  ASSUME NEW N \in Nat, NEW T \in SUBSET (0 .. N), T # {}
  PROVE  Max(T) \in T /\ \A n \in T : n <= Max(T)
<1> DEFINE U == {n \in Nat : N - n \in T}
<1>1. U # {}
  <2>1. PICK t \in T : TRUE
    OBVIOUS
  <2>2. N - t \in Nat /\ N - (N - t) = t
    BY <2>1
  <2> QED BY <2>1, <2>2
<1>2. PICK u \in U : \A m \in U : u <= m
  BY <1>1, Least
<1>3. N - u \in T
  OBVIOUS
<1>4. ASSUME NEW n \in T PROVE n <= N - u
  <2>1. N - n \in U
    <3>1. N - n \in Nat /\ N - (N - n) = n
      OBVIOUS
    <3> QED BY <3>1
  <2>2. u <= N - n
    BY <1>2, <2>1
  <2> QED BY <2>2
<1>5. \E x \in T : \A y \in T : x >= y
  <2>1. \A y \in T : N - u >= y
    BY <1>4
  <2> QED BY <1>3, <2>1
<1>6. Max(T) \in T /\ \A y \in T : Max(T) >= y
  BY <1>5 DEF Max
<1> QED
  BY <1>6

\* Min of FiniteSetsExt is the least member of a set of naturals.
LEMMA Smallest ==
  ASSUME NEW T \in SUBSET Nat, T # {}
  PROVE  Min(T) \in T /\ \A n \in T : Min(T) <= n
<1>1. \E x \in T : \A y \in T : x =< y
  BY Least
<1> QED
  BY <1>1 DEF Min

\* What the 16 bits of lookup's idx leave of an index.
LEMMA Cut ==
  ASSUME NEW d \in Nat, NEW H \in Nat \ {0}
  PROVE  d % H \in 0 .. d /\ (d < H => d % H = d)
<1>1. d % H \in 0 .. H - 1
  OBVIOUS
<1>2. d % H <= d
  OBVIOUS
<1>3. d < H => d % H = d
  OBVIOUS
<1> QED
  BY <1>1, <1>2, <1>3

----------------------------------------------------------------------------
(* Symbols *)

\* The types of what a well-formed symbol table holds.
LEMMA Entries ==
  ASSUME NEW lib, WellFormed(lib)
  PROVE  /\ Len(lib.symtab) \in Nat
         /\ DOMAIN lib.symtab = 1 .. Len(lib.symtab)
         /\ \A e \in 1 .. Len(lib.symtab) : lib.symtab[e].name \in DOMAIN Hash
         /\ lib.nbucket \in Nat
<1>1. lib.symtab \in Seq([name : DOMAIN Hash, version : Nat]) /\ lib.nbucket \in Nat
  BY DEF WellFormed
<1>2. Len(lib.symtab) \in Nat /\ DOMAIN lib.symtab = 1 .. Len(lib.symtab)
  BY <1>1, LenProperties
<1>3. ASSUME NEW e \in 1 .. Len(lib.symtab) PROVE lib.symtab[e].name \in DOMAIN Hash
  <2>1. lib.symtab[e] \in [name : DOMAIN Hash, version : Nat]
    BY <1>1, ElementOfSeq
  <2> QED BY <2>1
<1> QED
  BY <1>1, <1>2, <1>3

\* An entry is in the chain of its name's bucket, and what the chain goes on
\* with is the next entry of the same bucket below it.
LEMMA BucketsAndChains ==
  ASSUME SymbolsAssumption, NEW lib, WellFormed(lib), lib.nbucket # 0,
         NEW h \in Nat, NEW below \in 1 .. Len(lib.symtab) + 1, NEW c,
         c = Max({0} \cup InBucket(lib, h, below))
  PROVE  /\ c \in 0 .. below - 1
         /\ c # 0 => Hash[lib.symtab[c].name] % lib.nbucket = h
         /\ \A e \in 1 .. below - 1 : Hash[lib.symtab[e].name] % lib.nbucket = h => e <= c
<1> DEFINE T == {0} \cup InBucket(lib, h, below)
<1>1. DOMAIN lib.symtab = 1 .. Len(lib.symtab) /\ Len(lib.symtab) \in Nat
  BY DEF WellFormed
<1>2. T \in SUBSET (0 .. below - 1)
  BY <1>1 DEF InBucket
<1>3. c \in T /\ \A n \in T : n <= c
  <2>1. below - 1 \in Nat /\ T # {}
    BY <1>1
  <2> HIDE DEF T
  <2>2. Max(T) \in T /\ \A n \in T : n <= Max(T)
    BY <1>2, <2>1, Greatest
  <2> QED BY <2>2 DEF T
<1>4. c \in 0 .. below - 1
  BY <1>2, <1>3
<1>5. c # 0 => c \in InBucket(lib, h, below)
  BY <1>3
<1>6. c # 0 => Hash[lib.symtab[c].name] % lib.nbucket = h
  BY <1>5 DEF InBucket
<1>7. ASSUME NEW e \in 1 .. below - 1, Hash[lib.symtab[e].name] % lib.nbucket = h
      PROVE  e <= c
  <2>1. e \in InBucket(lib, h, below)
    BY <1>1, <1>7 DEF InBucket
  <2> QED BY <1>3, <2>1
<1> QED
  BY <1>4, <1>6, <1>7

\* How lookup goes on from an index it has not stopped at, or stays.
Onward(name, lib, c) ==
  IF c = 0 \/ lib.symtab[c].name = name THEN c ELSE Chain(lib, c) % HalfSize

\* Where lookup is after n steps: each step went down, and as long as no
\* index was cut nothing of the name is above.
Walk(name, lib, n, c) ==
  /\ c \in 0 .. Len(lib.symtab)
  /\ c = 0 \/ lib.symtab[c].name = name \/ c <= Len(lib.symtab) - n
  /\ Len(lib.symtab) < HalfSize =>
       /\ c # 0 => Hash[lib.symtab[c].name] % lib.nbucket = Hash[name] % lib.nbucket
       /\ \A e \in DOMAIN lib.symtab : lib.symtab[e].name = name => e <= c

\* lookup begins at the bucket of the name, above which there is none of it.
LEMMA WalkBegins ==
  ASSUME SymbolsAssumption, NEW lib, WellFormed(lib), lib.nbucket # 0, NEW name \in DOMAIN Hash
  PROVE  Walk(name, lib, 0, Bucket(lib, Hash[name] % lib.nbucket) % HalfSize)
<1> DEFINE N == Len(lib.symtab)
           h == Hash[name] % lib.nbucket
           b == Bucket(lib, h)
<1>1. /\ DOMAIN lib.symtab = 1 .. N /\ N \in Nat /\ lib.nbucket \in Nat \ {0}
      /\ \A e \in 1 .. N : lib.symtab[e].name \in DOMAIN Hash
  BY Entries
<1>2. h \in Nat
  BY <1>1 DEF SymbolsAssumption
<1> HIDE DEF h
<1>3. /\ b \in 0 .. N
      /\ b # 0 => Hash[lib.symtab[b].name] % lib.nbucket = h
      /\ \A e \in 1 .. N : Hash[lib.symtab[e].name] % lib.nbucket = h => e <= b
  <2>1. b = Max({0} \cup InBucket(lib, h, N + 1))
    BY DEF Bucket
  <2>2. N + 1 \in 1 .. N + 1 /\ N + 1 - 1 = N
    BY <1>1
  <2> DEFINE below == N + 1
  <2>3. below \in 1 .. Len(lib.symtab) + 1 /\ below - 1 = N
    BY <2>2
  <2>4. b = Max({0} \cup InBucket(lib, h, below))
    BY <2>1
  <2> HIDE DEF b, below
  <2>5. /\ b \in 0 .. below - 1
        /\ b # 0 => Hash[lib.symtab[b].name] % lib.nbucket = h
        /\ \A e \in 1 .. below - 1 : Hash[lib.symtab[e].name] % lib.nbucket = h => e <= b
    BY <1>2, <2>3, <2>4, BucketsAndChains
  <2> QED BY <2>3, <2>5
<1> HIDE DEF b
<1>4. HalfSize \in Nat \ {0}
  BY DEF SymbolsAssumption
<1>5. b % HalfSize \in 0 .. b /\ (N < HalfSize => b % HalfSize = b)
  <2>1. b \in Nat /\ (N < HalfSize => b < HalfSize)
    BY <1>1, <1>3, <1>4
  <2> QED BY <1>4, <2>1, Cut
<1>6. \A e \in 1 .. N : lib.symtab[e].name = name => Hash[lib.symtab[e].name] % lib.nbucket = h
  BY DEF h
<1>7. ASSUME N < HalfSize
      PROVE  /\ b # 0 => Hash[lib.symtab[b].name] % lib.nbucket = Hash[name] % lib.nbucket
             /\ \A e \in DOMAIN lib.symtab : lib.symtab[e].name = name => e <= b
  BY <1>1, <1>3, <1>6 DEF h
<1>8. b % HalfSize \in 0 .. N /\ b % HalfSize <= N - 0
  BY <1>1, <1>3, <1>5
<1>9. Walk(name, lib, 0, b % HalfSize)
  BY <1>5, <1>7, <1>8 DEF Walk
<1> QED
  BY <1>9 DEF b, h

\* Each step of lookup goes down and passes no entry of the name.
LEMMA WalkGoesOn ==
  ASSUME SymbolsAssumption, NEW lib, WellFormed(lib), lib.nbucket # 0, NEW name \in DOMAIN Hash,
         NEW n \in Nat, NEW c, Walk(name, lib, n, c)
  PROVE  Walk(name, lib, n + 1, Onward(name, lib, c))
<1> DEFINE N == Len(lib.symtab)
           d == Chain(lib, c)
<1>1. /\ DOMAIN lib.symtab = 1 .. N /\ N \in Nat /\ lib.nbucket \in Nat \ {0}
      /\ \A e \in 1 .. N : lib.symtab[e].name \in DOMAIN Hash
  BY Entries
<1>2. CASE c = 0 \/ lib.symtab[c].name = name
  BY <1>1, <1>2 DEF Walk, Onward
<1>3. CASE ~ (c = 0 \/ lib.symtab[c].name = name)
  <2> DEFINE h == Hash[lib.symtab[c].name] % lib.nbucket
  <2>1. c \in 1 .. N /\ c <= N - n /\ lib.symtab[c].name # name
    BY <1>1, <1>3 DEF Walk
  <2>2. h \in Nat
    <3>1. Hash[lib.symtab[c].name] \in Nat
      BY <1>1, <2>1 DEF SymbolsAssumption
    <3> QED BY <1>1, <3>1
  <2>3. d = Max({0} \cup InBucket(lib, h, c))
    BY DEF Chain
  <2> HIDE DEF d, h
  <2>4. /\ d \in 0 .. c - 1
        /\ d # 0 => Hash[lib.symtab[d].name] % lib.nbucket = h
        /\ \A e \in 1 .. c - 1 : Hash[lib.symtab[e].name] % lib.nbucket = h => e <= d
    <3>1. c \in 1 .. Len(lib.symtab) + 1
      BY <1>1, <2>1
    <3> QED BY <2>2, <2>3, <3>1, BucketsAndChains
  <2>5. HalfSize \in Nat \ {0}
    BY DEF SymbolsAssumption
  <2>6. d % HalfSize \in 0 .. d /\ (N < HalfSize => d % HalfSize = d)
    <3>1. d \in Nat /\ (N < HalfSize => d < HalfSize)
      BY <1>1, <2>1, <2>4, <2>5
    <3> QED BY <2>5, <3>1, Cut
  <2>7. Onward(name, lib, c) = d % HalfSize
    BY <1>3 DEF Onward, d
  <2>8. ASSUME N < HalfSize
        PROVE  /\ d # 0 => Hash[lib.symtab[d].name] % lib.nbucket = Hash[name] % lib.nbucket
               /\ \A e \in DOMAIN lib.symtab : lib.symtab[e].name = name => e <= d
    <3>1. h = Hash[name] % lib.nbucket
      BY <2>1, <2>8 DEF Walk, h
    <3>2. ASSUME NEW e \in DOMAIN lib.symtab, lib.symtab[e].name = name
          PROVE  e <= d
      <4>1. e <= c /\ e # c
        BY <2>1, <2>8, <3>2 DEF Walk
      <4>2. e \in 1 .. c - 1
        BY <1>1, <2>1, <4>1
      <4>3. Hash[lib.symtab[e].name] % lib.nbucket = h
        BY <3>1, <3>2
      <4> QED BY <2>4, <4>2, <4>3
    <3> QED BY <2>4, <3>1, <3>2
  <2>9. d % HalfSize \in 0 .. N /\ d % HalfSize <= N - (n + 1)
    BY <1>1, <2>1, <2>4, <2>6
  <2> QED
    BY <2>6, <2>7, <2>8, <2>9 DEF Walk
<1> QED
  BY <1>2, <1>3

\* lookup finds nothing but entries of the name, and finds one if there is one
\* and no index is cut.
LEMMA LookupFinds ==
  ASSUME SymbolsAssumption, NEW lib, WellFormed(lib), lib.nbucket # 0, NEW name \in DOMAIN Hash
  PROVE  /\ Lookup(name, lib) # NotFound =>
              Lookup(name, lib) \in DOMAIN lib.symtab /\ lib.symtab[Lookup(name, lib)].name = name
         /\ Len(lib.symtab) < HalfSize /\ (\E e \in DOMAIN lib.symtab : lib.symtab[e].name = name)
              => Lookup(name, lib) # NotFound
<1> DEFINE N == Len(lib.symtab)
           begin == Bucket(lib, Hash[name] % lib.nbucket) % HalfSize
           C == {c \in 0 .. N : \E n \in Nat : Walk(name, lib, n, c)}
           step == [n \in 1 .. N |-> [c \in C |-> Onward(name, lib, c)]]
           A(g) == [n \in 0 .. N |-> IF n = 0 THEN begin ELSE Onward(name, lib, g[n - 1])]
           at == CHOOSE g : g = A(g)
<1>1. N \in Nat /\ DOMAIN lib.symtab = 1 .. N
  BY Entries
<1>2. begin \in C
  <2>1. Walk(name, lib, 0, begin)
    BY WalkBegins
  <2> QED BY <2>1 DEF Walk
<1>3. step \in [1 .. N -> [C -> C]]
  <2> SUFFICES ASSUME NEW c \in C PROVE Onward(name, lib, c) \in C
    OBVIOUS
  <2>1. PICK n \in Nat : Walk(name, lib, n, c)
    OBVIOUS
  <2>2. Walk(name, lib, n + 1, Onward(name, lib, c))
    BY <2>1, WalkGoesOn
  <2> QED BY <2>2 DEF Walk
<1> HIDE DEF C, step
<1>4. PICK g \in [0 .. N -> C] : g[0] = begin /\ \A n \in 1 .. N : g[n] = step[n][g[n - 1]]
  <2> HIDE DEF begin
  <2>1. PICK g : Rounds(g, N, C, begin, step)
    BY <1>1, <1>2, <1>3, Recursion
  <2> QED BY <2>1 DEF Rounds
<1>5. g = A(g)
  <2> DEFINE E(n) == IF n = 0 THEN begin ELSE Onward(name, lib, g[n - 1])
  <2>1. ASSUME NEW n \in 1 .. N PROVE g[n] = E(n)
    <3>1. n - 1 \in 0 .. N /\ n # 0
      BY <1>1
    <3>2. g[n - 1] \in C
      BY <1>4, <3>1
    <3>3. step[n][g[n - 1]] = Onward(name, lib, g[n - 1])
      BY <3>2 DEF step
    <3> HIDE DEF begin
    <3> QED BY <1>4, <3>1, <3>3
  <2>2. \A n \in 0 .. N : g[n] = E(n)
    <3> HIDE DEF begin
    <3>1. g[0] = E(0)
      BY <1>4
    <3> HIDE DEF E
    <3> QED BY <1>1, <2>1, <3>1
  <2> HIDE DEF E
  <2>3. g = [n \in 0 .. N |-> E(n)]
    BY <2>2
  <2> QED BY <2>3 DEF E
<1>6. at = A(at)
  <2> HIDE DEF A
  <2> QED BY <1>5
<1> HIDE DEF at
<1>7. \A n \in 0 .. N : at[n] = IF n = 0 THEN begin ELSE Onward(name, lib, at[n - 1])
  <2> DEFINE E(n) == IF n = 0 THEN begin ELSE Onward(name, lib, at[n - 1])
  <2>1. at = [n \in 0 .. N |-> E(n)]
    BY <1>6
  <2> HIDE DEF E
  <2>2. \A n \in 0 .. N : at[n] = E(n)
    BY <2>1
  <2> QED BY <2>2 DEF E
<1> DEFINE I == {n \in Nat : n <= N => Walk(name, lib, n, at[n])}
<1>8. 0 \in I
  <2>1. at[0] = begin
    <3> HIDE DEF begin
    <3> QED BY <1>1, <1>7
  <2> QED BY <2>1, WalkBegins
<1>9. ASSUME NEW n \in Nat, n \in I PROVE n + 1 \in I
  <2> SUFFICES ASSUME n + 1 <= N PROVE Walk(name, lib, n + 1, at[n + 1])
    OBVIOUS
  <2>1. Walk(name, lib, n, at[n])
    BY <1>1, <1>9
  <2>2. n + 1 \in 0 .. N /\ n + 1 # 0 /\ n + 1 - 1 = n
    BY <1>1
  <2> DEFINE m == n + 1
  <2>3. m \in 0 .. N /\ m # 0 /\ m - 1 = n
    BY <2>2
  <2> HIDE DEF m, begin
  <2>4. at[m] = Onward(name, lib, at[n])
    BY ONLY <1>7, <2>3
  <2>5. at[n + 1] = Onward(name, lib, at[n])
    BY <2>4 DEF m
  <2> QED BY <2>1, <2>5, WalkGoesOn
<1>10. Walk(name, lib, N, at[N])
  <2> HIDE DEF I
  <2>1. N \in I
    BY <1>1, <1>8, <1>9, SetInduction
  <2> QED BY <1>1, <2>1 DEF I
<1>11. Lookup(name, lib) = IF at[N] = 0 THEN NotFound ELSE at[N]
  BY DEF Lookup, at, Onward
<1>12. at[N] \in 0 .. N /\ (at[N] = 0 \/ lib.symtab[at[N]].name = name)
  BY <1>1, <1>10 DEF Walk
<1>13. N < HalfSize => \A e \in DOMAIN lib.symtab : lib.symtab[e].name = name => e <= at[N]
  BY <1>10 DEF Walk
<1>14. NotFound \notin Nat
  BY DEF NotFound
<1> QED
  BY <1>1, <1>11, <1>12, <1>13, <1>14

\* A version is of one file, so that verneedstr, which takes the first it
\* finds, takes the only one.
LEMMA OneProvider ==
  ASSUME SymbolsAssumption, NEW lib, WellFormed(lib), NEW sym \in DOMAIN lib.symtab
  PROVE  /\ Providers(sym, lib) = {SymbolFile(sym, lib)}
         /\ VerneedStr(sym, lib) \in Sonames \cup {NoSoname}
         /\ VerneedStr(sym, lib) = NoSoname => SymbolFile(sym, lib) = lib.soname
<1> DEFINE version == lib.symtab[sym].version
           Of(v) == version \in Range(lib.verneed[v].versions)
           with == {v \in DOMAIN lib.verneed : Of(v)}
           needs == {v \in ToSet(lib.verneed) : version \in ToSet(v.versions)}
<1>1. /\ DOMAIN lib.verneed \in SUBSET Nat
      /\ \A v \in DOMAIN lib.verneed : lib.verneed[v].file \in Sonames
      /\ \A v, w \in DOMAIN lib.verneed :
           Range(lib.verneed[v].versions) \cap Range(lib.verneed[w].versions) # {} => v = w
  <2>1. lib.verneed \in Seq([file : Sonames, versions : Seq(Nat)])
    BY DEF WellFormed
  <2>2. DOMAIN lib.verneed = 1 .. Len(lib.verneed) /\ Len(lib.verneed) \in Nat
    BY <2>1, LenProperties
  <2>3. ASSUME NEW v \in DOMAIN lib.verneed PROVE lib.verneed[v].file \in Sonames
    <3>1. lib.verneed[v] \in [file : Sonames, versions : Seq(Nat)]
      BY <2>1, <2>2, ElementOfSeq
    <3> QED BY <3>1
  <2>4. \A v, w \in DOMAIN lib.verneed :
           Range(lib.verneed[v].versions) \cap Range(lib.verneed[w].versions) # {} => v = w
    BY DEF WellFormed
  <2>5. DOMAIN lib.verneed \in SUBSET Nat
    BY ONLY <2>2
  <2> QED BY ONLY <2>3, <2>4, <2>5
<1>2. VerneedStr(sym, lib) = IF with = {} THEN NoSoname ELSE lib.verneed[Min(with)].file
  BY DEF VerneedStr
<1>3. Providers(sym, lib) = IF needs = {} THEN {lib.soname} ELSE {v.file : v \in needs}
  BY DEF Providers
<1>4. needs = {lib.verneed[v] : v \in with}
  BY DEF ToSet, Range
<1> HIDE DEF needs, Of, version
<1>5. CASE with = {}
  BY <1>2, <1>3, <1>4, <1>5 DEF SymbolFile
<1>6. CASE with # {}
  <2>1. Min(with) \in with
    BY <1>1, <1>6, Smallest
  <2>2. \A v \in with : v = Min(with)
    BY <1>1, <2>1 DEF Of
  <2>3. with = {Min(with)}
    BY <2>1, <2>2
  <2> DEFINE first == Min(with)
  <2> HIDE DEF with
  <2>4. needs = {lib.verneed[first]}
    BY <1>4, <2>3
  <2>5. Providers(sym, lib) = {lib.verneed[first].file}
    BY <1>3, <2>4
  <2>6. VerneedStr(sym, lib) = lib.verneed[first].file
    BY <1>2, <1>6
  <2>7. lib.verneed[first].file \in Sonames
    BY <1>1, <2>1 DEF with
  <2>8. VerneedStr(sym, lib) # NoSoname
    BY <2>6, <2>7 DEF SymbolsAssumption
  <2> QED BY <2>5, <2>6, <2>7, <2>8 DEF SymbolFile
<1> QED
  BY <1>5, <1>6

\* A relocation of a symbol is bound to an entry of its name in a library that
\* may provide it, if there is one.
LEMMA RelocationBound ==
  ASSUME SymbolsAssumption, NEW libs, NEW k \in DOMAIN libs, NEW rela,
         \A i \in DOMAIN libs : WellFormed(libs[i]),
         \A i, j \in DOMAIN libs : libs[i].soname = libs[j].soname => i = j \/ libs[i].soname = NoSoname,
         rela.type = "symbol", rela.sym \in DOMAIN libs[k].symtab
  PROVE  BoundRight(libs, k, rela)
<1> DEFINE lib == libs[k]
           sym == rela.sym
           name == lib.symtab[sym].name
           file == SymbolFile(sym, lib)
           to == FindSymbol(rela, k, libs)
           hits == {i \in DOMAIN libs : libs[i].soname = file}
<1>1. name \in DOMAIN Hash
  <2>1. WellFormed(lib)
    OBVIOUS
  <2> QED BY <2>1, Entries
<1>2. /\ Providers(sym, lib) = {file}
      /\ VerneedStr(sym, lib) \in Sonames \cup {NoSoname}
      /\ VerneedStr(sym, lib) = NoSoname => file = lib.soname
      /\ VerneedStr(sym, lib) # NoSoname => file = VerneedStr(sym, lib)
  BY OneProvider DEF SymbolFile
<1>3. to = BySymbol(sym, k, libs)
  BY DEF FindSymbol
<1>4. lib.soname \in (Sonames \ {Xload}) \cup {NoSoname}
  BY DEF WellFormed
<1>5. Xload \in Sonames /\ NoSoname \notin Sonames
  BY DEF SymbolsAssumption
<1>6. to = IF VerneedStr(sym, lib) = Xload
             THEN IF name \in Exports THEN OfLoader(name) ELSE Unbound
           ELSE IF file = NoSoname THEN Unbound
           ELSE InFile(file, name, libs)
  BY <1>3 DEF BySymbol
<1>7. BoundRight(libs, k, rela) <=>
        /\ to.kind = "address" =>
             /\ libs[to.lib].soname \in {file}
             /\ libs[to.lib].nbucket # 0 => libs[to.lib].symtab[to.idx].name = name
        /\ to.kind = "loader" => {file} = {Xload} /\ to.name = name
        /\ to = Unbound => \/ {file} \cap {Xload, NoSoname} # {}
                           \/ \A i \in DOMAIN libs : libs[i].soname \notin {file}
        /\ \A i \in DOMAIN libs :
             /\ \A j \in DOMAIN libs : libs[j].soname # NoSoname
             /\ libs[i].soname \in {file} /\ Xload \notin {file}
             /\ Len(libs[i].symtab) < HalfSize
             /\ \E e \in DOMAIN libs[i].symtab : libs[i].symtab[e].name = name
             => to.kind = "address" /\ to.lib = i
        /\ {file} = {Xload} /\ name \in Exports => to = OfLoader(name)
  <2> HIDE DEF file
  <2> QED BY <1>2 DEF BoundRight
<1> HIDE DEF to, file, name, sym, lib
<1>8. CASE VerneedStr(sym, lib) = Xload
  <2>1. file = Xload
    BY <1>2, <1>5, <1>8
  <2>2. to = IF name \in Exports THEN OfLoader(name) ELSE Unbound
    BY <1>6, <1>8
  <2> QED BY <1>7, <2>1, <2>2 DEF OfLoader, Unbound
<1>9. CASE VerneedStr(sym, lib) # Xload /\ file = NoSoname
  <2>1. to = Unbound
    BY <1>6, <1>9
  <2> QED BY <1>5, <1>7, <1>9, <2>1 DEF Unbound
<1>10. CASE VerneedStr(sym, lib) # Xload /\ file # NoSoname
  <2>1. to = InFile(file, name, libs)
    BY <1>6, <1>10
  <2>2. file # Xload
    BY <1>2, <1>4, <1>5, <1>10
  <2>3. to = IF \E i \in DOMAIN libs : libs[i].soname = NoSoname THEN Fault
             ELSE IF \E i \in hits : Lookup(name, libs[i]) = NotFound THEN Fault
             ELSE IF hits = {} THEN Unbound
             ELSE Address(Max(hits), Lookup(name, libs[Max(hits)]))
    BY <2>1 DEF InFile
  <2>4. CASE \E i \in DOMAIN libs : libs[i].soname = NoSoname
    <3>1. to = Fault
      BY <2>3, <2>4
    <3> QED BY <1>7, <2>2, <2>4, <3>1 DEF Fault, Unbound
  <2>5. CASE hits = {} /\ ~ \E i \in DOMAIN libs : libs[i].soname = NoSoname
    <3>1. to = Unbound
      BY <2>3, <2>5
    <3> QED BY <1>7, <2>2, <2>5, <3>1 DEF Unbound
  <2>6. CASE hits # {} /\ ~ \E i \in DOMAIN libs : libs[i].soname = NoSoname
    <3>1. PICK i \in DOMAIN libs : hits = {i}
      BY <1>10, <2>6
    <3>2. Max(hits) = i
      BY <3>1 DEF Max
    <3> DEFINE l == libs[i]
    <3>3. WellFormed(l) /\ l.soname = file
      BY <3>1
    <3>4. to = IF Lookup(name, l) = NotFound THEN Fault ELSE Address(i, Lookup(name, l))
      BY <2>3, <2>6, <3>1, <3>2
    <3>5. ASSUME l.nbucket = 0 PROVE Lookup(name, l) = 0
      BY <3>5 DEF Lookup
    <3>6. ASSUME l.nbucket # 0, Lookup(name, l) # NotFound
          PROVE  l.symtab[Lookup(name, l)].name = name
      BY <1>1, <3>3, <3>6, LookupFinds
    <3>7. ASSUME Len(l.symtab) < HalfSize, \E e \in DOMAIN l.symtab : l.symtab[e].name = name
          PROVE  Lookup(name, l) # NotFound
      <4>1. CASE l.nbucket = 0
        BY <3>5, <4>1 DEF NotFound
      <4>2. CASE l.nbucket # 0
        BY <1>1, <3>3, <3>7, <4>2, LookupFinds
      <4> QED BY <4>1, <4>2
    <3>8. \A j \in DOMAIN libs : libs[j].soname \in {file} => j = i
      BY <3>1
    <3> HIDE DEF hits
    <3>9. CASE Lookup(name, l) = NotFound
      <4>1. to = Fault
        BY <3>4, <3>9
      <4> QED BY <1>7, <2>2, <3>7, <3>8, <3>9, <4>1 DEF Fault, Unbound
    <3>10. CASE Lookup(name, l) # NotFound
      <4>1. to = Address(i, Lookup(name, l))
        BY <3>4, <3>10
      <4>2. to.kind = "address" /\ to.lib = i /\ to.idx = Lookup(name, l)
        BY <4>1 DEF Address
      <4>3. to # Unbound
        BY <4>2 DEF Unbound
      <4> QED BY <1>7, <2>2, <3>3, <3>6, <3>8, <3>10, <4>2, <4>3
    <3> QED BY <3>9, <3>10
  <2> QED BY <2>4, <2>5, <2>6
<1> QED
  BY <1>8, <1>9, <1>10

\* Every relocation of a symbol is bound as the ELF rules of this loader say,
\* whatever the libraries and their hash tables are: lookup and verneedstr
\* (xload/load_elf.c) find the entry if its table is short enough.
THEOREM SymbolsBoundHolds == TextSpec => []SymbolsBound
<1> DEFINE Inv == \/ given.kind # "relocation"
                  \/ \E r \in Relocations :
                       given = [kind |-> "relocation", libs |-> r.libs, k |-> r.k, rela |-> r.rela]
<1>1. TextInit => Inv
  BY DEF TextInit, Nothing
<1>2. Inv /\ [Give]_textVars => Inv'
  BY DEF Give, textVars
<1>3. Inv => SymbolsBound
  <2> SUFFICES ASSUME NEW r \in Relocations, given.rela.type = "symbol",
                      given = [kind |-> "relocation", libs |-> r.libs, k |-> r.k, rela |-> r.rela]
               PROVE  SymbolsBound
    BY DEF SymbolsBound
  <2>1. given.libs = r.libs /\ given.k = r.k /\ given.rela = r.rela
    OBVIOUS
  <2>2. BoundRight(r.libs, r.k, r.rela)
    BY <2>1, SymbolsAssumption, RelocationsAssumption, RelocationBound
  <2> QED BY <2>1, <2>2 DEF SymbolsBound
<1> QED
  BY <1>1, <1>2, <1>3, PTL DEF TextSpec

----------------------------------------------------------------------------
(* Paths *)

\* PathsAssumption under a name the provers do not look behind.
Installed == PathsAssumption

\* The meaning of a path is what its components make one after the other.
LEMMA MeaningUnfolds ==
  ASSUME Installed, NEW absolute \in BOOLEAN, NEW comps \in Seq(Components)
  PROVE  \E m \in [0 .. Len(comps) -> Seq(Names)] :
           /\ m[0] = Start(absolute)
           /\ \A n \in 1 .. Len(comps) : m[n] = Follow(m[n - 1], comps[n])
           /\ Meaning(absolute, comps) = m[Len(comps)]
<1> DEFINE N == Len(comps)
           init == Start(absolute)
           E(m, n) == IF n = 0 THEN init ELSE Follow(m[n - 1], comps[n])
           A(m) == [n \in 0 .. N |-> E(m, n)]
           left == CHOOSE m : m = A(m)
           step == [n \in 1 .. N |-> [s \in Seq(Names) |-> Follow(s, comps[n])]]
<1>1. N \in Nat /\ \A n \in 1 .. N : comps[n] \in Components
  BY LenProperties, ElementOfSeq
<1>2. init \in Seq(Names)
  BY DEF Installed, Start
<1>3. ASSUME NEW s \in Seq(Names), NEW c \in Components PROVE Follow(s, c) \in Seq(Names)
  <2>1. Pop(s) \in Seq(Names) \/ s = <<>>
    BY DEF Pop
  <2>2. c \notin {Gap, "."} /\ c # ".." => Append(s, c) \in Seq(Names)
    BY DEF Components
  <2> QED BY <2>1, <2>2 DEF Follow
<1>4. step \in [1 .. N -> [Seq(Names) -> Seq(Names)]]
  BY <1>1, <1>3
<1> HIDE DEF step, init
<1>5. PICK g \in [0 .. N -> Seq(Names)] : g[0] = init /\ \A n \in 1 .. N : g[n] = step[n][g[n - 1]]
  <2>1. PICK g : Rounds(g, N, Seq(Names), init, step)
    BY <1>1, <1>2, <1>4, Recursion
  <2> QED BY <2>1 DEF Rounds
<1>6. \A n \in 1 .. N : g[n] = Follow(g[n - 1], comps[n])
  <2> TAKE n \in 1 .. N
  <2>1. g[n - 1] \in Seq(Names)
    BY <1>1, <1>5
  <2> QED BY <1>5, <2>1 DEF step
<1>7. g = A(g)
  <2>1. \A n \in 0 .. N : g[n] = E(g, n)
    BY <1>1, <1>5, <1>6
  <2> HIDE DEF E
  <2> QED BY <1>5, <2>1
<1>8. left = A(left)
  <2> HIDE DEF A
  <2> QED BY <1>7
<1>9. \A n \in 0 .. N : left[n] = E(left, n)
  <2> HIDE DEF E, left
  <2> QED BY <1>8
<1>10. Meaning(absolute, comps) = left[N]
  BY DEF Meaning, init
<1> HIDE DEF left
<1> DEFINE I == {n \in Nat : n <= N => left[n] = g[n]}
<1>11. N \in I
  <2>1. 0 \in I
    BY <1>1, <1>5, <1>9
  <2>2. ASSUME NEW n \in Nat, n \in I PROVE n + 1 \in I
    <3> SUFFICES ASSUME n + 1 <= N PROVE left[n + 1] = g[n + 1]
      OBVIOUS
    <3>1. n + 1 \in 0 .. N /\ n + 1 \in 1 .. N /\ n + 1 # 0 /\ n + 1 - 1 = n
      BY <1>1
    <3>2. left[n] = g[n]
      BY <1>1, <2>2
    <3>3. left[n + 1] = Follow(left[n], comps[n + 1])
      BY <1>9, <3>1
    <3>4. g[n + 1] = Follow(g[n], comps[n + 1])
      BY <1>6, <3>1
    <3> QED BY <3>2, <3>3, <3>4
  <2> HIDE DEF I
  <2> QED BY <1>1, <2>1, <2>2, SetInduction
<1>12. Meaning(absolute, comps) = g[N]
  BY <1>1, <1>10, <1>11
<1> QED
  BY <1>5, <1>6, <1>12 DEF init

\* Clean takes the components one after the other.
LEMMA CleanUnfolds ==
  ASSUME NEW S, NEW path \in Seq(S)
  PROVE  \E m \in [0 .. Len(path) -> Seq(S)] :
           /\ m[0] = <<>>
           /\ \A n \in 1 .. Len(path) : m[n] = Keep(m[n - 1], path[n])
           /\ Clean(path) = m[Len(path)]
<1> DEFINE N == Len(path)
           E(m, n) == IF n = 0 THEN <<>> ELSE Keep(m[n - 1], path[n])
           A(m) == [n \in 0 .. N |-> E(m, n)]
           kept == CHOOSE m : m = A(m)
           step == [n \in 1 .. N |-> [s \in Seq(S) |-> Keep(s, path[n])]]
<1>1. N \in Nat /\ \A n \in 1 .. N : path[n] \in S
  BY LenProperties, ElementOfSeq
<1>2. <<>> \in Seq(S)
  OBVIOUS
<1>3. ASSUME NEW s \in Seq(S), NEW c \in S PROVE Keep(s, c) \in Seq(S)
  BY DEF Keep
<1>4. step \in [1 .. N -> [Seq(S) -> Seq(S)]]
  BY <1>1, <1>3
<1> HIDE DEF step
<1>5. PICK g \in [0 .. N -> Seq(S)] : g[0] = <<>> /\ \A n \in 1 .. N : g[n] = step[n][g[n - 1]]
  <2>1. PICK g : Rounds(g, N, Seq(S), <<>>, step)
    BY <1>1, <1>2, <1>4, Recursion
  <2> QED BY <2>1 DEF Rounds
<1>6. \A n \in 1 .. N : g[n] = Keep(g[n - 1], path[n])
  <2> TAKE n \in 1 .. N
  <2>1. g[n - 1] \in Seq(S)
    BY <1>1, <1>5
  <2> QED BY <1>5, <2>1 DEF step
<1>7. g = A(g)
  <2>1. \A n \in 0 .. N : g[n] = E(g, n)
    BY <1>1, <1>5, <1>6
  <2> HIDE DEF E
  <2> QED BY <1>5, <2>1
<1>8. kept = A(kept)
  <2> HIDE DEF A
  <2> QED BY <1>7
<1>9. \A n \in 0 .. N : kept[n] = E(kept, n)
  <2> HIDE DEF E, kept
  <2> QED BY <1>8
<1>10. Clean(path) = kept[N]
  BY DEF Clean
<1> HIDE DEF kept
<1> DEFINE I == {n \in Nat : n <= N => kept[n] = g[n]}
<1>11. N \in I
  <2>1. 0 \in I
    BY <1>1, <1>5, <1>9
  <2>2. ASSUME NEW n \in Nat, n \in I PROVE n + 1 \in I
    <3> SUFFICES ASSUME n + 1 <= N PROVE kept[n + 1] = g[n + 1]
      OBVIOUS
    <3>1. n + 1 \in 0 .. N /\ n + 1 \in 1 .. N /\ n + 1 # 0 /\ n + 1 - 1 = n
      BY <1>1
    <3>2. kept[n] = g[n]
      BY <1>1, <2>2
    <3>3. kept[n + 1] = Keep(kept[n], path[n + 1])
      BY <1>9, <3>1
    <3>4. g[n + 1] = Keep(g[n], path[n + 1])
      BY <1>6, <3>1
    <3> QED BY <3>2, <3>3, <3>4
  <2> HIDE DEF I
  <2> QED BY <1>1, <2>1, <2>2, SetInduction
<1>12. Clean(path) = g[N]
  BY <1>1, <1>10, <1>11
<1> QED
  BY <1>5, <1>6, <1>12

\* There is nothing to clean in an empty path.
LEMMA CleanEmpty ==
  Clean(<<>>) = <<>>
<1>1. <<>> \in Seq({}) /\ Len(<<>>) = 0
  OBVIOUS
<1>2. PICK m \in [0 .. Len(<<>>) -> Seq({})] :
         m[0] = <<>> /\ Clean(<<>>) = m[Len(<<>>)]
  BY <1>1, CleanUnfolds
<1> QED
  BY <1>1, <1>2

\* Clean of a path with one component more.
LEMMA CleanAppend ==
  ASSUME NEW S, NEW a \in Seq(S), NEW c \in S
  PROVE  Clean(Append(a, c)) = Keep(Clean(a), c) /\ Clean(a) \in Seq(S)
<1> DEFINE ac == Append(a, c)
<1>1. PICK m \in [0 .. Len(a) -> Seq(S)] :
         /\ m[0] = <<>>
         /\ \A n \in 1 .. Len(a) : m[n] = Keep(m[n - 1], a[n])
         /\ Clean(a) = m[Len(a)]
  BY CleanUnfolds
<1>2. /\ Len(a) \in Nat /\ ac \in Seq(S) /\ Len(ac) = Len(a) + 1
      /\ ac[Len(a) + 1] = c /\ \A n \in 1 .. Len(a) : ac[n] = a[n]
  OBVIOUS
<1> HIDE DEF ac
<1>3. PICK w \in [0 .. Len(ac) -> Seq(S)] :
         /\ w[0] = <<>>
         /\ \A n \in 1 .. Len(ac) : w[n] = Keep(w[n - 1], ac[n])
         /\ Clean(ac) = w[Len(ac)]
  BY <1>2, CleanUnfolds
<1> DEFINE I == {n \in Nat : n <= Len(a) => w[n] = m[n]}
<1>4. Len(a) \in I
  <2>1. 0 \in I
    BY <1>1, <1>3
  <2>2. ASSUME NEW n \in Nat, n \in I PROVE n + 1 \in I
    <3> SUFFICES ASSUME n + 1 <= Len(a) PROVE w[n + 1] = m[n + 1]
      OBVIOUS
    <3>1. n + 1 \in 1 .. Len(a) /\ n + 1 \in 1 .. Len(ac) /\ n + 1 - 1 = n
      BY <1>2
    <3>2. w[n] = m[n]
      BY <1>2, <2>2
    <3>3. w[n + 1] = Keep(w[n], a[n + 1])
      BY <1>2, <1>3, <3>1
    <3>4. m[n + 1] = Keep(m[n], a[n + 1])
      BY <1>1, <3>1
    <3> QED BY <3>2, <3>3, <3>4
  <2> HIDE DEF I
  <2> QED BY <1>2, <2>1, <2>2, SetInduction
<1>5. w[Len(a)] = m[Len(a)]
  BY <1>2, <1>4
<1>6. w[Len(a) + 1] = Keep(w[Len(a)], c)
  <2> DEFINE n == Len(a) + 1
  <2>1. n \in 1 .. Len(ac) /\ n - 1 = Len(a) /\ ac[n] = c
    BY <1>2
  <2> HIDE DEF n
  <2>2. w[n] = Keep(w[n - 1], ac[n])
    BY <1>3, <2>1
  <2>3. w[n] = Keep(w[Len(a)], c)
    BY ONLY <2>1, <2>2
  <2> QED BY ONLY <2>3, Zenon DEF n
<1>7. Clean(a) \in Seq(S)
  <2>1. Len(a) \in 0 .. Len(a)
    BY <1>2
  <2>2. m[Len(a)] \in Seq(S)
    BY <2>1
  <2> QED BY <1>1, <2>2, Zenon
<1>8. Clean(ac) = Keep(Clean(a), c)
  BY <1>1, <1>2, <1>3, <1>5, <1>6
<1> QED
  BY <1>7, <1>8 DEF ac

\* Chars adds up the components one after the other.
LEMMA CharsUnfolds ==
  ASSUME Installed, NEW path \in Seq(Components)
  PROVE  \E m \in [0 .. Len(path) -> Nat] :
           /\ m[0] = 1
           /\ \A n \in 1 .. Len(path) : m[n] = m[n - 1] + Width[path[n]] + 1
           /\ Chars(path) = m[Len(path)]
<1> DEFINE N == Len(path)
           E(m, n) == IF n = 0 THEN 1 ELSE m[n - 1] + Width[path[n]] + 1
           A(m) == [n \in 0 .. N |-> E(m, n)]
           sum == CHOOSE m : m = A(m)
           step == [n \in 1 .. N |-> [x \in Nat |-> x + Width[path[n]] + 1]]
<1>1. N \in Nat /\ \A n \in 1 .. N : path[n] \in Components
  BY LenProperties, ElementOfSeq
<1>2. ASSUME NEW x \in Nat, NEW c \in Components PROVE x + Width[c] + 1 \in Nat
  BY DEF Installed
<1>3. step \in [1 .. N -> [Nat -> Nat]]
  BY <1>1, <1>2
<1> HIDE DEF step
<1>4. PICK g \in [0 .. N -> Nat] : g[0] = 1 /\ \A n \in 1 .. N : g[n] = step[n][g[n - 1]]
  <2>1. PICK g : Rounds(g, N, Nat, 1, step)
    BY <1>1, <1>3, Recursion
  <2> QED BY <2>1 DEF Rounds
<1>5. \A n \in 1 .. N : g[n] = g[n - 1] + Width[path[n]] + 1
  <2> TAKE n \in 1 .. N
  <2>1. g[n - 1] \in Nat
    <3>1. n - 1 \in 0 .. N
      BY ONLY <1>1, n \in 1 .. N
    <3> QED BY ONLY <3>1, g \in [0 .. N -> Nat]
  <2> QED BY <1>4, <2>1 DEF step
<1>6. g = A(g)
  <2>1. \A n \in 0 .. N : g[n] = E(g, n)
    BY <1>1, <1>4, <1>5
  <2> HIDE DEF E
  <2> QED BY <1>4, <2>1
<1>7. sum = A(sum)
  <2> HIDE DEF A
  <2> QED BY <1>6
<1>8. \A n \in 0 .. N : sum[n] = E(sum, n)
  <2> HIDE DEF E, sum
  <2> QED BY <1>7
<1>9. Chars(path) = sum[N]
  BY DEF Chars
<1> HIDE DEF sum
<1> DEFINE I == {n \in Nat : n <= N => sum[n] = g[n]}
<1>10. N \in I
  <2>1. 0 \in I
    BY <1>1, <1>4, <1>8
  <2>2. ASSUME NEW n \in Nat, n \in I PROVE n + 1 \in I
    <3> SUFFICES ASSUME n + 1 <= N PROVE sum[n + 1] = g[n + 1]
      OBVIOUS
    <3>1. n + 1 \in 0 .. N /\ n + 1 \in 1 .. N /\ n + 1 # 0 /\ n + 1 - 1 = n
      BY <1>1
    <3>2. sum[n] = g[n]
      BY <1>1, <2>2
    <3>3. sum[n + 1] = sum[n] + Width[path[n + 1]] + 1
      BY <1>8, <3>1
    <3>4. g[n + 1] = g[n] + Width[path[n + 1]] + 1
      BY <1>5, <3>1
    <3> QED BY <3>2, <3>3, <3>4
  <2> HIDE DEF I
  <2> QED BY <1>1, <2>1, <2>2, SetInduction
<1>11. Chars(path) = g[N]
  BY <1>1, <1>9, <1>10
<1> QED
  BY <1>4, <1>5, <1>11

\* A component more is its characters and a slash more.
LEMMA CharsAppend ==
  ASSUME Installed, NEW a \in Seq(Components), NEW c \in Components
  PROVE  Chars(a) \in Nat /\ Chars(Append(a, c)) = Chars(a) + Width[c] + 1
<1> DEFINE ac == Append(a, c)
<1>1. PICK m \in [0 .. Len(a) -> Nat] :
         /\ m[0] = 1
         /\ \A n \in 1 .. Len(a) : m[n] = m[n - 1] + Width[a[n]] + 1
         /\ Chars(a) = m[Len(a)]
  BY CharsUnfolds
<1>2. /\ Len(a) \in Nat /\ ac \in Seq(Components) /\ Len(ac) = Len(a) + 1
      /\ ac[Len(a) + 1] = c /\ \A n \in 1 .. Len(a) : ac[n] = a[n]
  OBVIOUS
<1> HIDE DEF ac
<1>3. PICK w \in [0 .. Len(ac) -> Nat] :
         /\ w[0] = 1
         /\ \A n \in 1 .. Len(ac) : w[n] = w[n - 1] + Width[ac[n]] + 1
         /\ Chars(ac) = w[Len(ac)]
  BY <1>2, CharsUnfolds
<1> DEFINE I == {n \in Nat : n <= Len(a) => w[n] = m[n]}
<1>4. Len(a) \in I
  <2>1. 0 \in I
    BY <1>1, <1>3
  <2>2. ASSUME NEW n \in Nat, n \in I PROVE n + 1 \in I
    <3> SUFFICES ASSUME n + 1 <= Len(a) PROVE w[n + 1] = m[n + 1]
      OBVIOUS
    <3>1. n + 1 \in 1 .. Len(a) /\ n + 1 \in 1 .. Len(ac) /\ n + 1 - 1 = n
      BY <1>2
    <3>2. w[n] = m[n]
      BY <1>2, <2>2
    <3>3. w[n + 1] = w[n] + Width[a[n + 1]] + 1
      BY <1>2, <1>3, <3>1
    <3>4. m[n + 1] = m[n] + Width[a[n + 1]] + 1
      BY <1>1, <3>1
    <3> QED BY <3>2, <3>3, <3>4
  <2> HIDE DEF I
  <2> QED BY <1>2, <2>1, <2>2, SetInduction
<1>5. w[Len(a)] = m[Len(a)] /\ m[Len(a)] \in Nat
  BY <1>1, <1>2, <1>4
<1>6. w[Len(a) + 1] = w[Len(a)] + Width[c] + 1
  <2>1. Len(a) + 1 \in 1 .. Len(ac) /\ Len(a) + 1 - 1 = Len(a)
    BY <1>2
  <2>2. w[Len(a) + 1] = w[Len(a) + 1 - 1] + Width[ac[Len(a) + 1]] + 1
    BY <1>3, <2>1
  <2> QED BY <1>2, <2>1, <2>2
<1> QED
  BY <1>1, <1>2, <1>3, <1>5, <1>6 DEF ac

\* Induction over sequences.
LEMMA LengthInduction ==
  ASSUME NEW S, NEW T, <<>> \in T,
         \A s \in Seq(S), c \in S : s \in T => Append(s, c) \in T
  PROVE  Seq(S) \subseteq T
<1> DEFINE I == {n \in Nat : \A s \in Seq(S) : Len(s) = n => s \in T}
<1>1. 0 \in I
  <2> SUFFICES ASSUME NEW s \in Seq(S), Len(s) = 0 PROVE s \in T
    OBVIOUS
  <2>1. s = <<>>
    BY EmptySeq
  <2> QED BY <2>1
<1>2. ASSUME NEW n \in Nat, n \in I PROVE n + 1 \in I
  <2> SUFFICES ASSUME NEW s \in Seq(S), Len(s) = n + 1 PROVE s \in T
    OBVIOUS
  <2> DEFINE f == SubSeq(s, 1, n)
             c == s[n + 1]
  <2>1. f \in Seq(S) /\ Len(f) = n /\ c \in S
    OBVIOUS
  <2>2. s = Append(f, c)
    OBVIOUS
  <2> HIDE DEF f, c
  <2>3. f \in T
    BY <1>2, <2>1
  <2> QED BY <2>1, <2>2, <2>3
<1> HIDE DEF I
<1>3. Nat \subseteq I
  BY <1>1, <1>2, SetInduction
<1>4. ASSUME NEW s \in Seq(S) PROVE s \in T
  <2>1. Len(s) \in I
    BY <1>3, LenProperties
  <2> QED BY <2>1 DEF I
<1> QED
  BY <1>4

\* Names are kept.
LEMMA CleanNames ==
  ASSUME Installed, NEW p \in Seq(Names)
  PROVE  Clean(p) = p
<1> DEFINE T == {s \in Seq(Names) : Clean(s) = s}
<1>1. <<>> \in T
  BY CleanEmpty
<1>2. ASSUME NEW s \in Seq(Names), NEW c \in Names, s \in T PROVE Append(s, c) \in T
  <2>1. Clean(Append(s, c)) = Keep(Clean(s), c)
    BY CleanAppend
  <2>2. c # Gap
    BY DEF Installed
  <2>3. Clean(s) = s
    BY <1>2
  <2>4. Clean(Append(s, c)) = Append(s, c)
    BY <2>1, <2>2, <2>3 DEF Keep
  <2>5. Append(s, c) \in Seq(Names)
    OBVIOUS
  <2> QED BY <2>4, <2>5
<1>3. Seq(Names) \subseteq T
  <2> HIDE DEF T
  <2> QED BY <1>1, <1>2, LengthInduction
<1> QED
  BY <1>3

\* Concatenation and Append under names the provers do not look behind.
Behind(a, b) == a \o b

Push(s, c) == Append(s, c)

\* Concatenation one element at a time.
LEMMA PushBehind ==
  ASSUME NEW S, NEW a \in Seq(S), NEW b \in Seq(S), NEW c \in S
  PROVE  Push(Behind(a, b), c) = Behind(a, Push(b, c))
BY DEF Push, Behind

\* Keep, behind something that is there already.
LEMMA KeepBehind ==
  ASSUME NEW S, NEW a \in Seq(S), NEW b \in Seq(S), NEW c \in S
  PROVE  Keep(Behind(a, b), c) = Behind(a, Keep(b, c))
<1>1. \A s : Keep(s, c) = IF c = Gap THEN s ELSE Push(s, c)
  BY DEF Keep, Push
<1> QED
  BY <1>1, PushBehind

\* CleanAppend with Push for Append.
LEMMA CleanPush ==
  ASSUME NEW S, NEW a \in Seq(S), NEW c \in S
  PROVE  Clean(Push(a, c)) = Keep(Clean(a), c)
BY CleanAppend DEF Push

\* Clean of two paths in a row, the first clean already.
LEMMA CleanConcat ==
  ASSUME NEW S, NEW a \in Seq(S), Clean(a) = a, NEW b \in Seq(S)
  PROVE  Clean(Behind(a, b)) = Behind(a, Clean(b))
<1> DEFINE T == {s \in Seq(S) : Clean(Behind(a, s)) = Behind(a, Clean(s))}
<1>1. <<>> \in T
  <2>1. Behind(a, <<>>) = a
    BY DEF Behind
  <2> QED BY <2>1, CleanEmpty
<1>2. ASSUME NEW s \in Seq(S), NEW c \in S, s \in T PROVE Append(s, c) \in T
  <2>1. Behind(a, s) \in Seq(S) /\ Clean(s) \in Seq(S) /\ Push(s, c) \in Seq(S)
    BY CleanAppend DEF Behind, Push
  <2>2. Push(Behind(a, s), c) = Behind(a, Push(s, c))
    BY PushBehind
  <2>3. Clean(Push(Behind(a, s), c)) = Keep(Clean(Behind(a, s)), c)
    BY <2>1, CleanPush
  <2>4. Clean(Push(s, c)) = Keep(Clean(s), c)
    BY CleanPush
  <2>5. Keep(Behind(a, Clean(s)), c) = Behind(a, Keep(Clean(s), c))
    BY <2>1, KeepBehind
  <2>6. Clean(Behind(a, s)) = Behind(a, Clean(s))
    BY <1>2
  <2>7. Clean(Behind(a, Push(s, c))) = Behind(a, Clean(Push(s, c)))
    BY <2>2, <2>3, <2>4, <2>5, <2>6
  <2>8. Push(s, c) \in T
    BY <2>1, <2>7
  <2> QED BY <2>8 DEF Push
<1>3. Seq(S) \subseteq T
  <2> HIDE DEF T
  <2> QED BY <1>1, <1>2, LengthInduction
<1> QED
  BY <1>3

\* What a round of alloc_libc_to_base_path works on.
States == [k : Nat \ {0}, comps : Seq(Components), error : PathErrors, abspath : Seq(Components)]

\* What stands before a "..".
Named(s) == \E f \in Seq(Components), c \in Names : s = Push(f, c)

\* abspath means what the components before k do.
OnTheWay(st, comps, mean) ==
  /\ st \in States /\ st.comps = comps /\ st.error = "none"
  /\ st.k <= Len(comps) + 1
  /\ Clean(st.abspath) = mean[st.k - 1]
  /\ st.k <= Len(comps) /\ comps[st.k] = ".." => Named(st.abspath)

\* A slash more, or none, changes nothing of what a path means.
LEMMA SlashBehind ==
  ASSUME NEW s \in Seq(Components), NEW b \in BOOLEAN
  PROVE  LET t == s \o (IF b THEN <<Gap>> ELSE <<>>)
         IN t \in Seq(Components) /\ Clean(t) = Clean(s)
<1> DEFINE t == s \o (IF b THEN <<Gap>> ELSE <<>>)
<1>1. Gap \in Components
  BY DEF Components
<1>2. CASE b
  <2>1. t = Push(s, Gap)
    BY <1>1, <1>2 DEF Push
  <2>2. Clean(t) = Keep(Clean(s), Gap)
    BY <1>1, <2>1, CleanPush
  <2>3. t \in Seq(Components)
    BY <1>1, <2>1 DEF Push
  <2> QED BY <2>2, <2>3 DEF Keep
<1>3. CASE ~ b
  <2>1. t = s
    BY <1>3
  <2> QED BY <2>1
<1> QED
  BY <1>2, <1>3

\* The state with another place and another path.
StepTo(st, k, t) == [st EXCEPT !.k = k, !.abspath = t]

\* The slash after the component, if another component follows.
Closed(st) == IF st.k < Len(st.comps) THEN <<Gap>> ELSE <<>>

\* The fields of a state whose place and path have changed.
LEMMA Moves ==
  ASSUME NEW st \in States, NEW k \in Nat \ {0}, NEW t \in Seq(Components)
  PROVE  /\ StepTo(st, k, t) \in States
         /\ StepTo(st, k, t).k = k /\ StepTo(st, k, t).abspath = t
         /\ StepTo(st, k, t).comps = st.comps /\ StepTo(st, k, t).error = st.error
BY DEF StepTo, States

\* The state in which the loop has ended early.
Fails(st, e) == [st EXCEPT !.error = e]

\* The state with another place and another path behind which a slash is put.
SlashTo(st, k, t) == PutSlash(StepTo(st, k, t))

\* The next component, behind the slash before it if there is one.
NextTo(st, t) == IF st.k < Len(st.comps) THEN SlashTo(st, st.k + 1, t) ELSE StepTo(st, st.k + 1, t)

\* The types of the state in which the loop has ended early.
LEMMA FailsTyped ==
  ASSUME NEW st \in States, NEW e \in PathErrors
  PROVE  Fails(st, e) \in States /\ Fails(st, e).error = e /\ Fails(st, e).comps = st.comps
BY DEF Fails, States

\* A slash is put behind the path, or it has no room.
LEMMA Slashes ==
  ASSUME NEW st \in States, NEW k \in Nat \ {0}, NEW t \in Seq(Components)
  PROVE  /\ SlashTo(st, k, t) \in States /\ SlashTo(st, k, t).comps = st.comps
         /\ SlashTo(st, k, t) = IF Chars(t) >= BufferSize THEN Fails(StepTo(st, k, t), "overrun")
                                 ELSE StepTo(st, k, Push(t, Gap))
         /\ Chars(t) >= BufferSize => SlashTo(st, k, t).error = "overrun"
<1> DEFINE new == StepTo(st, k, t)
<1>1. /\ new \in States /\ new.abspath = t /\ new.comps = st.comps
  BY Moves
<1>2. Gap \in Components
  BY DEF Components
<1>3. Push(t, Gap) \in Seq(Components)
  BY <1>2 DEF Push
<1>4. [new EXCEPT !.abspath = Append(@, Gap)] = StepTo(st, k, Push(t, Gap))
  BY DEF StepTo, Push, States
<1>5. "overrun" \in PathErrors
  BY DEF PathErrors
<1> HIDE DEF new
<1>6. SlashTo(st, k, t) = IF Chars(t) >= BufferSize THEN Fails(new, "overrun")
                          ELSE StepTo(st, k, Push(t, Gap))
  BY <1>1, <1>4, Zenon DEF SlashTo, PutSlash, Fails, new
<1>7. /\ Fails(new, "overrun") \in States /\ Fails(new, "overrun").error = "overrun"
      /\ Fails(new, "overrun").comps = st.comps
  BY <1>1, <1>5, FailsTyped
<1>8. /\ StepTo(st, k, Push(t, Gap)) \in States
      /\ StepTo(st, k, Push(t, Gap)).comps = st.comps
  BY <1>3, Moves
<1> QED
  BY <1>6, <1>7, <1>8 DEF new

\* What each kind of component does to the state.
LEMMA RoundIs ==
  ASSUME Installed, NEW st \in States, st.error = "none", st.k <= Len(st.comps)
  PROVE  /\ st.comps[st.k] \in Components
         /\ st.comps[st.k] = ".." /\ st.abspath \in {<<>>, <<Gap>>} =>
              Round(st) = Fails(st, "EINVAL")
         /\ st.comps[st.k] = ".." /\ st.abspath \notin {<<>>, <<Gap>>} =>
              Round(st) = NextTo(st, Pop(st.abspath))
         /\ st.comps[st.k] = "." => Round(st) = NextTo(st, st.abspath)
         /\ st.comps[st.k] = Gap =>
              Round(st) = IF st.k + 1 < Len(st.comps) /\ st.comps[st.k + 1] = Gap
                          THEN SlashTo(st, st.k + 2, st.abspath)
                          ELSE StepTo(st, st.k + 1, st.abspath)
         /\ st.comps[st.k] \in Names =>
              Round(st) = IF Chars(st.abspath) + Width[st.comps[st.k]] - 1 > Limit
                          THEN Fails(st, "EINVAL")
                          ELSE StepTo(st, st.k + 1, Push(st.abspath, st.comps[st.k]))
<1> DEFINE c == st.comps[st.k]
<1>1. c \in Components
  <2>1. st.k \in 1 .. Len(st.comps) /\ st.comps \in Seq(Components)
    BY DEF States
  <2> QED BY <2>1, ElementOfSeq
<1>2. ~ (st.error # "none" \/ st.k > Len(st.comps))
  BY DEF States
<1>3. Gap # "." /\ Gap # ".." /\ "." # ".."
  BY Zenon DEF Gap
<1>4. "." \notin Names /\ ".." \notin Names /\ Gap \notin Names
  BY DEF Installed
<1> HIDE DEF c
<1>5. Round(st) = CASE c = ".."     -> Parent(st)
                    [] c = "."      -> Here(st)
                    [] c = Gap      -> Empty(st)
                    [] c \in Names  -> Name(st)
  BY <1>2, Zenon DEF Round, c
<1>6. c = ".." => Round(st) = Parent(st)
  BY ONLY <1>3, <1>4, <1>5
<1>7. c = "." => Round(st) = Here(st)
  BY ONLY <1>3, <1>4, <1>5
<1>8. c = Gap => Round(st) = Empty(st)
  BY ONLY <1>3, <1>4, <1>5
<1>9. c \in Names => Round(st) = Name(st)
  BY ONLY <1>3, <1>4, <1>5
<1>10. Here(st) = NextTo(st, st.abspath)
  <2>1. [st EXCEPT !.k = @ + 1] = StepTo(st, st.k + 1, st.abspath)
    BY DEF StepTo, States
  <2> QED BY <2>1, Zenon DEF Here, NextTo, SlashTo
<1>11. st.abspath \notin {<<>>, <<Gap>>} => Parent(st) = NextTo(st, Pop(st.abspath))
  <2> DEFINE up == [st EXCEPT !.abspath = Pop(@)]
  <2>1. up.k = st.k /\ up.comps = st.comps
    BY DEF States
  <2>2. [up EXCEPT !.k = @ + 1] = StepTo(st, st.k + 1, Pop(st.abspath))
    BY DEF StepTo, States
  <2> HIDE DEF up
  <2>3. Here(up) = NextTo(st, Pop(st.abspath))
    BY <2>1, <2>2, Zenon DEF Here, NextTo, SlashTo
  <2> QED BY <2>3, Zenon DEF Parent, up
<1>12. Empty(st) = IF st.k + 1 < Len(st.comps) /\ st.comps[st.k + 1] = Gap
                   THEN SlashTo(st, st.k + 2, st.abspath)
                   ELSE StepTo(st, st.k + 1, st.abspath)
  <2>1. /\ [st EXCEPT !.k = @ + 1] = StepTo(st, st.k + 1, st.abspath)
        /\ [st EXCEPT !.k = @ + 2] = StepTo(st, st.k + 2, st.abspath)
    BY DEF StepTo, States
  <2> QED BY <2>1, Zenon DEF Empty, SlashTo
<1>13. Name(st) = IF Chars(st.abspath) + Width[c] - 1 > Limit THEN Fails(st, "EINVAL")
                  ELSE StepTo(st, st.k + 1, Push(st.abspath, c))
  BY Zenon DEF Name, Fails, StepTo, Push, c
<1>14. st.abspath \in {<<>>, <<Gap>>} => Parent(st) = Fails(st, "EINVAL")
  BY Zenon DEF Parent, Fails
<1> QED
  BY <1>1, <1>6, <1>7, <1>8, <1>9, <1>10, <1>11, <1>12, <1>13, <1>14, Zenon DEF c

\* The slash that is copied after "." and ".." changes nothing.
LEMMA SlashNothing ==
  ASSUME NEW st, NEW s \in Seq(Components)
  PROVE  s \o Closed(st) \in Seq(Components) /\ Clean(s \o Closed(st)) = Clean(s)
<1>1. (st.k < Len(st.comps)) \in BOOLEAN
  OBVIOUS
<1> QED
  BY <1>1, SlashBehind DEF Closed

\* The next component is reached, if the slash before it has room.
LEMMA NextIs ==
  ASSUME NEW st \in States, NEW t \in Seq(Components)
  PROVE  /\ NextTo(st, t) \in States /\ NextTo(st, t).comps = st.comps
         /\ \/ NextTo(st, t).error # "none"
            \/ NextTo(st, t) = StepTo(st, st.k + 1, t \o Closed(st))
         /\ st.error = "none" =>
              \/ NextTo(st, t).error = "none"
              \/ NextTo(st, t).error = "overrun" /\ st.k < Len(st.comps) /\ Chars(t) >= BufferSize
<1> DEFINE k == st.k + 1
<1>1. k \in Nat \ {0}
  BY DEF States
<1>2. Gap \in Components
  BY DEF Components
<1>3. Push(t, Gap) \in Seq(Components) /\ Push(t, Gap) = t \o <<Gap>>
  BY <1>2 DEF Push
<1>4. CASE st.k < Len(st.comps)
  <2>1. NextTo(st, t) = SlashTo(st, k, t) /\ t \o Closed(st) = Push(t, Gap)
    BY <1>3, <1>4 DEF NextTo, Closed
  <2> HIDE DEF k
  <2>2. SlashTo(st, k, t) \in States /\ SlashTo(st, k, t).comps = st.comps
    BY <1>1, Slashes
  <2>3. CASE Chars(t) >= BufferSize
    <3>1. SlashTo(st, k, t).error = "overrun"
      BY <1>1, <2>3, Slashes
    <3> QED BY <1>4, <2>1, <2>2, <2>3, <3>1
  <2>4. CASE ~ (Chars(t) >= BufferSize)
    <3>1. SlashTo(st, k, t) = StepTo(st, k, Push(t, Gap))
      BY <1>1, <2>4, Slashes
    <3>2. StepTo(st, k, Push(t, Gap)).error = st.error
      BY <1>1, <1>3, Moves
    <3> QED BY <2>1, <2>2, <3>1, <3>2 DEF k
  <2> QED BY <2>3, <2>4
<1>5. CASE ~ (st.k < Len(st.comps))
  <2>1. NextTo(st, t) = StepTo(st, k, t) /\ t \o Closed(st) = t
    BY <1>5 DEF NextTo, Closed
  <2>2. /\ StepTo(st, k, t) \in States /\ StepTo(st, k, t).comps = st.comps
        /\ StepTo(st, k, t).error = st.error
    BY <1>1, Moves
  <2> QED BY <2>1, <2>2
<1> QED
  BY <1>4, <1>5

\* A round keeps the types of the buffer and of the place.
LEMMA RoundTyped ==
  ASSUME Installed, NEW st \in States
  PROVE  Round(st) \in States /\ Round(st).comps = st.comps
<1>1. CASE st.error # "none" \/ st.k > Len(st.comps)
  BY <1>1 DEF Round
<1>2. CASE st.error = "none" /\ st.k <= Len(st.comps)
  <2> DEFINE c == st.comps[st.k]
             path == st.abspath
             k == st.k
  <2>1. path \in Seq(Components) /\ k \in Nat \ {0}
    BY DEF States
  <2>2. c \in Components /\ "EINVAL" \in PathErrors
    BY <1>2, RoundIs DEF PathErrors
  <2>3. k + 1 \in Nat \ {0} /\ k + 2 \in Nat \ {0}
    BY <2>1
  <2>4. Fails(st, "EINVAL") \in States /\ Fails(st, "EINVAL").comps = st.comps
    BY <2>2, FailsTyped
  <2>5. CASE c = ".."
    <3>1. path \in {<<>>, <<Gap>>} => Round(st) = Fails(st, "EINVAL")
      BY <1>2, <2>5, RoundIs
    <3>2. ASSUME path \notin {<<>>, <<Gap>>}
          PROVE  Round(st) \in States /\ Round(st).comps = st.comps
      <4>1. Round(st) = NextTo(st, Pop(path))
        BY <1>2, <2>5, <3>2, RoundIs
      <4>2. Pop(path) \in Seq(Components)
        BY <2>1, <3>2 DEF Pop
      <4> QED BY <4>1, <4>2, NextIs
    <3> QED BY <2>4, <3>1, <3>2
  <2>6. CASE c = "."
    <3>1. Round(st) = NextTo(st, path)
      BY <1>2, <2>6, RoundIs
    <3> QED BY <2>1, <3>1, NextIs
  <2>7. CASE c = Gap
    <3>1. Round(st) \in {SlashTo(st, k + 2, path), StepTo(st, k + 1, path)}
      BY <1>2, <2>7, RoundIs
    <3>2. /\ SlashTo(st, k + 2, path) \in States
          /\ SlashTo(st, k + 2, path).comps = st.comps
      BY <2>1, <2>3, Slashes
    <3>3. StepTo(st, k + 1, path) \in States /\ StepTo(st, k + 1, path).comps = st.comps
      BY <2>1, <2>3, Moves
    <3> QED BY <3>1, <3>2, <3>3
  <2>8. CASE c \in Names
    <3>1. Push(path, c) \in Seq(Components)
      BY <2>1, <2>2 DEF Push
    <3>2. Round(st) \in {Fails(st, "EINVAL"), StepTo(st, k + 1, Push(path, c))}
      BY <1>2, <2>8, RoundIs
    <3>3. /\ StepTo(st, k + 1, Push(path, c)) \in States
          /\ StepTo(st, k + 1, Push(path, c)).comps = st.comps
      BY <2>3, <3>1, Moves
    <3> QED BY <2>4, <3>2, <3>3
  <2> QED BY <2>2, <2>5, <2>6, <2>7, <2>8 DEF Components
<1> QED
  BY <1>1, <1>2 DEF States

\* The cases of Follow.
LEMMA FollowIs ==
  ASSUME Installed, NEW s
  PROVE  /\ Follow(s, Gap) = s /\ Follow(s, ".") = s
         /\ s # <<>> => Follow(s, "..") = Pop(s)
         /\ \A c \in Names : Follow(s, c) = Push(s, c)
<1>1. Gap # ".." /\ "." # ".."
  BY Zenon DEF Gap
<1>2. "." \notin Names /\ ".." \notin Names /\ Gap \notin Names
  BY DEF Installed
<1>3. Follow(s, Gap) = s /\ Follow(s, ".") = s
  BY <1>1, <1>2 DEF Follow
<1>4. s # <<>> => Follow(s, "..") = Pop(s)
  BY <1>1, <1>2 DEF Follow
<1>5. ASSUME NEW c \in Names PROVE Follow(s, c) = Push(s, c)
  <2>1. c \notin {Gap, "."} /\ c # ".."
    BY <1>2
  <2> QED BY ONLY <1>5, <2>1 DEF Follow, Push
<1> QED
  BY <1>3, <1>4, <1>5

\* Taking off what was put on.
LEMMA PopPush ==
  ASSUME NEW S, NEW f \in Seq(S), NEW d \in S
  PROVE  /\ Push(f, d) \in Seq(S) /\ Push(f, d) # <<>>
         /\ Pop(Push(f, d)) = f
         /\ d # Gap => Push(f, d) # <<Gap>>
<1>1. Push(f, d) \in Seq(S) /\ Len(Push(f, d)) = Len(f) + 1 /\ Len(f) \in Nat
  BY DEF Push
<1>2. Push(f, d) # <<>>
  BY <1>1
<1>3. Push(f, d)[Len(f) + 1] = d
  BY DEF Push
<1>4. ASSUME d # Gap PROVE Push(f, d) # <<Gap>>
  <2> SUFFICES ASSUME Push(f, d) = <<Gap>> PROVE FALSE
    OBVIOUS
  <2>1. Len(f) + 1 = 1
    BY <1>1
  <2>2. Push(f, d)[1] = d
    BY <1>1, <1>3, <2>1
  <2> QED BY <1>4, <2>2
<1>5. Pop(Push(f, d)) = f
  BY DEF Pop, Push
<1> QED
  BY <1>1, <1>2, <1>4, <1>5

\* When a state with a new place and path is on its way.
LEMMA Arrives ==
  ASSUME NEW comps, Len(comps) \in Nat, NEW mean, NEW st \in States,
         st.comps = comps, st.error = "none",
         NEW j \in Nat, j > st.k, j <= Len(comps) + 1,
         NEW t \in Seq(Components), Clean(t) = mean[j - 1],
         j <= Len(comps) => (comps[j] = ".." => Named(t))
  PROVE  OnTheWay(StepTo(st, j, t), comps, mean) /\ StepTo(st, j, t).k > st.k
<1>1. j \in Nat \ {0}
  BY DEF States
<1>2. /\ StepTo(st, j, t) \in States /\ StepTo(st, j, t).k = j
      /\ StepTo(st, j, t).abspath = t /\ StepTo(st, j, t).comps = st.comps
      /\ StepTo(st, j, t).error = st.error
  BY <1>1, Moves
<1> QED
  BY <1>2 DEF OnTheWay

\* A round goes on to a later component, and abspath means what that says.
LEMMA RoundMeans ==
  ASSUME Installed, NEW comps \in Seq(Components),
         \A n \in 1 .. Len(comps) : comps[n] = ".." => n = 1 \/ comps[n - 1] \in Names,
         NEW mean \in [0 .. Len(comps) -> Seq(Names)],
         \A n \in 1 .. Len(comps) : mean[n] = Follow(mean[n - 1], comps[n]),
         NEW st, OnTheWay(st, comps, mean), st.k <= Len(comps), Round(st).error = "none"
  PROVE  OnTheWay(Round(st), comps, mean) /\ Round(st).k > st.k
<1> DEFINE c == comps[st.k]
           path == st.abspath
           k == st.k
           N == Len(comps)
           k1 == k + 1
           k2 == k + 2
           Ends(j, t) == /\ j \in Nat /\ j > k /\ j <= N + 1
                         /\ t \in Seq(Components) /\ Clean(t) = mean[j - 1]
                         /\ j <= N => (comps[j] = ".." => Named(t))
           Goal == OnTheWay(Round(st), comps, mean) /\ Round(st).k > k
<1>1. /\ st \in States /\ st.comps = comps /\ st.error = "none"
      /\ Clean(path) = mean[k - 1]
      /\ c = ".." => Named(path)
  BY DEF OnTheWay
<1>2. /\ path \in Seq(Components) /\ Gap \in Components
      /\ N \in Nat /\ k \in 1 .. N
  BY <1>1 DEF States, Components
<1>3. /\ k - 1 \in 0 .. N /\ k1 - 1 = k /\ k2 - 1 = k1
      /\ k1 \in Nat /\ k2 \in Nat /\ k1 > k /\ k2 > k /\ k1 <= N + 1
      /\ k1 <= N => k1 \in 1 .. N /\ k1 \in k1 .. N
      /\ k1 < N => k2 <= N + 1
      /\ k2 <= N => k2 \in k1 .. N
  <2>1. k \in Nat /\ 1 <= k /\ k <= N /\ N \in Nat
    BY <1>2
  <2> HIDE DEF k, N
  <2> QED BY ONLY <2>1
<1>4. /\ c \in Components
      /\ c = ".." /\ path \notin {<<>>, <<Gap>>} =>
           Round(st) = StepTo(st, k1, Pop(path) \o Closed(st))
      /\ c = "." => Round(st) = StepTo(st, k1, path \o Closed(st))
      /\ c = Gap => Round(st) = IF k1 < N /\ comps[k1] = Gap
                                THEN StepTo(st, k2, Push(path, Gap))
                                ELSE StepTo(st, k1, path)
      /\ c \in Names => Round(st) = StepTo(st, k1, Push(path, c))
  <2>1. st.error = "none" /\ st.k <= Len(st.comps) /\ st \in States /\ st.comps = comps
    BY <1>1
  <2>2. c \in Components
    BY <2>1, RoundIs
  <2>3. ASSUME c = "..", path \notin {<<>>, <<Gap>>}
        PROVE  Round(st) = StepTo(st, k1, Pop(path) \o Closed(st))
    <3>1. Round(st) = NextTo(st, Pop(path))
      BY <2>1, <2>3, RoundIs
    <3>2. Pop(path) \in Seq(Components)
      BY <1>2, <2>3 DEF Pop
    <3> QED BY <2>1, <3>1, <3>2, NextIs
  <2>4. ASSUME c = "." PROVE Round(st) = StepTo(st, k1, path \o Closed(st))
    <3>1. Round(st) = NextTo(st, path)
      BY <2>1, <2>4, RoundIs
    <3> QED BY <1>2, <2>1, <3>1, NextIs
  <2>5. ASSUME c = Gap
        PROVE  Round(st) = IF k1 < N /\ comps[k1] = Gap THEN StepTo(st, k2, Push(path, Gap))
                           ELSE StepTo(st, k1, path)
    <3>1. Round(st) = IF k1 < N /\ comps[k1] = Gap THEN SlashTo(st, k2, path)
                      ELSE StepTo(st, k1, path)
      BY <2>1, <2>5, RoundIs
    <3>2. k2 \in Nat \ {0}
      BY <1>2
    <3>3. \/ SlashTo(st, k2, path).error = "overrun"
          \/ SlashTo(st, k2, path) = StepTo(st, k2, Push(path, Gap))
      BY <1>2, <2>1, <3>2, Slashes
    <3> QED BY <3>1, <3>3
  <2>6. ASSUME c \in Names PROVE Round(st) = StepTo(st, k1, Push(path, c))
    <3>1. Round(st) \in {Fails(st, "EINVAL"), StepTo(st, k1, Push(path, c))}
      BY <2>1, <2>6, RoundIs
    <3>2. Fails(st, "EINVAL").error = "EINVAL"
      BY <2>1, FailsTyped DEF PathErrors
    <3> QED BY <3>1, <3>2
  <2> QED BY <2>2, <2>3, <2>4, <2>5, <2>6
<1>5. \A i \in k1 .. N : comps[i] = ".." => comps[i - 1] \in Names
  <2> TAKE i \in k1 .. N
  <2>1. i \in 1 .. N /\ i # 1
    BY <1>2
  <2> QED BY <2>1
<1>6. ASSUME NEW j, NEW t, Ends(j, t), Round(st) = StepTo(st, j, t)
      PROVE  Goal
  <2>1. OnTheWay(StepTo(st, j, t), comps, mean) /\ StepTo(st, j, t).k > st.k
    BY <1>1, <1>2, <1>6, Arrives
  <2> QED BY <1>6, <2>1
<1> SUFFICES Goal
  OBVIOUS
<1> HIDE DEF Goal, k1, k2, N
<1>7. /\ mean[k] = Follow(mean[k - 1], c)
      /\ k1 <= N => mean[k1] = Follow(mean[k], comps[k1])
  <2>1. mean[k] = Follow(mean[k - 1], c)
    BY <1>2
  <2>2. ASSUME k1 <= N PROVE mean[k1] = Follow(mean[k], comps[k1])
    <3>1. k1 \in 1 .. N /\ k1 - 1 = k
      BY <1>3, <2>2
    <3>2. mean[k1] = Follow(mean[k1 - 1], comps[k1])
      BY <3>1 DEF N
    <3> QED BY <3>1, <3>2
  <2> QED BY <2>1, <2>2
<1>8. c \notin Names => (k1 <= N => (comps[k1] = ".." => FALSE))
  <2> SUFFICES ASSUME c \notin Names, k1 <= N, comps[k1] = ".." PROVE FALSE
    OBVIOUS
  <2>1. k1 \in k1 .. N /\ k1 - 1 = k
    BY <1>3
  <2>2. comps[k1 - 1] \in Names
    BY <1>5, <2>1
  <2> QED BY <2>1, <2>2
<1>9. "." \notin Names /\ ".." \notin Names /\ Gap \notin Names
  BY DEF Installed
<1> HIDE DEF k, c, path, Ends
<1>10. CASE c = ".."
  <2>1. PICK f \in Seq(Components), d \in Names : path = Push(f, d)
    BY <1>1, <1>10 DEF Named
  <2>2. d \in Components /\ d # Gap
    BY <1>9 DEF Components
  <2>3. path \notin {<<>>, <<Gap>>} /\ Pop(path) = f
    BY <2>1, <2>2, PopPush
  <2>4. Clean(path) = Push(Clean(f), d)
    BY <2>1, <2>2, CleanPush DEF Keep, Push
  <2>5. Clean(f) \in Seq(Components)
    BY <2>2, CleanAppend
  <2>6. Push(Clean(f), d) # <<>> /\ Pop(Push(Clean(f), d)) = Clean(f)
    BY <2>2, <2>5, PopPush
  <2>7. mean[k] = Clean(f)
    <3>1. mean[k] = Follow(Push(Clean(f), d), "..")
      BY <1>1, <1>7, <1>10, <2>4
    <3> QED BY <2>6, <3>1, FollowIs
  <2> DEFINE t == f \o Closed(st)
  <2>8. Round(st) = StepTo(st, k1, t)
    BY <1>4, <1>10, <2>3
  <2>9. t \in Seq(Components) /\ Clean(t) = Clean(f)
    BY SlashNothing
  <2>10. c \notin Names
    BY <1>9, <1>10
  <2> HIDE DEF t
  <2>11. Clean(t) = mean[k1 - 1]
    BY <1>3, <2>7, <2>9
  <2>12. k1 <= N => (comps[k1] = ".." => Named(t))
    BY <1>8, <2>10
  <2>13. Ends(k1, t)
    BY <1>3, <2>9, <2>11, <2>12 DEF Ends
  <2> QED BY <1>6, <2>8, <2>13
<1>11. CASE c = "."
  <2> DEFINE t == path \o Closed(st)
  <2>1. Round(st) = StepTo(st, k1, t)
    BY <1>4, <1>11
  <2>2. t \in Seq(Components) /\ Clean(t) = Clean(path)
    BY <1>2, SlashNothing
  <2>3. mean[k] = mean[k - 1]
    BY <1>7, <1>11, FollowIs
  <2>4. c \notin Names
    BY <1>9, <1>11
  <2> HIDE DEF t
  <2>5. Clean(t) = mean[k1 - 1]
    BY <1>1, <1>3, <2>2, <2>3
  <2>6. k1 <= N => (comps[k1] = ".." => Named(t))
    BY <1>8, <2>4
  <2>7. Ends(k1, t)
    BY <1>3, <2>2, <2>5, <2>6 DEF Ends
  <2> QED BY <1>6, <2>1, <2>7
<1>12. CASE c = Gap
  <2>1. mean[k] = mean[k - 1]
    BY <1>7, <1>12, FollowIs
  <2>2. CASE k1 < N /\ comps[k1] = Gap
    <3> DEFINE t == Push(path, Gap)
    <3>1. Round(st) = StepTo(st, k2, t)
      BY <1>4, <1>12, <2>2
    <3>2. t \in Seq(Components)
      BY <1>2, PopPush
    <3>3. Clean(t) = Clean(path)
      BY <1>2, CleanPush DEF Keep
    <3>4. k1 <= N
      BY <1>3, <2>2, <1>2
    <3>5. mean[k1] = mean[k]
      <4>1. mean[k1] = Follow(mean[k], Gap)
        BY <1>7, <2>2, <3>4
      <4> QED BY <4>1, FollowIs
    <3>6. k2 <= N => (comps[k2] = ".." => Named(t))
      <4> SUFFICES ASSUME k2 <= N, comps[k2] = ".." PROVE FALSE
        OBVIOUS
      <4>1. comps[k2 - 1] \in Names
        BY <1>5, <1>3
      <4> QED BY <1>9, <1>3, <2>2, <4>1
    <3> HIDE DEF t
    <3>7. Clean(t) = mean[k2 - 1]
      BY <1>1, <1>3, <2>1, <3>3, <3>5
    <3>8. Ends(k2, t)
      BY <1>3, <2>2, <3>2, <3>6, <3>7 DEF Ends
    <3> QED BY <1>6, <3>1, <3>8
  <2>3. CASE ~ (k1 < N /\ comps[k1] = Gap)
    <3>1. Round(st) = StepTo(st, k1, path)
      BY <1>4, <1>12, <2>3
    <3>2. c \notin Names
      BY <1>9, <1>12
    <3>3. Clean(path) = mean[k1 - 1]
      BY <1>1, <1>3, <2>1
    <3>4. k1 <= N => (comps[k1] = ".." => Named(path))
      BY <1>8, <3>2
    <3>5. Ends(k1, path)
      BY <1>2, <1>3, <3>3, <3>4 DEF Ends
    <3> QED BY <1>6, <3>1, <3>5
  <2> QED BY <2>2, <2>3
<1>13. CASE c \in Names
  <2> DEFINE t == Push(path, c)
  <2>1. Round(st) = StepTo(st, k1, t)
    BY <1>4, <1>13
  <2>2. t \in Seq(Components)
    BY <1>2, <1>4, PopPush
  <2>3. Clean(t) = Push(Clean(path), c)
    BY <1>2, <1>4, <1>9, <1>13, CleanPush DEF Keep, Push
  <2>4. mean[k] = Push(mean[k - 1], c)
    BY <1>7, <1>13, FollowIs
  <2>5. Named(t)
    BY <1>2, <1>13 DEF Named
  <2> HIDE DEF t
  <2>6. Clean(t) = mean[k1 - 1]
    BY <1>1, <1>3, <2>3, <2>4
  <2>7. Ends(k1, t)
    BY <1>3, <2>2, <2>5, <2>6 DEF Ends
  <2> QED BY <1>6, <2>1, <2>7
<1> QED
  BY <1>4, <1>10, <1>11, <1>12, <1>13 DEF Components

\* The types of the first state of the loop.
LEMMA OutsetTyped ==
  ASSUME Installed, NEW absolute \in BOOLEAN, NEW comps \in Seq(Components)
  PROVE  /\ Outset(absolute, comps) \in States
         /\ Start(absolute) \in Seq(Names) /\ Start(absolute) \in Seq(Components)
         /\ Outset(absolute, comps).k = 1 /\ Outset(absolute, comps).comps = comps
         /\ Outset(absolute, comps).abspath = Start(absolute)
         /\ Outset(absolute, comps).error
              = IF Chars(Start(absolute)) - 2 > Limit THEN "EINVAL" ELSE "none"
<1>1. Start(absolute) \in Seq(Components) /\ Start(absolute) \in Seq(Names)
  BY DEF Installed, Components, Start
<1> QED
  BY <1>1 DEF Outset, States, PathErrors

\* What comes behind the loop.
Done(st) ==
  IF st.error # "none" THEN [error |-> st.error, path |-> <<>>]
  ELSE IF Chars(st.abspath) >= BufferSize THEN [error |-> "overrun", path |-> <<>>]
  ELSE [error |-> "none", path |-> st.abspath]

\* alloc_libc_to_base_path is its rounds one after the other.
LEMMA AbsoluteUnfolds ==
  ASSUME Installed, NEW absolute \in BOOLEAN, NEW comps \in Seq(Components)
  PROVE  \E after \in [0 .. Len(comps) -> States] :
           /\ after[0] = Outset(absolute, comps)
           /\ \A n \in 1 .. Len(comps) : after[n] = Round(after[n - 1])
           /\ Absolute(absolute, comps) = Done(after[Len(comps)])
<1> DEFINE N == Len(comps)
           init == Outset(absolute, comps)
           E(m, n) == IF n = 0 THEN init ELSE Round(m[n - 1])
           A(m) == [n \in 0 .. N |-> E(m, n)]
           after == CHOOSE m : m = A(m)
           step == [n \in 1 .. N |-> [s \in States |-> Round(s)]]
<1>1. N \in Nat
  BY LenProperties
<1>2. init \in States
  BY OutsetTyped
<1>3. Absolute(absolute, comps) = Done(after[N])
  BY Zenon DEF Absolute, Done
<1>4. step \in [1 .. N -> [States -> States]]
  BY RoundTyped
<1> HIDE DEF step, init
<1>5. PICK g \in [0 .. N -> States] : g[0] = init /\ \A n \in 1 .. N : g[n] = step[n][g[n - 1]]
  <2>1. PICK g : Rounds(g, N, States, init, step)
    BY <1>1, <1>2, <1>4, Recursion
  <2> QED BY <2>1 DEF Rounds
<1>6. \A n \in 1 .. N : g[n] = Round(g[n - 1])
  <2> TAKE n \in 1 .. N
  <2>1. n - 1 \in 0 .. N
    BY <1>1
  <2>2. g[n - 1] \in States
    BY <1>5, <2>1
  <2> QED BY <1>5, <2>2 DEF step
<1>7. g = A(g)
  <2>1. \A n \in 0 .. N : g[n] = E(g, n)
    BY <1>1, <1>5, <1>6
  <2> HIDE DEF E
  <2> QED BY <1>5, <2>1
<1>8. after = A(after)
  <2> HIDE DEF A
  <2> QED BY <1>7
<1>9. \A n \in 0 .. N : after[n] = E(after, n)
  <2> HIDE DEF E, after
  <2> QED BY <1>8
<1> HIDE DEF after
<1> DEFINE I == {n \in Nat : n <= N => after[n] = g[n]}
<1>10. N \in I
  <2>1. 0 \in I
    BY <1>1, <1>5, <1>9
  <2>2. ASSUME NEW n \in Nat, n \in I PROVE n + 1 \in I
    <3> SUFFICES ASSUME n + 1 <= N PROVE after[n + 1] = g[n + 1]
      OBVIOUS
    <3>1. n + 1 \in 0 .. N /\ n + 1 \in 1 .. N /\ n + 1 # 0 /\ n + 1 - 1 = n
      BY <1>1
    <3>2. after[n] = g[n]
      BY <1>1, <2>2
    <3>3. after[n + 1] = Round(after[n])
      BY <1>9, <3>1
    <3>4. g[n + 1] = Round(g[n])
      BY <1>6, <3>1
    <3> QED BY <3>2, <3>3, <3>4
  <2> HIDE DEF I
  <2> QED BY <1>1, <2>1, <2>2, SetInduction
<1>11. after[N] = g[N]
  BY <1>1, <1>10
<1> QED
  BY <1>3, <1>5, <1>6, <1>11 DEF init

\* What alloc_libc_to_base_path returns.
Answers == [error : PathErrors, path : Seq(Components)]

\* The first state means what stands before the path, if that has room.
LEMMA OutsetMeans ==
  ASSUME Installed, NEW absolute \in BOOLEAN, NEW comps \in Seq(Components),
         ParentsOfNames(absolute, comps), NEW mean, mean[0] = Start(absolute),
         Outset(absolute, comps).error = "none"
  PROVE  OnTheWay(Outset(absolute, comps), comps, mean)
<1> DEFINE st == Outset(absolute, comps)
           N == Len(comps)
<1>1. N \in Nat /\ DOMAIN comps = 1 .. N
  BY LenProperties
<1>2. /\ st \in States /\ st.comps = comps /\ st.error = "none" /\ st.k = 1
      /\ st.abspath = Start(absolute)
  BY OutsetTyped
<1>3. st.k <= N + 1 /\ st.k - 1 = 0
  BY <1>1, <1>2
<1>4. Clean(st.abspath) = mean[0]
  <2>1. Start(absolute) \in Seq(Names)
    BY OutsetTyped
  <2> QED BY <1>2, <2>1, CleanNames
<1>5. st.k <= N => (comps[st.k] = ".." => Named(st.abspath))
  <2> SUFFICES ASSUME 1 <= N, comps[1] = ".." PROVE Named(st.abspath)
    BY <1>2
  <2>1. ~ absolute /\ Cwd # <<>> /\ Cwd \in Seq(Names)
    <3>1. 1 \in DOMAIN comps
      BY <1>1
    <3>2. ~ absolute /\ Cwd # <<>>
      BY <3>1, Zenon DEF ParentsOfNames
    <3> QED BY <3>2 DEF Installed
  <2> DEFINE f == SubSeq(Cwd, 1, Len(Cwd) - 1)
             d == Cwd[Len(Cwd)]
  <2>2. Cwd = Append(f, d) /\ f \in Seq(Names) /\ d \in Names
    BY <2>1
  <2> HIDE DEF f, d
  <2>3. f \in Seq(Components) /\ Cwd = Push(f, d)
    BY <2>2 DEF Components, Push
  <2> QED BY <1>2, <2>1, <2>2, <2>3 DEF Named, Start
<1> HIDE DEF st
<1>6. OnTheWay(st, comps, mean)
  BY <1>2, <1>3, <1>4, <1>5 DEF OnTheWay
<1> QED
  BY <1>6 DEF st

\* Where every ".." stands behind a name, the loop ends with the meaning, if it
\* does not end early.
LEMMA AbsoluteMeans ==
  ASSUME Installed, NEW absolute \in BOOLEAN, NEW comps \in Seq(Components),
         ParentsOfNames(absolute, comps), Absolute(absolute, comps).error = "none"
  PROVE  LET a == Absolute(absolute, comps)
         IN /\ a \in Answers
            /\ a = [error |-> "none", path |-> a.path]
            /\ a.path \in Seq(Components)
            /\ Clean(a.path) = Meaning(absolute, comps)
<1> DEFINE N == Len(comps)
<1>1. N \in Nat /\ DOMAIN comps = 1 .. N
  BY LenProperties
<1>2. PICK mean \in [0 .. N -> Seq(Names)] :
         /\ mean[0] = Start(absolute)
         /\ \A n \in 1 .. N : mean[n] = Follow(mean[n - 1], comps[n])
         /\ Meaning(absolute, comps) = mean[N]
  BY MeaningUnfolds
<1>3. PICK after \in [0 .. N -> States] :
         /\ after[0] = Outset(absolute, comps)
         /\ \A n \in 1 .. N : after[n] = Round(after[n - 1])
         /\ Absolute(absolute, comps) = Done(after[N])
  BY AbsoluteUnfolds
<1>4. \A n \in 1 .. N : comps[n] = ".." => n = 1 \/ comps[n - 1] \in Names
  BY <1>1 DEF ParentsOfNames
<1>5. after[0].error = "none" => OnTheWay(after[0], comps, mean) /\ after[0].k = 1
  BY <1>2, <1>3, OutsetTyped, OutsetMeans
<1> DEFINE There(n) == after[n].error = "none" =>
                         /\ OnTheWay(after[n], comps, mean)
                         /\ after[n].k > n \/ after[n].k = N + 1
           I == {n \in Nat : n <= N => There(n)}
<1>6. N \in I
  <2>1. 0 \in I
    BY <1>5
  <2>2. ASSUME NEW n \in Nat, n \in I PROVE n + 1 \in I
    <3> DEFINE st == after[n]
               m == n + 1
    <3> SUFFICES ASSUME m <= N, after[m].error = "none"
                 PROVE  /\ OnTheWay(after[m], comps, mean)
                        /\ after[m].k > m \/ after[m].k = N + 1
      OBVIOUS
    <3>1. There(n)
      BY <1>1, <2>2
    <3>2. m \in 1 .. N /\ m - 1 = n
      BY <1>1
    <3>3. after[m] = Round(st)
      BY <1>3, <3>2
    <3>4. st.error = "none"
      <4>1. st.error # "none" => Round(st) = st
        BY DEF Round
      <4> QED BY <3>3, <4>1
    <3>5. OnTheWay(st, comps, mean) /\ (st.k > n \/ st.k = N + 1)
      BY <3>1, <3>4
    <3>6. st \in States /\ st.k \in Nat /\ st.comps = comps /\ st.k <= N + 1
      BY <3>5 DEF OnTheWay, States
    <3> HIDE DEF st, m
    <3>7. CASE st.k <= N
      <4>1. OnTheWay(Round(st), comps, mean) /\ Round(st).k > st.k
        BY <1>2, <1>4, <3>3, <3>5, <3>7, RoundMeans
      <4>2. Round(st).k \in Nat
        BY <4>1 DEF OnTheWay, States
      <4>3. Round(st).k > n + 1
        BY ONLY <1>1, <3>6, <3>5, <3>7, <4>1, <4>2, n \in Nat
      <4> QED BY <3>3, <4>1, <4>3 DEF m
    <3>8. CASE st.k > N
      <4>1. st.k = N + 1
        <5>1. st.k \in Nat /\ st.k <= N + 1
          BY <3>6
        <5> QED BY ONLY <1>1, <3>8, <5>1
      <4>2. Round(st) = st
        BY <3>6, <3>8 DEF Round
      <4> QED BY <3>3, <3>5, <4>1, <4>2 DEF m
    <3> QED BY <1>1, <3>6, <3>7, <3>8
  <2> HIDE DEF I
  <2> QED BY <1>1, <2>1, <2>2, SetInduction
<1>7. There(N)
  BY <1>1, <1>6
<1>8. after[N].error = "none"
  BY <1>3 DEF Done
<1>9. after[N] \in States /\ after[N].k = N + 1 /\ Clean(after[N].abspath) = mean[N]
  <2>1. /\ after[N] \in States /\ after[N].k <= N + 1
        /\ Clean(after[N].abspath) = mean[after[N].k - 1]
    BY <1>7, <1>8 DEF OnTheWay
  <2>2. after[N].k = N + 1
    BY <1>1, <1>7, <1>8, <2>1 DEF States
  <2> QED BY <1>1, <2>1, <2>2
<1>10. Absolute(absolute, comps) = [error |-> "none", path |-> after[N].abspath]
  BY <1>3, <1>8 DEF Done
<1>11. after[N].abspath \in Seq(Components)
  BY <1>9 DEF States
<1> QED
  BY <1>2, <1>9, <1>10, <1>11 DEF Answers, PathErrors

\* What each round keeps holds behind the loop.
LEMMA Loop ==
  ASSUME NEW N \in Nat, NEW after, \A n \in 1 .. N : after[n] = Round(after[n - 1]),
         NEW T, after[0] \in T, \A st \in T : Round(st) \in T
  PROVE  after[N] \in T
<1> DEFINE I == {n \in Nat : n <= N => after[n] \in T}
<1>1. 0 \in I
  OBVIOUS
<1>2. ASSUME NEW n \in Nat, n \in I PROVE n + 1 \in I
  <2> SUFFICES ASSUME n + 1 <= N PROVE after[n + 1] \in T
    OBVIOUS
  <2>1. n + 1 \in 1 .. N /\ n + 1 - 1 = n /\ n <= N
    OBVIOUS
  <2>2. after[n + 1] = Round(after[n])
    BY <2>1
  <2> QED BY <1>2, <2>1, <2>2
<1> HIDE DEF I
<1>3. N \in I
  BY <1>1, <1>2, SetInduction
<1> QED
  BY <1>3 DEF I

\* What a component less, or a slash, does to the length.
LEMMA CharsOf ==
  ASSUME Installed, NEW path \in Seq(Components)
  PROVE  /\ Chars(path) \in Nat
         /\ Chars(Push(path, Gap)) = Chars(path) + 1
         /\ \A c \in Components : Chars(Push(path, c)) = Chars(path) + Width[c] + 1
         /\ path # <<>> => /\ Pop(path) \in Seq(Components)
                           /\ Chars(Pop(path)) \in Nat /\ Chars(Pop(path)) + 1 <= Chars(path)
         /\ \A st : \/ Chars(path \o Closed(st)) = Chars(path)
                    \/ Chars(path \o Closed(st)) = Chars(path) + 1 /\ st.k < Len(st.comps)
<1>1. Gap \in Components /\ Width[Gap] = 0
  BY DEF Components, Installed
<1>2. Chars(path) \in Nat /\ Chars(Push(path, Gap)) = Chars(path) + 1
  <2>1. Chars(path) \in Nat /\ Chars(Append(path, Gap)) = Chars(path) + 0 + 1
    BY <1>1, CharsAppend
  <2> QED BY <2>1 DEF Push
<1>3. \A c \in Components : Chars(Push(path, c)) = Chars(path) + Width[c] + 1
  BY CharsAppend DEF Push
<1>4. ASSUME path # <<>>
      PROVE  /\ Pop(path) \in Seq(Components)
             /\ Chars(Pop(path)) \in Nat /\ Chars(Pop(path)) + 1 <= Chars(path)
  <2> DEFINE f == SubSeq(path, 1, Len(path) - 1)
             d == path[Len(path)]
  <2>1. path = Append(f, d) /\ f \in Seq(Components) /\ d \in Components
    BY <1>4
  <2>2. Pop(path) = f
    BY DEF Pop
  <2> HIDE DEF f, d
  <2>3. Chars(f) \in Nat /\ Chars(path) = Chars(f) + Width[d] + 1
    BY <2>1, CharsAppend
  <2>4. Width[d] \in Nat
    BY <2>1 DEF Installed
  <2> QED BY <2>1, <2>2, <2>3, <2>4
<1>5. ASSUME NEW st
      PROVE  \/ Chars(path \o Closed(st)) = Chars(path)
             \/ Chars(path \o Closed(st)) = Chars(path) + 1 /\ st.k < Len(st.comps)
  <2>1. CASE st.k < Len(st.comps)
    <3>1. path \o Closed(st) = Push(path, Gap)
      BY <1>1, <2>1 DEF Closed, Push
    <3> QED BY <1>2, <2>1, <3>1
  <2>2. CASE ~ (st.k < Len(st.comps))
    <3>1. path \o Closed(st) = path
      BY <2>2 DEF Closed
    <3> QED BY <3>1
  <2> QED BY <2>1, <2>2
<1> QED
  BY <1>2, <1>3, <1>4, <1>5

\* The characters of the first components of a path, their slashes included.
Sums(part, comps) ==
  /\ part \in [0 .. Len(comps) -> Nat] /\ part[0] = 1
  /\ \A n \in 1 .. Len(comps) : part[n] = part[n - 1] + Width[comps[n]] + 1

\* The buffer is no longer than what stands before the path and in it up to here.
Behindhand(st, part, s) ==
  /\ st.k <= Len(st.comps) + 1 /\ Chars(st.abspath) < s + part[st.k - 1]

\* A round of a path that has room takes no more than its components, and refuses
\* only what has no component to go back from.
LEMMA RoundFits ==
  ASSUME Installed, NEW st \in States, st.error = "none", st.k <= Len(st.comps),
         NEW s \in Nat, NEW part, Sums(part, st.comps), Behindhand(st, part, s),
         \A n \in 0 .. Len(st.comps) : s + part[n] <= BufferSize
  PROVE  /\ \/ Round(st).error = "none" /\ Behindhand(Round(st), part, s)
            \/ /\ Round(st).error = "EINVAL"
               /\ st.comps[st.k] = ".." /\ st.abspath \in {<<>>, <<Gap>>}
<1> DEFINE c == st.comps[st.k]
           path == st.abspath
           k == st.k
           N == Len(st.comps)
           x == Chars(path)
           k1 == k + 1
           k2 == k + 2
           Goal == \/ Round(st).error = "none" /\ Behindhand(Round(st), part, s)
                   \/ Round(st).error = "EINVAL" /\ c = ".." /\ path \in {<<>>, <<Gap>>}
<1>1. /\ path \in Seq(Components) /\ N \in Nat /\ k \in 1 .. N /\ x \in Nat
      /\ k1 \in Nat \ {0} /\ k2 \in Nat \ {0}
  <2>1. path \in Seq(Components) /\ st.comps \in Seq(Components) /\ k \in Nat \ {0}
    BY DEF States
  <2>2. N \in Nat /\ k <= N
    BY <2>1
  <2>3. x \in Nat
    BY <2>1, CharsOf
  <2> QED BY ONLY <2>1, <2>2, <2>3
<1>2. c \in Components /\ Width[c] \in Nat /\ Limit \in Nat /\ BufferSize = Limit + 3
  BY RoundIs DEF Installed, BufferSize
<1>3. /\ part[k - 1] \in Nat /\ part[k] \in Nat /\ part[k] = part[k - 1] + Width[c] + 1
      /\ k < N => part[k1] \in Nat /\ part[k1] = part[k] + Width[st.comps[k1]] + 1
  <2>1. k - 1 \in 0 .. N /\ k \in 0 .. N /\ (k < N => k1 \in 1 .. N /\ k1 \in 0 .. N /\ k1 - 1 = k)
    BY <1>1
  <2> QED BY <1>1, <2>1 DEF Sums
<1>4. x < s + part[k - 1] /\ s + part[k] <= BufferSize /\ s + part[k - 1] <= BufferSize
  BY <1>1 DEF Behindhand
<1>5. /\ ~ (x >= BufferSize) /\ ~ (x + Width[c] - 1 > Limit)
      /\ x < s + part[k] /\ x + 1 < s + part[k] /\ x + Width[c] + 1 < s + part[k]
      /\ k < N => x + 1 < s + part[k1]
  <2> DEFINE p0 == part[k - 1]
             p1 == part[k]
             p2 == part[k1]
             w == Width[c]
             v == Width[st.comps[k1]]
  <2>1. k < N => v \in Nat
    <3> SUFFICES ASSUME k < N PROVE v \in Nat
      OBVIOUS
    <3>1. k1 \in 1 .. N /\ st.comps \in Seq(Components)
      BY <1>1 DEF States
    <3>2. st.comps[k1] \in Components
      BY <3>1, ElementOfSeq
    <3> QED BY <3>2 DEF Installed
  <2>2. /\ p0 \in Nat /\ p1 \in Nat /\ w \in Nat /\ p1 = p0 + w + 1
        /\ k < N => p2 \in Nat /\ p2 = p1 + v + 1
        /\ x < s + p0 /\ s + p1 <= BufferSize /\ s + p0 <= BufferSize
    BY <1>2, <1>3, <1>4
  <2>3. x \in Nat /\ Limit \in Nat /\ BufferSize = Limit + 3 /\ s \in Nat
    BY <1>1, <1>2
  <2> HIDE DEF p0, p1, p2, w, v, x, k, N
  <2>4. /\ ~ (x >= BufferSize) /\ ~ (x + w - 1 > Limit)
        /\ x < s + p1 /\ x + 1 < s + p1 /\ x + w + 1 < s + p1
    BY ONLY <2>2, <2>3
  <2>5. k < N => x + 1 < s + p2
    BY ONLY <2>1, <2>2, <2>3
  <2> QED BY <2>4, <2>5 DEF p0, p1, p2, w, x, k, N
<1>6. ASSUME NEW j \in Nat \ {0}, j <= N + 1, NEW t \in Seq(Components),
             Chars(t) < s + part[j - 1], Round(st) = StepTo(st, j, t)
      PROVE  Goal
  <2>1. /\ StepTo(st, j, t).k = j /\ StepTo(st, j, t).abspath = t
        /\ StepTo(st, j, t).comps = st.comps /\ StepTo(st, j, t).error = "none"
    BY Moves
  <2> QED BY <1>6, <2>1 DEF Behindhand
<1>7. ASSUME NEW t \in Seq(Components), Chars(t) <= x, Round(st) = NextTo(st, t),
             Chars(t) + 1 < s + part[k]
      PROVE  Goal
  <2>1. Chars(t) \in Nat /\ t \o Closed(st) \in Seq(Components)
    BY <1>7, CharsOf, SlashNothing
  <2>2. ~ (Chars(t) >= BufferSize)
    BY <1>1, <1>2, <1>5, <1>7, <2>1
  <2>3. NextTo(st, t) = StepTo(st, k1, t \o Closed(st))
    BY <1>7, <2>2, NextIs
  <2>4. Chars(t \o Closed(st)) \in {Chars(t), Chars(t) + 1}
    BY <1>7, CharsOf
  <2>5. Chars(t \o Closed(st)) < s + part[k1 - 1] /\ k1 <= N + 1
    <3>1. k1 - 1 = k /\ k1 <= N + 1
      BY <1>1
    <3>2. Chars(t) < s + part[k]
      BY <1>3, <1>7, <2>1
    <3> QED BY <1>7, <2>4, <3>1, <3>2
  <2> QED BY <1>1, <1>6, <1>7, <2>1, <2>3, <2>5
<1> SUFFICES Goal
  OBVIOUS
<1> HIDE DEF Goal
<1>8. CASE c = ".." /\ path \in {<<>>, <<Gap>>}
  <2>1. Round(st) = Fails(st, "EINVAL")
    BY <1>8, RoundIs
  <2>2. Round(st).error = "EINVAL"
    BY <2>1, FailsTyped DEF PathErrors
  <2> QED BY <1>8, <2>2 DEF Goal
<1>9. CASE c = ".." /\ path \notin {<<>>, <<Gap>>}
  <2>1. Round(st) = NextTo(st, Pop(path))
    BY <1>9, RoundIs
  <2>2. Pop(path) \in Seq(Components) /\ Chars(Pop(path)) \in Nat /\ Chars(Pop(path)) + 1 <= x
    BY <1>1, <1>9, CharsOf
  <2>3. Chars(Pop(path)) <= x /\ Chars(Pop(path)) + 1 < s + part[k]
    <3> DEFINE y == Chars(Pop(path))
               p == part[k]
    <3>1. y \in Nat /\ y + 1 <= x
      BY <2>2
    <3>2. x \in Nat /\ s \in Nat /\ p \in Nat /\ x < s + p
      BY <1>1, <1>3, <1>5
    <3> HIDE DEF y, p, x
    <3>3. y <= x /\ y + 1 < s + p
      BY ONLY <3>1, <3>2
    <3> QED BY <3>3 DEF y, p
  <2> QED BY <1>7, <2>1, <2>2, <2>3
<1>10. CASE c = "."
  <2>1. Round(st) = NextTo(st, path)
    BY <1>10, RoundIs
  <2>2. x <= x /\ x + 1 < s + part[k]
    BY <1>1, <1>5
  <2> QED BY <1>1, <1>7, <2>1, <2>2
<1>11. CASE c = Gap /\ k1 < N /\ st.comps[k1] = Gap
  <2>1. Round(st) = SlashTo(st, k2, path)
    BY <1>11, RoundIs
  <2>2. ~ (x >= BufferSize)
    BY <1>5
  <2>3. SlashTo(st, k2, path) = StepTo(st, k2, Push(path, Gap))
    BY <1>1, <2>2, Slashes
  <2>4. Push(path, Gap) \in Seq(Components) /\ Chars(Push(path, Gap)) = x + 1
    BY <1>1, CharsOf DEF Push, Components
  <2>5. k2 <= N + 1 /\ k2 - 1 = k1 /\ k < N
    BY <1>1, <1>11
  <2>6. x + 1 < s + part[k1]
    BY <1>5, <2>5
  <2> QED BY <1>1, <1>6, <2>1, <2>3, <2>4, <2>5, <2>6
<1>12. CASE c = Gap /\ ~ (k1 < N /\ st.comps[k1] = Gap)
  <2>1. Round(st) = StepTo(st, k1, path)
    BY <1>12, RoundIs
  <2>2. x < s + part[k1 - 1] /\ k1 <= N + 1
    BY <1>1, <1>5
  <2> QED BY <1>1, <1>6, <2>1, <2>2
<1>13. CASE c \in Names
  <2>1. ~ (x + Width[c] - 1 > Limit)
    BY <1>5
  <2>2. Round(st) = StepTo(st, k1, Push(path, c))
    BY <1>13, <2>1, RoundIs
  <2>3. Push(path, c) \in Seq(Components)
    BY <1>1, <1>2 DEF Push
  <2>4. Chars(Push(path, c)) = x + Width[c] + 1
    BY <1>1, <1>2, CharsOf
  <2>5. Chars(Push(path, c)) < s + part[k1 - 1] /\ k1 <= N + 1
    BY <1>1, <1>5, <2>4
  <2> QED BY <1>1, <1>6, <2>2, <2>3, <2>5
<1> QED
  BY <1>2, <1>8, <1>9, <1>10, <1>11, <1>12, <1>13 DEF Components

\* A round that copies no slash but behind a name or a ".." stays in the buffer.
LEMMA RoundShort ==
  ASSUME Installed, NEW st \in States, st.error = "none", st.k <= Len(st.comps),
         st.comps[st.k] \in {Gap, "."} => st.k = Len(st.comps), Chars(st.abspath) < BufferSize
  PROVE  /\ Round(st).error # "overrun"
         /\ Round(st).error = "none" => Chars(Round(st).abspath) < BufferSize
<1> DEFINE c == st.comps[st.k]
           path == st.abspath
           k == st.k
           N == Len(st.comps)
           x == Chars(path)
           k1 == k + 1
           Goal == /\ Round(st).error # "overrun"
                   /\ Round(st).error = "none" => Chars(Round(st).abspath) < BufferSize
<1>1. path \in Seq(Components) /\ N \in Nat /\ k \in 1 .. N /\ x \in Nat /\ k1 \in Nat \ {0}
  <2>1. path \in Seq(Components) /\ st.comps \in Seq(Components) /\ k \in Nat \ {0}
    BY DEF States
  <2>2. N \in Nat /\ k <= N
    BY <2>1
  <2>3. x \in Nat
    BY <2>1, CharsOf
  <2> QED BY ONLY <2>1, <2>2, <2>3
<1>2. c \in Components /\ Width[c] \in Nat /\ Limit \in Nat /\ BufferSize = Limit + 3
  BY RoundIs DEF Installed, BufferSize
<1>3. ASSUME NEW t \in Seq(Components), Chars(t) < BufferSize, Round(st) = StepTo(st, k1, t)
      PROVE  Goal
  <2>1. StepTo(st, k1, t).abspath = t /\ StepTo(st, k1, t).error = "none"
    BY <1>1, Moves
  <2> QED BY <1>3, <2>1
<1> SUFFICES Goal
  OBVIOUS
<1>4. Fails(st, "EINVAL").error = "EINVAL"
  BY FailsTyped DEF PathErrors
<1> HIDE DEF Goal
<1>5. CASE c = ".." /\ path \in {<<>>, <<Gap>>}
  <2>1. Round(st) = Fails(st, "EINVAL")
    BY <1>5, RoundIs
  <2> QED BY <1>4, <2>1 DEF Goal
<1>6. CASE c = ".." /\ path \notin {<<>>, <<Gap>>}
  <2> DEFINE t == Pop(path)
             u == t \o Closed(st)
  <2>1. Round(st) = NextTo(st, t)
    BY <1>6, RoundIs
  <2>2. t \in Seq(Components) /\ Chars(t) \in Nat /\ Chars(t) + 1 <= x
    BY <1>1, <1>6, CharsOf
  <2>3. u \in Seq(Components) /\ Chars(u) \in {Chars(t), Chars(t) + 1}
    BY <2>2, CharsOf, SlashNothing
  <2>4. ~ (Chars(t) >= BufferSize) /\ Chars(u) < BufferSize
    BY <1>1, <1>2, <2>2, <2>3
  <2> HIDE DEF t
  <2>5. NextTo(st, t) = StepTo(st, k1, u)
    BY <2>2, <2>4, NextIs
  <2> HIDE DEF u
  <2> QED BY <1>3, <2>1, <2>3, <2>4, <2>5
<1>7. CASE c = "."
  <2> DEFINE u == path \o Closed(st)
  <2>1. Round(st) = NextTo(st, path) /\ k = N
    BY <1>7, RoundIs
  <2>2. NextTo(st, path) = StepTo(st, k1, u)
    BY <1>1, <2>1, NextIs
  <2>3. u \in Seq(Components) /\ Chars(u) = x
    <3>1. ~ (st.k < Len(st.comps))
      BY <1>1, <2>1
    <3>2. u = path /\ path \in Seq(Components)
      BY <1>1, <3>1 DEF Closed
    <3> QED BY <3>2
  <2> HIDE DEF u
  <2> QED BY <1>3, <2>1, <2>2, <2>3
<1>8. CASE c = Gap
  <2>1. k = N
    BY <1>8
  <2>2. ~ (k1 < N)
    BY <1>1, <2>1
  <2>3. Round(st) = StepTo(st, k1, path)
    BY <1>8, <2>2, RoundIs
  <2> QED BY <1>1, <1>3, <2>3
<1>9. CASE c \in Names
  <2>1. CASE x + Width[c] - 1 > Limit
    <3>1. Round(st) = Fails(st, "EINVAL")
      BY <1>9, <2>1, RoundIs
    <3> QED BY <1>4, <3>1 DEF Goal
  <2>2. CASE ~ (x + Width[c] - 1 > Limit)
    <3>1. Round(st) = StepTo(st, k1, Push(path, c))
      BY <1>9, <2>2, RoundIs
    <3>2. Push(path, c) \in Seq(Components)
      BY <1>1, <1>2 DEF Push
    <3>3. Chars(Push(path, c)) = x + Width[c] + 1
      BY <1>1, <1>2, CharsOf
    <3>4. Chars(Push(path, c)) < BufferSize
      BY ONLY <1>1, <1>2, <2>2, <3>3
    <3> QED BY <1>3, <3>1, <3>2, <3>4
  <2> QED BY <2>1, <2>2
<1> QED
  BY <1>2, <1>5, <1>6, <1>7, <1>8, <1>9 DEF Components

\* A path that has room stays in the buffer, and is refused only for a ".." that
\* has nothing to go back from.
LEMMA AbsoluteFits ==
  ASSUME Installed, NEW absolute \in BOOLEAN, NEW comps \in Seq(Components),
         Fits(absolute, comps)
  PROVE  /\ Absolute(absolute, comps).error # "overrun"
         /\ ParentsOfNames(absolute, comps) => Absolute(absolute, comps).error = "none"
<1> DEFINE N == Len(comps)
           s == Chars(Start(absolute))
<1>1. N \in Nat /\ DOMAIN comps = 1 .. N
  BY LenProperties
<1>2. PICK part : Sums(part, comps) /\ Chars(comps) = part[N]
  BY CharsUnfolds DEF Sums
<1>3. PICK after \in [0 .. N -> States] :
         /\ after[0] = Outset(absolute, comps)
         /\ \A n \in 1 .. N : after[n] = Round(after[n - 1])
         /\ Absolute(absolute, comps) = Done(after[N])
  BY AbsoluteUnfolds
<1>4. s \in Nat /\ Limit \in Nat /\ BufferSize = Limit + 3
  <2>1. Start(absolute) \in Seq(Components)
    BY OutsetTyped
  <2> QED BY <2>1, CharsOf DEF Installed, BufferSize
<1>5. \A n \in 0 .. N : part[n] \in Nat /\ part[n] >= 1 /\ s + part[n] <= BufferSize
  <2>1. \A n \in 1 .. N : part[n] \in Nat /\ part[n - 1] \in Nat /\ part[n - 1] <= part[n]
    <3> TAKE n \in 1 .. N
    <3>1. comps[n] \in Components /\ Width[comps[n]] \in Nat
      BY <1>1, ElementOfSeq DEF Installed
    <3>2. n \in 0 .. N /\ n - 1 \in 0 .. N
      BY <1>1
    <3>3. part[n] \in Nat /\ part[n - 1] \in Nat /\ part[n] = part[n - 1] + Width[comps[n]] + 1
      BY <1>2, <3>2 DEF Sums
    <3> QED BY <3>1, <3>3
  <2>2. part[N] \in Nat /\ part[0] = 1
    BY <1>1, <1>2 DEF Sums
  <2> DEFINE J == {n \in Nat : n <= N => part[n] \in Nat /\ part[n] >= 1}
             K == {n \in Nat : n <= N => part[N - n] \in Nat /\ part[N - n] <= part[N]}
  <2>3. ASSUME NEW n \in Nat PROVE n \in J
    <3>1. 0 \in J
      BY <2>2
    <3>2. ASSUME NEW i \in Nat, i \in J PROVE i + 1 \in J
      <4> SUFFICES ASSUME i + 1 <= N PROVE part[i + 1] \in Nat /\ part[i + 1] >= 1
        OBVIOUS
      <4>1. i + 1 \in 1 .. N /\ i + 1 - 1 = i /\ i <= N
        BY <1>1
      <4> QED BY <2>1, <3>2, <4>1
    <3> HIDE DEF J
    <3> QED BY <3>1, <3>2, SetInduction
  <2>4. ASSUME NEW n \in Nat PROVE n \in K
    <3>1. 0 \in K
      BY <1>1, <2>2
    <3>2. ASSUME NEW i \in Nat, i \in K PROVE i + 1 \in K
      <4> SUFFICES ASSUME i + 1 <= N
                   PROVE  part[N - (i + 1)] \in Nat /\ part[N - (i + 1)] <= part[N]
        OBVIOUS
      <4>1. N - i \in 1 .. N /\ N - i - 1 = N - (i + 1) /\ i <= N
        BY <1>1
      <4> QED BY <2>1, <2>2, <3>2, <4>1
    <3> HIDE DEF K
    <3> QED BY <3>1, <3>2, SetInduction
  <2> TAKE n \in 0 .. N
  <2>5. part[n] \in Nat /\ part[n] >= 1
    <3>1. n \in Nat /\ n <= N
      BY <1>1
    <3> QED BY <2>3, <3>1
  <2>6. part[n] <= part[N]
    <3>1. N - n \in Nat /\ N - n <= N /\ N - (N - n) = n
      BY <1>1
    <3>2. part[N - (N - n)] <= part[N]
      BY <2>4, <3>1
    <3> QED BY <3>1, <3>2
  <2>7. s + part[N] <= BufferSize
    BY <1>2 DEF Fits
  <2> QED BY <1>4, <2>2, <2>5, <2>6, <2>7
<1>6. /\ after[0] \in States /\ after[0].error = "none" /\ after[0].comps = comps
      /\ Behindhand(after[0], part, s)
  <2>1. s + 1 <= BufferSize
    <3>1. 0 \in 0 .. N /\ part[0] = 1
      BY <1>1, <1>2 DEF Sums
    <3> QED BY <1>5, <3>1
  <2>2. ~ (s - 2 > Limit)
    BY <1>4, <2>1
  <2>3. /\ after[0] \in States /\ after[0].error = "none" /\ after[0].comps = comps
        /\ after[0].k = 1 /\ after[0].abspath = Start(absolute)
    BY <1>3, <2>2, OutsetTyped
  <2>4. 1 <= N + 1 /\ 1 - 1 = 0 /\ s < s + part[0]
    BY <1>1, <1>2, <1>4 DEF Sums
  <2> QED BY <2>3, <2>4 DEF Behindhand
<1>7. ASSUME NEW st \in States, st.error = "none", st.comps = comps, Behindhand(st, part, s)
      PROVE  \/ Round(st).error = "none" /\ Behindhand(Round(st), part, s)
             \/ /\ Round(st).error = "EINVAL" /\ st.k <= N
                /\ comps[st.k] = ".." /\ st.abspath \in {<<>>, <<Gap>>}
  <2>1. st.k \in Nat
    BY DEF States
  <2>2. CASE st.k > N
    BY <1>7, <2>2 DEF Round
  <2>3. CASE st.k <= N
    BY <1>2, <1>4, <1>5, <1>7, <2>3, RoundFits
  <2> QED BY <1>1, <2>1, <2>2, <2>3
<1>8. ASSUME NEW st \in States, st.error = "none", st.comps = comps, Behindhand(st, part, s)
      PROVE  Done(st).error = "none"
  <2>1. st.k \in Nat \ {0} /\ st.k <= N + 1 /\ Chars(st.abspath) < s + part[st.k - 1]
    BY <1>8 DEF States, Behindhand
  <2>2. st.k - 1 \in 0 .. N
    BY <1>1, <2>1
  <2>3. Chars(st.abspath) \in Nat
    BY CharsOf DEF States
  <2>4. ~ (Chars(st.abspath) >= BufferSize)
    BY <1>4, <1>5, <2>1, <2>2, <2>3
  <2> QED BY <1>8, <2>4 DEF Done
<1>9. Absolute(absolute, comps).error # "overrun"
  <2> DEFINE T == {st \in States : /\ st.comps = comps /\ st.error # "overrun"
                                   /\ st.error = "none" => Behindhand(st, part, s)}
  <2>1. after[0] \in T
    BY <1>6
  <2>2. ASSUME NEW st \in T PROVE Round(st) \in T
    <3>1. Round(st) \in States /\ Round(st).comps = comps
      BY RoundTyped
    <3>2. CASE st.error = "none"
      BY <1>7, <3>1, <3>2
    <3>3. CASE st.error # "none"
      <4>1. Round(st) = st
        BY <3>3 DEF Round
      <4> QED BY <4>1
    <3> QED BY <3>2, <3>3
  <2> HIDE DEF T
  <2>3. after[N] \in T
    BY <1>1, <1>3, <2>1, <2>2, Loop
  <2>4. after[N].error = "none" => Done(after[N]).error = "none"
    BY <1>8, <2>3 DEF T
  <2>5. after[N].error # "none" => Done(after[N]).error = after[N].error
    BY DEF Done
  <2> QED BY <1>3, <2>3, <2>4, <2>5 DEF T
<1>10. ASSUME ParentsOfNames(absolute, comps) PROVE Absolute(absolute, comps).error = "none"
  <2>1. PICK mean \in [0 .. N -> Seq(Names)] :
           /\ mean[0] = Start(absolute)
           /\ \A n \in 1 .. N : mean[n] = Follow(mean[n - 1], comps[n])
    BY MeaningUnfolds
  <2>2. \A n \in 1 .. N : comps[n] = ".." => n = 1 \/ comps[n - 1] \in Names
    BY <1>1, <1>10 DEF ParentsOfNames
  <2> DEFINE T == {st \in States : OnTheWay(st, comps, mean) /\ Behindhand(st, part, s)}
  <2>3. after[0] \in T
    BY <1>3, <1>6, <1>10, <2>1, OutsetMeans
  <2>4. ASSUME NEW st \in T PROVE Round(st) \in T
    <3>1. /\ st \in States /\ st.error = "none" /\ st.comps = comps /\ st.k <= N + 1
          /\ OnTheWay(st, comps, mean) /\ Behindhand(st, part, s) /\ st.k \in Nat
      BY DEF OnTheWay, States
    <3>2. Round(st) \in States
      BY <3>1, RoundTyped
    <3>3. st.k <= N /\ comps[st.k] = ".." => st.abspath \notin {<<>>, <<Gap>>}
      <4> SUFFICES ASSUME Named(st.abspath) PROVE st.abspath \notin {<<>>, <<Gap>>}
        BY <3>1 DEF OnTheWay
      <4>1. PICK f \in Seq(Components), d \in Names : st.abspath = Push(f, d)
        BY DEF Named
      <4>2. d \in Components /\ d # Gap
        BY DEF Components, Installed
      <4> QED BY <4>1, <4>2, PopPush
    <3>4. Round(st).error = "none" /\ Behindhand(Round(st), part, s)
      BY <1>7, <3>1, <3>3
    <3>5. OnTheWay(Round(st), comps, mean)
      <4>1. CASE st.k <= N
        BY <2>1, <2>2, <3>1, <3>4, <4>1, RoundMeans
      <4>2. CASE st.k > N
        <5>1. Round(st) = st
          BY <3>1, <4>2 DEF Round
        <5> QED BY <3>1, <5>1
      <4> QED BY <1>1, <3>1, <4>1, <4>2
    <3> QED BY <3>2, <3>4, <3>5
  <2> HIDE DEF T
  <2>5. after[N] \in T
    BY <1>1, <1>3, <2>3, <2>4, Loop
  <2>6. after[N] \in States /\ after[N].error = "none" /\ after[N].comps = comps
        /\ Behindhand(after[N], part, s)
    BY <2>5 DEF T, OnTheWay
  <2> QED BY <1>3, <1>8, <2>6
<1> QED
  BY <1>9, <1>10

\* Without slashes that close no name no path leaves the buffer.
LEMMA AbsoluteShort ==
  ASSUME Installed, NEW absolute \in BOOLEAN, NEW comps \in Seq(Components),
         NoLooseSlashes(comps)
  PROVE  Absolute(absolute, comps).error # "overrun"
<1> DEFINE N == Len(comps)
<1>1. N \in Nat /\ DOMAIN comps = 1 .. N
  BY LenProperties
<1>2. PICK after \in [0 .. N -> States] :
         /\ after[0] = Outset(absolute, comps)
         /\ \A n \in 1 .. N : after[n] = Round(after[n - 1])
         /\ Absolute(absolute, comps) = Done(after[N])
  BY AbsoluteUnfolds
<1> DEFINE T == {st \in States : /\ st.comps = comps /\ st.error # "overrun"
                                 /\ st.error = "none" => Chars(st.abspath) < BufferSize}
<1>3. after[0] \in T
  <2>1. Start(absolute) \in Seq(Components)
    BY OutsetTyped
  <2>2. Chars(Start(absolute)) \in Nat /\ Limit \in Nat /\ BufferSize = Limit + 3
    BY <2>1, CharsOf DEF Installed, BufferSize
  <2>3. /\ after[0] \in States /\ after[0].comps = comps /\ after[0].abspath = Start(absolute)
        /\ after[0].error = IF Chars(Start(absolute)) - 2 > Limit THEN "EINVAL" ELSE "none"
    BY <1>2, OutsetTyped
  <2> QED BY <2>2, <2>3
<1>4. ASSUME NEW st \in T PROVE Round(st) \in T
  <2>1. Round(st) \in States /\ Round(st).comps = comps /\ st.k \in Nat \ {0}
    BY RoundTyped DEF States
  <2>2. CASE st.error = "none" /\ st.k <= N
    <3>1. st.k \in DOMAIN comps
      BY <1>1, <2>1, <2>2
    <3>2. st.comps[st.k] \in {Gap, "."} => st.k = Len(st.comps)
      BY <3>1 DEF NoLooseSlashes
    <3> QED BY <2>1, <2>2, <3>2, RoundShort
  <2>3. CASE ~ (st.error = "none" /\ st.k <= N)
    <3>1. Round(st) = st
      BY <1>1, <2>1, <2>3 DEF Round
    <3> QED BY <3>1
  <2> QED BY <2>2, <2>3
<1> HIDE DEF T
<1>5. after[N] \in T
  BY <1>1, <1>2, <1>3, <1>4, Loop
<1>6. /\ after[N] \in States /\ after[N].error # "overrun"
      /\ after[N].error = "none" => Chars(after[N].abspath) < BufferSize
  BY <1>5 DEF T
<1>7. Chars(after[N].abspath) \in Nat /\ BufferSize \in Nat
  <2>1. after[N].abspath \in Seq(Components)
    BY <1>6 DEF States
  <2>2. Chars(after[N].abspath) \in Nat
    BY <2>1, CharsOf
  <2>3. BufferSize \in Nat
    BY DEF Installed, BufferSize
  <2> QED BY <2>2, <2>3
<1>8. after[N].error = "none" => ~ (Chars(after[N].abspath) >= BufferSize)
  BY <1>6, <1>7
<1> QED
  BY <1>2, <1>6, <1>8 DEF Done

\* The first component of a cleaned path.
LEMMA CleanFirst ==
  ASSUME NEW S, NEW p \in Seq(S), p # <<>>, p[1] # Gap
  PROVE  /\ Tail(p) \in Seq(S) /\ Clean(Tail(p)) \in Seq(S)
         /\ Clean(p) = Behind(<<p[1]>>, Clean(Tail(p)))
<1> DEFINE one == <<p[1]>>
           rest == Tail(p)
<1>1. p[1] \in S /\ one \in Seq(S) /\ rest \in Seq(S) /\ p = one \o rest
  OBVIOUS
<1>2. Clean(one) = one
  <2>1. one = Push(<<>>, p[1]) /\ <<>> \in Seq(S)
    BY <1>1 DEF Push
  <2> HIDE DEF one
  <2>2. Clean(one) = Keep(<<>>, p[1])
    BY <1>1, <2>1, CleanPush, CleanEmpty
  <2> QED BY <2>1, <2>2 DEF Keep, Push
<1>3. p = Behind(one, rest)
  BY <1>1 DEF Behind
<1> HIDE DEF one, rest
<1>4. Clean(Behind(one, rest)) = Behind(one, Clean(rest))
  BY <1>1, <1>2, CleanConcat
<1>5. Clean(rest) \in Seq(S)
  <2>1. PICK m \in [0 .. Len(rest) -> Seq(S)] : Clean(rest) = m[Len(rest)]
    BY <1>1, CleanUnfolds
  <2>2. Len(rest) \in Nat
    BY <1>1
  <2> QED BY <2>1, <2>2
<1> QED
  BY <1>1, <1>3, <1>4, <1>5 DEF one, rest

\* Head and tail of a sequence put behind one element.
LEMMA BehindOne ==
  ASSUME NEW S, NEW c, NEW s \in Seq(S)
  PROVE  /\ Behind(<<c>>, s) # <<>> /\ Behind(<<c>>, s)[1] = c
         /\ Tail(Behind(<<c>>, s)) = s
<1> SUFFICES ASSUME TRUE
             PROVE  <<c>> \o s # <<>> /\ (<<c>> \o s)[1] = c /\ Tail(<<c>> \o s) = s
  BY DEF Behind
<1>1. s \in Seq(S \cup {c}) /\ <<c>> \in Seq(S \cup {c})
  OBVIOUS
<1> QED
  BY <1>1

\* The fields of an answer with another path.
LEMMA AnswerMoved ==
  ASSUME NEW a \in Answers, NEW q \in Seq(Components)
  PROVE  /\ [a EXCEPT !.path = q] \in Answers
         /\ [a EXCEPT !.path = q].error = a.error /\ [a EXCEPT !.path = q].path = q
BY DEF Answers

\* The answer of the host's open is that of alloc_libc_to_base_path.
LEMMA OpenedAnswers ==
  ASSUME Installed, NEW absolute \in BOOLEAN, NEW comps \in Seq(Components)
  PROVE  /\ Absolute(absolute, comps) \in Answers
         /\ Opened(absolute, comps).error = Absolute(absolute, comps).error
<1> DEFINE a == Absolute(absolute, comps)
           b == LibcToBasePath(absolute, comps)
           opened == Opened(absolute, comps)
           N == Len(comps)
<1>1. PICK after \in [0 .. N -> States] : a = Done(after[N])
  BY AbsoluteUnfolds
<1>2. after[N] \in States /\ "overrun" \in PathErrors /\ "none" \in PathErrors
  BY LenProperties DEF PathErrors
<1>3. a \in Answers
  <2>1. after[N].error \in PathErrors /\ after[N].abspath \in Seq(Components)
    BY <1>2 DEF States
  <2>2. <<>> \in Seq(Components)
    OBVIOUS
  <2> QED BY <1>1, <1>2, <2>1, <2>2 DEF Done, Answers
<1>4. b = IF a.path # <<>> /\ Head(a.path) = Alias THEN [a EXCEPT !.path = Root \o Tail(@)] ELSE a
  BY Zenon DEF LibcToBasePath
<1>5. opened = IF b.error # "none" THEN b ELSE [b EXCEPT !.path = ToNativeBase(@)]
  BY Zenon DEF Opened
<1> HIDE DEF a, b, opened
<1>6. b \in [error : PathErrors, path : {b.path}] /\ b.error = a.error
  <2>1. [a EXCEPT !.path = Root \o Tail(@)] = [error |-> a.error, path |-> Root \o Tail(a.path)]
    <3> DEFINE q == Root \o Tail(a.path)
    <3>1. [a EXCEPT !.path = Root \o Tail(@)] = [a EXCEPT !.path = q]
      OBVIOUS
    <3> HIDE DEF q
    <3>2. [a EXCEPT !.path = q] = [error |-> a.error, path |-> q]
      BY <1>3 DEF Answers
    <3> QED BY <3>1, <3>2 DEF q
  <2>2. a = [error |-> a.error, path |-> a.path] /\ a.error \in PathErrors
    BY <1>3 DEF Answers
  <2>3. b \in {[error |-> a.error, path |-> Root \o Tail(a.path)],
               [error |-> a.error, path |-> a.path]}
    BY <1>4, <2>1, <2>2
  <2> QED BY <2>2, <2>3
<1>7. [b EXCEPT !.path = ToNativeBase(@)].error = b.error
  BY <1>6
<1>8. opened.error = a.error
  BY <1>5, <1>6, <1>7
<1> QED
  BY <1>3, <1>8 DEF a, opened

\* What the host is asked for, and what it is if the path was plain.
LEMMA OpenedMeans ==
  ASSUME Installed, NEW absolute \in BOOLEAN, NEW comps \in Seq(Components),
         ParentsOfNames(absolute, comps), Opened(absolute, comps).error = "none"
  PROVE  LET meaning == Meaning(absolute, comps)
             opened == Opened(absolute, comps)
             written == Absolute(absolute, comps).path
             mapped == meaning[1] = Alias /\ written # <<>> /\ written[1] # Gap
         IN meaning # <<>> /\ meaning[1] \notin Longer /\ (mapped => RootPlain)
            => Clean(opened.path) = IF mapped THEN Root \o Tail(meaning) ELSE meaning
<1> DEFINE a == Absolute(absolute, comps)
           p == a.path
           meaning == Meaning(absolute, comps)
           opened == Opened(absolute, comps)
           b == LibcToBasePath(absolute, comps)
           mapped == meaning[1] = Alias /\ p # <<>> /\ p[1] # Gap
           Goal == Clean(opened.path) = IF mapped THEN Root \o Tail(meaning) ELSE meaning
<1> SUFFICES ASSUME meaning # <<>>, meaning[1] \notin Longer, mapped => RootPlain
             PROVE  Goal
  OBVIOUS
<1>1. a = [error |-> "none", path |-> p] /\ p \in Seq(Components) /\ Clean(p) = meaning
  BY OpenedAnswers, AbsoluteMeans
<1>2. a \in Answers /\ a.error = "none"
  BY OpenedAnswers
<1>3. p # <<>>
  BY <1>1, CleanEmpty
<1>4. b = IF p # <<>> /\ Head(p) = Alias THEN [a EXCEPT !.path = Root \o Tail(@)] ELSE a
  BY Zenon DEF LibcToBasePath
<1>5. opened = IF b.error # "none" THEN b ELSE [b EXCEPT !.path = ToNativeBase(@)]
  BY Zenon DEF Opened
<1> HIDE DEF a, b, opened, meaning
<1>6. Head(p) = p[1]
  BY <1>1, <1>3
<1>7. Gap \notin Longer \cup {Alias}
  BY DEF Installed
<1>8. ASSUME p[1] \notin Longer \cup {Alias}
      PROVE  opened = a
  <2>1. b = a
    BY <1>4, <1>6, <1>8
  <2>2. ToNativeBase(p) = p
    BY <1>6, <1>8, Zenon DEF ToNativeBase
  <2> QED BY <1>1, <1>5, <2>1, <2>2
<1>9. CASE p[1] = Gap
  <2>1. opened = a /\ ~ mapped
    BY <1>7, <1>8, <1>9
  <2> QED BY <1>1, <2>1
<1>10. CASE p[1] # Gap
  <2> DEFINE tail == Clean(Tail(p))
  <2>1. /\ Tail(p) \in Seq(Components) /\ tail \in Seq(Components)
        /\ meaning = Behind(<<p[1]>>, tail)
    BY <1>1, <1>3, <1>10, CleanFirst
  <2>2. meaning[1] = p[1] /\ Tail(meaning) = tail
    <3> HIDE DEF tail
    <3>1. /\ Behind(<<p[1]>>, tail)[1] = p[1]
          /\ Tail(Behind(<<p[1]>>, tail)) = tail
      <4>1. tail \in Seq(Components)
        BY <2>1
      <4> QED BY ONLY <4>1, BehindOne, Zenon
    <3> QED BY <2>1, <3>1, Zenon
  <2>3. CASE p[1] # Alias
    <3>1. opened = a /\ ~ mapped
      BY <1>8, <2>2, <2>3
    <3> QED BY <1>1, <3>1
  <2>4. CASE p[1] = Alias
    <3> DEFINE q == Root \o Tail(p)
    <3>1. mapped /\ Root # <<>> /\ Head(Root) \notin Longer \cup {Alias}
      BY <1>3, <1>10, <2>2, <2>4 DEF RootPlain
    <3>2. Root \in Seq(Names) /\ Root \in Seq(Components)
      BY DEF Installed, Components
    <3>3. q \in Seq(Components) /\ q # <<>> /\ Head(q) = Head(Root) /\ q = Behind(Root, Tail(p))
      BY <2>1, <3>1, <3>2 DEF Behind
    <3>4. b = [a EXCEPT !.path = q]
      BY <1>3, <1>4, <1>6, <2>4
    <3> HIDE DEF q
    <3>5. ToNativeBase(q) = q
      BY <3>1, <3>3, Zenon DEF ToNativeBase
    <3>6. a \in Answers /\ a.error = "none"
      BY <1>2
    <3>7. b \in Answers /\ b.error = "none" /\ b.path = q
      BY <3>3, <3>4, <3>6, AnswerMoved
    <3>8. opened = [b EXCEPT !.path = q]
      BY <1>5, <3>5, <3>7
    <3>9. opened.path = q
      BY <3>3, <3>7, <3>8, AnswerMoved
    <3>10. Clean(q) = Behind(Root, Tail(meaning))
      <4>1. Clean(Root) = Root
        BY <3>2, CleanNames
      <4> DEFINE rest == Tail(p)
      <4>2. rest \in Seq(Components)
        BY <2>1
      <4> HIDE DEF rest
      <4>3. Clean(Behind(Root, rest)) = Behind(Root, Clean(rest))
        BY ONLY <3>2, <4>1, <4>2, CleanConcat
      <4> QED BY <2>2, <3>3, <4>3 DEF rest
    <3>11. Clean(q) = Root \o Tail(meaning)
      BY <3>10, Zenon DEF Behind
    <3> QED BY <3>1, <3>9, <3>11, Zenon
  <2> QED BY <2>3, <2>4
<1> QED
  BY <1>9, <1>10

\* A path is opened as it is meant, refused or, by its slashes, past the end of
\* the buffer of alloc_libc_to_base_path, as its length says (xlibc/fs.c): for
\* every root, working directory and size of the buffer, and paths of any length.
THEOREM PathMeaningHolds == TextSpec => []PathMeaning
<1> DEFINE Inv == \/ given.kind # "path"
                  \/ \E p \in PathInputs : given = [kind |-> "path", absolute |-> p[1], comps |-> p[2]]
<1>1. TextInit => Inv
  BY DEF TextInit, Nothing
<1>2. Inv /\ [Give]_textVars => Inv'
  BY DEF Give, textVars
<1>3. Inv => PathMeaning
  <2> SUFFICES ASSUME NEW p \in PathInputs,
                      given = [kind |-> "path", absolute |-> p[1], comps |-> p[2]]
               PROVE  PathMeaning
    BY DEF PathMeaning
  <2>1. p[1] \in BOOLEAN /\ p[2] \in Seq(Components)
    BY PathInputsAssumption
  <2>2. given.absolute = p[1] /\ given.comps = p[2]
    OBVIOUS
  <2> DEFINE absolute == p[1]
             comps == p[2]
             opened == Opened(absolute, comps)
  <2> HIDE DEF absolute, comps
  <2>3. Installed
    BY PathsAssumption DEF Installed
  <2>4. Fits(absolute, comps) /\ ParentsOfNames(absolute, comps) => opened.error = "none"
    BY <2>1, <2>3, OpenedAnswers, AbsoluteFits, Zenon DEF absolute, comps
  <2>5. Fits(absolute, comps) \/ NoLooseSlashes(comps) => opened.error # "overrun"
    BY <2>1, <2>3, OpenedAnswers, AbsoluteFits, AbsoluteShort, Zenon DEF absolute, comps
  <2> QED BY <2>1, <2>2, <2>4, <2>5, <2>3, OpenedMeans, Zenon
          DEF PathMeaning, absolute, comps
<1> QED
  BY <1>1, <1>2, <1>3, PTL DEF TextSpec

----------------------------------------------------------------------------
(* Numbers *)

\* A division is the only one with its quotient.
LEMMA Division ==
  ASSUME NEW d \in Nat \ {0}, NEW q \in Int, NEW r \in 0 .. d - 1
  PROVE  (d * q + r) \div d = q /\ (d * q + r) % d = r
<1> DEFINE n == d * q + r
           p == n \div d
           s == n % d
<1>1. p \in Int /\ s \in 0 .. d - 1 /\ n = d * p + s
  OBVIOUS
<1> HIDE DEF p, s
<1>2. d * (p - q) = r - s
  BY <1>1
<1>3. p - q < 1
  <2>1. SUFFICES ASSUME p - q >= 1 PROVE FALSE
    BY <1>1
  <2>2. d * (p - q) >= d
    BY <1>1, <2>1
  <2> QED BY <1>1, <1>2, <2>2
<1>4. p - q > -1
  <2>1. SUFFICES ASSUME p - q <= -1 PROVE FALSE
    BY <1>1
  <2>2. d * (p - q) <= -d
    BY <1>1, <2>1
  <2> QED BY <1>1, <1>2, <2>2
<1>5. p = q
  BY <1>1, <1>3, <1>4
<1>6. s = r
  BY <1>1, <1>2, <1>5
<1> QED BY <1>5, <1>6 DEF p, s

LEMMA Dividing ==
  ASSUME NEW d \in Nat \ {0}, NEW n \in Int, NEW q, NEW r, q = n \div d, r = n % d
  PROVE  q \in Int /\ r \in 0 .. d - 1 /\ n = d * q + r
  OBVIOUS

\* Signed takes away a multiple of 2 * Half, so that a long is left.
LEMMA SignedIs ==
  ASSUME NEW n \in Int
  PROVE  Signed(n) \in LongMin .. LongMax /\ \E k \in Int : n = Signed(n) + 2 * Half * k
<1> DEFINE d == 2 * Half
           q == (n + Half) \div d
           r == (n + Half) % d
<1>1. Half \in Nat /\ Half >= 36 /\ d \in Nat \ {0}
  BY NumbersAssumption
<1>2. q \in Int /\ r \in 0 .. d - 1 /\ n + Half = d * q + r
  <2>1. n + Half \in Int
    BY <1>1
  <2> HIDE DEF d
  <2> QED BY <1>1, <2>1, Dividing
<1>3. Signed(n) = r - Half
  BY DEF Signed
<1>4. n = Signed(n) + d * q
  BY <1>1, <1>2, <1>3
<1>5. Signed(n) \in LongMin .. LongMax
  BY <1>1, <1>2, <1>3 DEF LongMin, LongMax
<1> QED
  BY <1>2, <1>4, <1>5

\* There is only one.
LEMMA SignedUnique ==
  ASSUME NEW m \in LongMin .. LongMax, NEW k \in Int, NEW n, n = m + 2 * Half * k
  PROVE  Signed(n) = m
<1> DEFINE d == 2 * Half
           r == m + Half
<1>1. Half \in Nat /\ Half >= 36 /\ d \in Nat \ {0}
  BY NumbersAssumption
<1>2. m \in Int /\ r \in 0 .. d - 1
  BY <1>1 DEF LongMin, LongMax
<1>3. n + Half = d * k + r
  BY <1>1, <1>2
<1>4. (d * k + r) % d = r
  BY <1>1, <1>2, Division
<1> QED
  BY <1>1, <1>2, <1>3, <1>4 DEF Signed

LEMMA SignedSame ==
  ASSUME NEW n \in LongMin .. LongMax
  PROVE  Signed(n) = n
<1>1. n = n + 2 * Half * 0
  BY NumbersAssumption DEF LongMin, LongMax
<1> QED
  BY <1>1, SignedUnique

\* What a long was before it wrapped does not matter for what it wraps to.
LEMMA SignedTurn ==
  ASSUME NEW v \in Int, NEW b \in Int, NEW d \in Int
  PROVE  Signed(Signed(v) * b + d) = Signed(v * b + d)
<1> DEFINE s == Signed(v)
           t == Signed(s * b + d)
<1>1. s \in Int /\ Half \in Nat
  BY SignedIs, NumbersAssumption DEF LongMin, LongMax
<1>2. PICK k \in Int : v = s + 2 * Half * k
  BY SignedIs
<1> HIDE DEF s
<1>3. s * b + d \in Int
  BY <1>1
<1>4. t \in LongMin .. LongMax
  BY <1>3, SignedIs
<1>5. PICK l \in Int : s * b + d = t + 2 * Half * l
  BY <1>3, SignedIs
<1> HIDE DEF t
<1>6. t \in Int
  BY <1>4, NumbersAssumption DEF LongMin, LongMax
<1>7. v * b = s * b + 2 * Half * (k * b)
  BY <1>1, <1>2
<1>8. v * b + d = t + 2 * Half * (k * b + l)
  <2> DEFINE x == k * b
             y == s * b
             z == v * b
  <2>1. x \in Int /\ y \in Int /\ z \in Int
    BY <1>1
  <2> HIDE DEF x, y, z
  <2>2. z = y + 2 * Half * x
    BY <1>7 DEF x, y, z
  <2>3. y + d = t + 2 * Half * l
    BY <1>5 DEF y
  <2>4. z + d = t + 2 * Half * (x + l)
    BY <1>1, <1>6, <2>1, <2>2, <2>3
  <2> QED BY <2>4 DEF x, z
<1>9. k * b + l \in Int
  OBVIOUS
<1>10. Signed(v * b + d) = t
  BY <1>4, <1>8, <1>9, SignedUnique
<1> QED
  BY <1>10 DEF s, t

DigitOf(base) == 0 .. base - 1
Bases == 2 .. 36

\* The division after a digit finds the overflow, although the product wrapped.
LEMMA OverflowFound ==
  ASSUME NEW base \in Bases, NEW d \in DigitOf(base), NEW r \in 0 .. LongMax
  PROVE  Quotient(Signed(r * base + d), base) = r <=> r * base + d <= LongMax
<1> DEFINE v == r * base + d
           next == Signed(v)
<1>1. /\ Half \in Nat /\ Half >= 36 /\ base \in Nat /\ base >= 2 /\ base <= 36
      /\ d \in Nat /\ d < base /\ r \in Nat /\ r < Half
  BY NumbersAssumption DEF Bases, DigitOf, LongMax
<1>2. v \in Nat
  BY <1>1
<1>3. ASSUME v <= LongMax PROVE Quotient(next, base) = r
  <2>1. v \in LongMin .. LongMax
    BY <1>1, <1>2, <1>3 DEF LongMin, LongMax
  <2>2. next = v
    BY <2>1, SignedSame
  <2>3. (base * r + d) \div base = r
    BY <1>1, Division
  <2>4. v = base * r + d
    BY <1>1
  <2> QED BY <1>2, <2>2, <2>3, <2>4 DEF Quotient
<1>4. ASSUME v > LongMax PROVE Quotient(next, base) # r
  <2>1. next \in LongMin .. LongMax
    BY <1>2, SignedIs
  <2>2. PICK k \in Int : v = next + 2 * Half * k
    BY <1>2, SignedIs
  <2> HIDE DEF next
  <2>3. next \in Int /\ next < Half
    BY <1>1, <2>1 DEF LongMin, LongMax
  <2>4. v >= Half
    BY <1>1, <1>2, <1>4 DEF LongMax
  <2>5. next <= v - 2 * Half
    <3>1. k >= 1
      <4>1. SUFFICES ASSUME k <= 0 PROVE FALSE
        OBVIOUS
      <4>2. Half * k <= 0
        BY <1>1, <4>1
      <4>3. Half * k \in Int
        BY <1>1
      <4> QED BY <1>1, <1>2, <2>2, <2>3, <2>4, <4>2, <4>3
    <3>2. Half * k >= Half
      BY <1>1, <3>1
    <3>3. Half * k \in Int
      BY <1>1
    <3> QED BY <1>1, <1>2, <2>2, <2>3, <3>2, <3>3
  <2>6. CASE next >= 0
    <3> DEFINE q == next \div base
    <3>1. q \in Int /\ base * q <= next
      BY <1>1, <2>3
    <3> HIDE DEF q
    <3>2. base * q < base * r
      <4> DEFINE x == base * q
                 y == r * base
      <4>1. x \in Int /\ y \in Int /\ y = base * r
        BY <1>1, <3>1
      <4>2. v = y + d
        OBVIOUS
      <4> HIDE DEF x, y, v
      <4>3. x <= next
        BY <3>1 DEF x
      <4>4. x < y
        BY <1>1, <2>3, <2>5, <4>1, <4>2, <4>3
      <4> QED BY <4>1, <4>4 DEF x
    <3>3. q # r
      BY <1>1, <3>1, <3>2
    <3> QED BY <2>6, <3>3 DEF Quotient, q
  <2>7. CASE next < 0
    <3> DEFINE q == (-next) \div base
    <3>1. q \in Int /\ q >= 0
      BY <1>1, <2>3, <2>7
    <3> HIDE DEF q
    <3>2. Quotient(next, base) = -q
      BY <2>3, <2>7 DEF Quotient, q
    <3>3. r # 0
      <4>1. r = 0 => v = d
        BY <1>1
      <4> HIDE DEF v
      <4> QED BY <1>1, <2>4, <4>1
    <3> QED BY <1>1, <3>1, <3>2, <3>3
  <2> QED BY <2>3, <2>6, <2>7
<1> QED
  BY <1>1, <1>2, <1>3, <1>4 DEF LongMax

\* What a loop computes stays where its rounds stay.
LEMMA Loops ==
  ASSUME NEW N \in Nat, NEW S, NEW init \in S, NEW step \in [1 .. N -> [S -> S]],
         NEW left, left = [n \in 0 .. N |-> left[n]], left[0] = init,
         \A n \in 1 .. N : left[n - 1] \in S => left[n] = step[n][left[n - 1]]
  PROVE  Rounds(left, N, S, init, step)
<1> DEFINE I == {n \in Nat : n <= N => left[n] \in S}
<1>1. 0 \in I
  OBVIOUS
<1>2. ASSUME NEW n \in Nat, n \in I PROVE n + 1 \in I
  <2> SUFFICES ASSUME n + 1 <= N PROVE left[n + 1] \in S
    OBVIOUS
  <2> DEFINE k == n + 1
  <2>1. k \in 1 .. N /\ k - 1 = n /\ n <= N
    OBVIOUS
  <2> HIDE DEF k
  <2>2. left[k - 1] \in S
    BY <1>2, <2>1
  <2>3. left[k] = step[k][left[k - 1]]
    BY <2>1, <2>2
  <2>4. step[k] \in [S -> S]
    BY <2>1
  <2> QED BY <2>2, <2>3, <2>4 DEF k
<1>3. \A n \in 0 .. N : left[n] \in S
  <2> HIDE DEF I
  <2>1. Nat \subseteq I
    BY <1>1, <1>2, SetInduction
  <2> QED BY <2>1 DEF I
<1>4. [n \in 0 .. N |-> left[n]] \in [0 .. N -> S]
  BY <1>3
<1>5. \A n \in 1 .. N : left[n] = step[n][left[n - 1]]
  <2> TAKE n \in 1 .. N
  <2>1. n - 1 \in 0 .. N
    OBVIOUS
  <2> QED BY <1>3, <2>1
<1> QED
  BY <1>4, <1>5 DEF Rounds


\* The number that digits make, digit by digit.
LEMMA WorthUnfolds ==
  ASSUME NEW base \in Nat, NEW digits \in Seq(Nat)
  PROVE  \E w \in [0 .. Len(digits) -> Nat] :
           /\ w[0] = 0
           /\ \A n \in 1 .. Len(digits) : w[n] = w[n - 1] * base + digits[n]
           /\ Worth(digits, base) = w[Len(digits)]
<1> DEFINE N == Len(digits)
           Turn(s, d) == s * base + d
           E(m, n) == IF n = 0 THEN 0 ELSE Turn(m[n - 1], digits[n])
           A(m) == [n \in 0 .. N |-> E(m, n)]
           left == CHOOSE m : m = A(m)
           step == [n \in 1 .. N |-> [s \in Nat |-> Turn(s, digits[n])]]
<1>1. N \in Nat /\ \A n \in 1 .. N : digits[n] \in Nat
  BY LenProperties, ElementOfSeq
<1>2. \A s \in Nat, d \in Nat : Turn(s, d) \in Nat
  OBVIOUS
<1>3. 0 \in Nat
  OBVIOUS
<1>4. Worth(digits, base) = left[N]
  BY DEF Worth
<1> HIDE DEF Turn
<1>5. step \in [1 .. N -> [Nat -> Nat]]
  BY <1>1, <1>2
<1>6. \A n \in 1 .. N, s \in Nat : step[n][s] = Turn(s, digits[n])
  OBVIOUS
<1> HIDE DEF step
<1>7. PICK g : Rounds(g, N, Nat, 0, step)
  BY <1>1, <1>3, <1>5, Recursion
<1>8. g = A(g)
  <2>1. \A n \in 0 .. N : g[n] = E(g, n)
    <3> SUFFICES ASSUME NEW n \in 0 .. N, n # 0 PROVE g[n] = Turn(g[n - 1], digits[n])
      BY <1>7 DEF Rounds
    <3>1. n \in 1 .. N /\ n - 1 \in 0 .. N
      BY <1>1
    <3>2. g[n - 1] \in Nat /\ g[n] = step[n][g[n - 1]]
      BY <1>7, <3>1 DEF Rounds
    <3> QED BY <1>6, <3>1, <3>2
  <2> HIDE DEF E
  <2> QED BY <1>7, <2>1 DEF Rounds
<1>9. left = A(left)
  <2> HIDE DEF A
  <2> QED BY <1>8
<1> HIDE DEF left
<1>10. left = [n \in 0 .. N |-> left[n]] /\ \A n \in 0 .. N : left[n] = E(left, n)
  <2> HIDE DEF E
  <2> QED BY <1>9
<1>11. left[0] = 0 /\ \A n \in 1 .. N : left[n] = Turn(left[n - 1], digits[n])
  <2>1. 0 \in 0 .. N /\ \A n \in 1 .. N : n \in 0 .. N /\ n # 0
    BY <1>1
  <2> QED BY <1>10, <2>1
<1>12. Rounds(left, N, Nat, 0, step)
  <2>1. \A n \in 1 .. N : left[n - 1] \in Nat => left[n] = step[n][left[n - 1]]
    BY <1>6, <1>11
  <2> QED BY <1>1, <1>3, <1>5, <1>10, <1>11, <2>1, Loops
<1> QED
  BY <1>4, <1>11, <1>12 DEF Rounds, Turn

\* The loop of wcstoll and atoi.
LEMMA WrappingUnfolds ==
  ASSUME NEW base \in Nat, NEW digits \in Seq(Nat)
  PROVE  \E w \in [0 .. Len(digits) -> Int] :
           /\ w[0] = 0
           /\ \A n \in 1 .. Len(digits) : w[n] = Signed(w[n - 1] * base + digits[n])
           /\ Wrapping(digits, base) = w[Len(digits)]
<1> DEFINE N == Len(digits)
           Turn(s, d) == Signed(s * base + d)
           E(m, n) == IF n = 0 THEN 0 ELSE Turn(m[n - 1], digits[n])
           A(m) == [n \in 0 .. N |-> E(m, n)]
           left == CHOOSE m : m = A(m)
           step == [n \in 1 .. N |-> [s \in Int |-> Turn(s, digits[n])]]
<1>1. N \in Nat /\ \A n \in 1 .. N : digits[n] \in Nat
  BY LenProperties, ElementOfSeq
<1>2. \A s \in Int, d \in Nat : Turn(s, d) \in Int
  <2>1. \A v \in Int : Signed(v) \in Int
    BY SignedIs, NumbersAssumption DEF LongMin, LongMax
  <2>2. \A s \in Int, d \in Nat : s * base + d \in Int
    OBVIOUS
  <2> QED BY <2>1, <2>2
<1>3. 0 \in Int
  OBVIOUS
<1>4. Wrapping(digits, base) = left[N]
  BY DEF Wrapping
<1> HIDE DEF Turn
<1>5. step \in [1 .. N -> [Int -> Int]]
  BY <1>1, <1>2
<1>6. \A n \in 1 .. N, s \in Int : step[n][s] = Turn(s, digits[n])
  OBVIOUS
<1> HIDE DEF step
<1>7. PICK g : Rounds(g, N, Int, 0, step)
  BY <1>1, <1>3, <1>5, Recursion
<1>8. g = A(g)
  <2>1. \A n \in 0 .. N : g[n] = E(g, n)
    <3> SUFFICES ASSUME NEW n \in 0 .. N, n # 0 PROVE g[n] = Turn(g[n - 1], digits[n])
      BY <1>7 DEF Rounds
    <3>1. n \in 1 .. N /\ n - 1 \in 0 .. N
      BY <1>1
    <3>2. g[n - 1] \in Int /\ g[n] = step[n][g[n - 1]]
      BY <1>7, <3>1 DEF Rounds
    <3> QED BY <1>6, <3>1, <3>2
  <2> HIDE DEF E
  <2> QED BY <1>7, <2>1 DEF Rounds
<1>9. left = A(left)
  <2> HIDE DEF A
  <2> QED BY <1>8
<1> HIDE DEF left
<1>10. left = [n \in 0 .. N |-> left[n]] /\ \A n \in 0 .. N : left[n] = E(left, n)
  <2> HIDE DEF E
  <2> QED BY <1>9
<1>11. left[0] = 0 /\ \A n \in 1 .. N : left[n] = Turn(left[n - 1], digits[n])
  <2>1. 0 \in 0 .. N /\ \A n \in 1 .. N : n \in 0 .. N /\ n # 0
    BY <1>1
  <2> QED BY <1>10, <2>1
<1>12. Rounds(left, N, Int, 0, step)
  <2>1. \A n \in 1 .. N : left[n - 1] \in Int => left[n] = step[n][left[n - 1]]
    BY <1>6, <1>11
  <2> QED BY <1>1, <1>3, <1>5, <1>10, <1>11, <2>1, Loops
<1> QED
  BY <1>4, <1>11, <1>12 DEF Rounds, Turn

LoopStates == [result : Int, overflow : BOOLEAN]
LoopBegins == [result |-> 0, overflow |-> FALSE]

\* The loop of strtol and strtoul.
LEMMA StrtolUnfolds ==
  ASSUME NEW base \in Bases, NEW digits \in Seq(Nat)
  PROVE  \E w \in [0 .. Len(digits) -> LoopStates] :
           /\ w[0] = LoopBegins
           /\ \A n \in 1 .. Len(digits) : w[n] = TakeDigit(w[n - 1], base, digits[n])
           /\ StrtolLoop(digits, base) = w[Len(digits)]
<1> DEFINE N == Len(digits)
           Turn(s, d) == TakeDigit(s, base, d)
           E(m, n) == IF n = 0 THEN LoopBegins ELSE Turn(m[n - 1], digits[n])
           A(m) == [n \in 0 .. N |-> E(m, n)]
           left == CHOOSE m : m = A(m)
           step == [n \in 1 .. N |-> [s \in LoopStates |-> Turn(s, digits[n])]]
<1>1. N \in Nat /\ \A n \in 1 .. N : digits[n] \in Nat
  BY LenProperties, ElementOfSeq
<1>2. \A s \in LoopStates, d \in Nat : Turn(s, d) \in LoopStates
  <2> TAKE s \in LoopStates, d \in Nat
  <2> DEFINE x == s.result * base + d
  <2>1. x \in Int
    BY DEF LoopStates, Bases
  <2> HIDE DEF x
  <2>2. Signed(x) \in Int
    BY <2>1, SignedIs, NumbersAssumption DEF LongMin, LongMax
  <2> DEFINE next == Signed(x)
  <2>3. Turn(s, d) = IF s.overflow THEN s
                     ELSE [result |-> next, overflow |-> Quotient(next, base) # s.result]
    BY DEF TakeDigit, x
  <2> HIDE DEF next
  <2>4. [result |-> next, overflow |-> Quotient(next, base) # s.result] \in LoopStates
    BY <2>2 DEF next, LoopStates
  <2> HIDE DEF Turn
  <2> QED BY <2>3, <2>4
<1>3. LoopBegins \in LoopStates
  BY DEF LoopStates, LoopBegins
<1>4. StrtolLoop(digits, base) = left[N]
  BY DEF StrtolLoop, LoopBegins
<1> HIDE DEF Turn
<1>5. step \in [1 .. N -> [LoopStates -> LoopStates]]
  BY <1>1, <1>2
<1>6. \A n \in 1 .. N, s \in LoopStates : step[n][s] = Turn(s, digits[n])
  OBVIOUS
<1> HIDE DEF step
<1>7. PICK g : Rounds(g, N, LoopStates, LoopBegins, step)
  BY <1>1, <1>3, <1>5, Recursion
<1>8. g = A(g)
  <2>1. \A n \in 0 .. N : g[n] = E(g, n)
    <3> SUFFICES ASSUME NEW n \in 0 .. N, n # 0 PROVE g[n] = Turn(g[n - 1], digits[n])
      BY <1>7 DEF Rounds
    <3>1. n \in 1 .. N /\ n - 1 \in 0 .. N
      BY <1>1
    <3>2. g[n - 1] \in LoopStates /\ g[n] = step[n][g[n - 1]]
      BY <1>7, <3>1 DEF Rounds
    <3> QED BY <1>6, <3>1, <3>2
  <2> HIDE DEF E
  <2> QED BY <1>7, <2>1 DEF Rounds
<1>9. left = A(left)
  <2> HIDE DEF A
  <2> QED BY <1>8
<1> HIDE DEF left
<1>10. left = [n \in 0 .. N |-> left[n]] /\ \A n \in 0 .. N : left[n] = E(left, n)
  <2> HIDE DEF E
  <2> QED BY <1>9
<1>11. left[0] = LoopBegins /\ \A n \in 1 .. N : left[n] = Turn(left[n - 1], digits[n])
  <2>1. 0 \in 0 .. N /\ \A n \in 1 .. N : n \in 0 .. N /\ n # 0
    BY <1>1
  <2> QED BY <1>10, <2>1
<1>12. Rounds(left, N, LoopStates, LoopBegins, step)
  <2>1. \A n \in 1 .. N : left[n - 1] \in LoopStates => left[n] = step[n][left[n - 1]]
    BY <1>6, <1>11
  <2> QED BY <1>1, <1>3, <1>5, <1>10, <1>11, <2>1, Loops
<1> QED
  BY <1>4, <1>11, <1>12 DEF Rounds, Turn

\* The loop of wcstoull.
LEMMA WcstoullUnfolds ==
  ASSUME NEW base \in Bases, NEW digits \in Seq(Nat)
  PROVE  \E w \in [0 .. Len(digits) -> LoopStates] :
           /\ w[0] = LoopBegins
           /\ \A n \in 1 .. Len(digits) : w[n] = TakeRoom(w[n - 1], base, digits[n])
           /\ WcstoullLoop(digits, base) = w[Len(digits)]
<1> DEFINE N == Len(digits)
           Turn(s, d) == TakeRoom(s, base, d)
           E(m, n) == IF n = 0 THEN LoopBegins ELSE Turn(m[n - 1], digits[n])
           A(m) == [n \in 0 .. N |-> E(m, n)]
           left == CHOOSE m : m = A(m)
           step == [n \in 1 .. N |-> [s \in LoopStates |-> Turn(s, digits[n])]]
<1>1. N \in Nat /\ \A n \in 1 .. N : digits[n] \in Nat
  BY LenProperties, ElementOfSeq
<1>2. \A s \in LoopStates, d \in Nat : Turn(s, d) \in LoopStates
  <2> TAKE s \in LoopStates, d \in Nat
  <2> DEFINE x == s.result * base + d
  <2>1. x \in Int /\ s.result \in Int
    BY DEF LoopStates, Bases
  <2>2. [result |-> s.result, overflow |-> TRUE] \in LoopStates
    BY <2>1 DEF LoopStates
  <2> HIDE DEF x
  <2>3. [result |-> x, overflow |-> FALSE] \in LoopStates
    BY <2>1 DEF LoopStates
  <2> QED BY <2>2, <2>3 DEF TakeRoom, x
<1>3. LoopBegins \in LoopStates
  BY DEF LoopStates, LoopBegins
<1>4. WcstoullLoop(digits, base) = left[N]
  BY DEF WcstoullLoop, LoopBegins
<1> HIDE DEF Turn
<1>5. step \in [1 .. N -> [LoopStates -> LoopStates]]
  BY <1>1, <1>2
<1>6. \A n \in 1 .. N, s \in LoopStates : step[n][s] = Turn(s, digits[n])
  OBVIOUS
<1> HIDE DEF step
<1>7. PICK g : Rounds(g, N, LoopStates, LoopBegins, step)
  BY <1>1, <1>3, <1>5, Recursion
<1>8. g = A(g)
  <2>1. \A n \in 0 .. N : g[n] = E(g, n)
    <3> SUFFICES ASSUME NEW n \in 0 .. N, n # 0 PROVE g[n] = Turn(g[n - 1], digits[n])
      BY <1>7 DEF Rounds
    <3>1. n \in 1 .. N /\ n - 1 \in 0 .. N
      BY <1>1
    <3>2. g[n - 1] \in LoopStates /\ g[n] = step[n][g[n - 1]]
      BY <1>7, <3>1 DEF Rounds
    <3> QED BY <1>6, <3>1, <3>2
  <2> HIDE DEF E
  <2> QED BY <1>7, <2>1 DEF Rounds
<1>9. left = A(left)
  <2> HIDE DEF A
  <2> QED BY <1>8
<1> HIDE DEF left
<1>10. left = [n \in 0 .. N |-> left[n]] /\ \A n \in 0 .. N : left[n] = E(left, n)
  <2> HIDE DEF E
  <2> QED BY <1>9
<1>11. left[0] = LoopBegins /\ \A n \in 1 .. N : left[n] = Turn(left[n - 1], digits[n])
  <2>1. 0 \in 0 .. N /\ \A n \in 1 .. N : n \in 0 .. N /\ n # 0
    BY <1>1
  <2> QED BY <1>10, <2>1
<1>12. Rounds(left, N, LoopStates, LoopBegins, step)
  <2>1. \A n \in 1 .. N : left[n - 1] \in LoopStates => left[n] = step[n][left[n - 1]]
    BY <1>6, <1>11
  <2> QED BY <1>1, <1>3, <1>5, <1>10, <1>11, <2>1, Loops
<1> QED
  BY <1>4, <1>11, <1>12 DEF Rounds, Turn

\* One digit more makes a number larger, and at least doubles it.
LEMMA Grows ==
  ASSUME NEW v \in Nat, NEW base \in Bases, NEW d \in DigitOf(base)
  PROVE  v * base + d \in Nat /\ v * base + d >= 2 * v
<1>1. base \in Nat /\ base >= 2 /\ d \in Nat
  BY DEF Bases, DigitOf
<1>2. v * base >= 2 * v /\ v * base \in Nat
  BY <1>1
<1> DEFINE x == v * base
<1> HIDE DEF x
<1>3. x \in Nat /\ x >= 2 * v
  BY <1>2 DEF x
<1>4. x + d \in Nat /\ x + d >= 2 * v
  BY <1>1, <1>3
<1> QED BY <1>4 DEF x

\* What the loop of strtol has found after the digits that make v: whether it
\* passes the range, and as long as an unsigned long has room for v, what v
\* wraps to.
Parsed(st, v) ==
  /\ st \in LoopStates /\ v \in Nat
  /\ st.overflow <=> v > LongMax
  /\ v <= ULongMax => st.result = Signed(v)

LEMMA ParsedTurn ==
  ASSUME NEW base \in Bases, NEW d \in DigitOf(base), NEW st, NEW v, Parsed(st, v)
  PROVE  Parsed(TakeDigit(st, base, d), v * base + d)
<1> DEFINE u == v * base + d
<1>1. Half \in Nat /\ Half >= 36 /\ v \in Nat /\ st \in LoopStates
  BY NumbersAssumption DEF Parsed
<1>2. u \in Nat /\ u >= 2 * v
  BY <1>1, Grows
<1>3. CASE st.overflow
  <2>1. TakeDigit(st, base, d) = st
    BY <1>3 DEF TakeDigit
  <2>2. v > LongMax
    BY <1>3 DEF Parsed
  <2> HIDE DEF u
  <2>3. u > ULongMax
    BY <1>1, <1>2, <2>2 DEF ULongMax, LongMax
  <2>4. u > LongMax
    BY <1>1, <1>2, <2>3 DEF ULongMax, LongMax
  <2>5. ~(u <= ULongMax)
    BY <1>1, <1>2, <2>3 DEF ULongMax
  <2>6. Parsed(st, u)
    BY <1>1, <1>2, <1>3, <2>4, <2>5 DEF Parsed
  <2> QED BY <2>1, <2>6 DEF u
<1>4. CASE ~st.overflow
  <2>1. v <= LongMax /\ v \in 0 .. LongMax
    BY <1>1, <1>4 DEF Parsed, LongMax
  <2>2. st.result = v
    <3>1. v \in LongMin .. LongMax /\ v <= ULongMax
      BY <1>1, <2>1 DEF LongMin, LongMax, ULongMax
    <3> QED BY <3>1, SignedSame DEF Parsed
  <2> DEFINE next == Signed(u)
             q == Quotient(next, base)
  <2>3. q = v <=> u <= LongMax
    BY <2>1, OverflowFound
  <2>4. TakeDigit(st, base, d) = [result |-> next, overflow |-> q # v]
    BY <1>4, <2>2 DEF TakeDigit
  <2> HIDE DEF u
  <2>5. next \in Int
    BY <1>2, SignedIs, NumbersAssumption DEF LongMin, LongMax
  <2> HIDE DEF next, q
  <2> DEFINE new == [result |-> next, overflow |-> q # v]
  <2>6. new \in LoopStates /\ new.result = next /\ (new.overflow <=> q # v)
    BY <2>5 DEF LoopStates
  <2> HIDE DEF new
  <2>7. new.overflow <=> u > LongMax
    BY <1>1, <1>2, <2>3, <2>6 DEF LongMax
  <2>8. Parsed(new, u)
    BY <1>2, <2>6, <2>7 DEF Parsed, next
  <2> QED BY <2>4, <2>8 DEF new, u
<1> QED BY <1>3, <1>4

\* strtol's loop finds the overflow, and the number where there is room for it.
LEMMA StrtolParses ==
  ASSUME NEW base \in Bases, NEW digits \in Seq(DigitOf(base))
  PROVE  Parsed(StrtolLoop(digits, base), Worth(digits, base))
<1> DEFINE N == Len(digits)
<1>1. N \in Nat /\ \A n \in 1 .. N : digits[n] \in DigitOf(base)
  BY LenProperties, ElementOfSeq
<1>2. base \in Nat /\ DigitOf(base) \subseteq Nat
  BY DEF Bases, DigitOf
<1>3. digits \in Seq(Nat)
  BY <1>2
<1>4. PICK w \in [0 .. N -> Nat] : /\ w[0] = 0
                                   /\ \A n \in 1 .. N : w[n] = w[n - 1] * base + digits[n]
                                   /\ Worth(digits, base) = w[N]
  BY <1>2, <1>3, WorthUnfolds
<1>5. PICK s \in [0 .. N -> LoopStates] : /\ s[0] = LoopBegins
                                          /\ \A n \in 1 .. N : s[n] = TakeDigit(s[n - 1], base, digits[n])
                                          /\ StrtolLoop(digits, base) = s[N]
  BY <1>3, StrtolUnfolds
<1> DEFINE I == {n \in Nat : n <= N => Parsed(s[n], w[n])}
<1>6. 0 \in I
  <2>1. LoopBegins \in LoopStates /\ LoopBegins.result = 0 /\ LoopBegins.overflow = FALSE
    BY DEF LoopBegins, LoopStates
  <2>2. 0 \in LongMin .. LongMax /\ ~(0 > LongMax)
    BY NumbersAssumption DEF LongMin, LongMax
  <2>3. Signed(0) = 0
    BY <2>2, SignedSame
  <2>4. Parsed(LoopBegins, 0)
    BY <2>1, <2>2, <2>3 DEF Parsed
  <2> QED BY <1>4, <1>5, <2>4
<1>7. ASSUME NEW n \in Nat, n \in I PROVE n + 1 \in I
  <2> SUFFICES ASSUME n + 1 <= N PROVE Parsed(s[n + 1], w[n + 1])
    OBVIOUS
  <2> DEFINE k == n + 1
  <2>1. k \in 1 .. N /\ k - 1 = n /\ n <= N
    BY <1>1
  <2>2. Parsed(s[n], w[n])
    BY <1>7, <2>1
  <2> HIDE DEF k
  <2>3. Parsed(TakeDigit(s[n], base, digits[k]), w[n] * base + digits[k])
    BY <1>1, <2>1, <2>2, ParsedTurn
  <2>4. s[k] = TakeDigit(s[n], base, digits[k]) /\ w[k] = w[n] * base + digits[k]
    BY <1>4, <1>5, <2>1
  <2> QED BY <2>3, <2>4 DEF k
<1>8. N \in I
  <2> HIDE DEF I
  <2>1. Nat \subseteq I
    BY <1>6, <1>7, SetInduction
  <2> QED BY <1>1, <2>1
<1> QED BY <1>1, <1>4, <1>5, <1>8

\* The loop of wcstoll and atoi ends with what the number wraps to.
LEMMA WrappingWraps ==
  ASSUME NEW base \in Bases, NEW digits \in Seq(DigitOf(base))
  PROVE  Worth(digits, base) \in Nat /\ Wrapping(digits, base) = Signed(Worth(digits, base))
<1> DEFINE N == Len(digits)
<1>1. N \in Nat /\ \A n \in 1 .. N : digits[n] \in DigitOf(base)
  BY LenProperties, ElementOfSeq
<1>2. base \in Nat /\ DigitOf(base) \subseteq Nat
  BY DEF Bases, DigitOf
<1>3. digits \in Seq(Nat)
  BY <1>2
<1>4. PICK w \in [0 .. N -> Nat] : /\ w[0] = 0
                                   /\ \A n \in 1 .. N : w[n] = w[n - 1] * base + digits[n]
                                   /\ Worth(digits, base) = w[N]
  BY <1>2, <1>3, WorthUnfolds
<1>5. PICK s \in [0 .. N -> Int] : /\ s[0] = 0
                                   /\ \A n \in 1 .. N : s[n] = Signed(s[n - 1] * base + digits[n])
                                   /\ Wrapping(digits, base) = s[N]
  BY <1>2, <1>3, WrappingUnfolds
<1> DEFINE I == {n \in Nat : n <= N => s[n] = Signed(w[n])}
<1>6. 0 \in I
  <2>1. 0 \in LongMin .. LongMax
    BY NumbersAssumption DEF LongMin, LongMax
  <2> QED BY <1>4, <1>5, <2>1, SignedSame
<1>7. ASSUME NEW n \in Nat, n \in I PROVE n + 1 \in I
  <2> SUFFICES ASSUME n + 1 <= N PROVE s[n + 1] = Signed(w[n + 1])
    OBVIOUS
  <2> DEFINE k == n + 1
  <2>1. k \in 1 .. N /\ k - 1 = n /\ n <= N /\ n \in 0 .. N
    BY <1>1
  <2>2. s[n] = Signed(w[n])
    BY <1>7, <2>1
  <2> HIDE DEF k
  <2>3. w[n] \in Int /\ base \in Int /\ digits[k] \in Int
    BY <1>1, <1>2, <1>4, <2>1
  <2>4. Signed(Signed(w[n]) * base + digits[k]) = Signed(w[n] * base + digits[k])
    BY <2>3, SignedTurn
  <2>5. s[k] = Signed(s[n] * base + digits[k]) /\ w[k] = w[n] * base + digits[k]
    BY <1>4, <1>5, <2>1
  <2> QED BY <2>2, <2>4, <2>5 DEF k
<1>8. N \in I
  <2> HIDE DEF I
  <2>1. Nat \subseteq I
    BY <1>6, <1>7, SetInduction
  <2> QED BY <1>1, <2>1
<1> QED BY <1>1, <1>4, <1>5, <1>8

\* What the loop of wcstoull has found after the digits that make v.
Roomed(st, v) ==
  /\ st \in LoopStates /\ v \in Nat
  /\ st.overflow <=> v > ULongMax
  /\ v <= ULongMax => st.result = v

LEMMA RoomedTurn ==
  ASSUME NEW base \in Bases, NEW d \in DigitOf(base), NEW st, NEW v, Roomed(st, v)
  PROVE  Roomed(TakeRoom(st, base, d), v * base + d)
<1> DEFINE u == v * base + d
           M == ULongMax
<1>1. /\ Half \in Nat /\ Half >= 36 /\ v \in Nat /\ st \in LoopStates
      /\ base \in Nat /\ base >= 2 /\ base <= 36 /\ d \in Nat /\ d < base
      /\ M \in Nat /\ d <= M
  BY NumbersAssumption DEF Roomed, Bases, DigitOf, ULongMax
<1>2. u \in Nat /\ u >= 2 * v
  BY <1>1, Grows
<1>3. CASE st.overflow
  <2>1. TakeRoom(st, base, d) = st
    BY <1>3 DEF TakeRoom
  <2>2. v > M
    BY <1>3 DEF Roomed
  <2> HIDE DEF u, M
  <2>3. u > M /\ ~(u <= M)
    BY <1>1, <1>2, <2>2
  <2>4. Roomed(st, u)
    BY <1>1, <1>2, <1>3, <2>3 DEF Roomed, M
  <2> QED BY <2>1, <2>4 DEF u
<1>4. CASE ~st.overflow
  <2>1. st.result = v
    BY <1>1, <1>4 DEF Roomed
  <2> DEFINE q == (M - d) \div base
             r == (M - d) % base
  <2> HIDE DEF M
  <2>2. q \in Int /\ r \in 0 .. base - 1 /\ M - d = base * q + r
    <3> DEFINE n == M - d
    <3>1. n \in Int /\ base \in Nat \ {0} /\ q = n \div base /\ r = n % base
      BY <1>1
    <3> HIDE DEF n, q, r
    <3>2. q \in Int /\ r \in 0 .. base - 1 /\ n = base * q + r
      BY ONLY <3>1
    <3> QED BY <3>2 DEF n
  <2> HIDE DEF q, r
  <2>3. v > q <=> u > M
    <3>1. ASSUME v > q PROVE u > M
      <4>1. v >= q + 1
        BY <1>1, <2>2, <3>1
      <4>2. base * v >= base * (q + 1)
        BY <1>1, <2>2, <4>1
      <4>3. base * (q + 1) = base * q + base /\ base * v = v * base
        BY <1>1, <2>2
      <4> DEFINE x == base * q
                 y == v * base
      <4>4. x \in Int /\ y \in Int /\ y >= x + base /\ M - d = x + r /\ u = y + d
        BY <1>1, <2>2, <4>2, <4>3
      <4> HIDE DEF x, y, u
      <4> QED BY <1>1, <2>2, <4>4
    <3>2. ASSUME v <= q PROVE u <= M
      <4>1. base * v <= base * q
        BY <1>1, <2>2, <3>2
      <4> DEFINE x == base * q
                 y == v * base
      <4>2. x \in Int /\ y \in Int /\ y <= x /\ M - d = x + r /\ u = y + d
        BY <1>1, <2>2, <4>1
      <4> HIDE DEF x, y, u
      <4> QED BY <1>1, <2>2, <4>2
    <3> HIDE DEF u
    <3> QED BY <1>1, <1>2, <2>2, <3>1, <3>2
  <2>4. TakeRoom(st, base, d) = IF v > q THEN [result |-> v, overflow |-> TRUE]
                                ELSE [result |-> u, overflow |-> FALSE]
    BY <1>4, <2>1 DEF TakeRoom, q, M
  <2> HIDE DEF u
  <2>5. CASE v > q
    <3> DEFINE new == [result |-> v, overflow |-> TRUE]
    <3>1. new \in LoopStates /\ new.overflow = TRUE
      BY <1>1 DEF LoopStates
    <3> HIDE DEF new
    <3>2. u > M /\ ~(u <= M)
      BY <1>1, <1>2, <2>3, <2>5
    <3>3. Roomed(new, u)
      BY <1>2, <3>1, <3>2 DEF Roomed, M
    <3> QED BY <2>4, <2>5, <3>3 DEF new, u
  <2>6. CASE ~(v > q)
    <3> DEFINE new == [result |-> u, overflow |-> FALSE]
    <3>1. new \in LoopStates /\ new.overflow = FALSE /\ new.result = u
      BY <1>2 DEF LoopStates
    <3> HIDE DEF new
    <3>2. u <= M /\ ~(u > M)
      BY <1>1, <1>2, <2>3, <2>6
    <3>3. Roomed(new, u)
      BY <1>2, <3>1, <3>2 DEF Roomed, M
    <3> QED BY <2>4, <2>6, <3>3 DEF new, u
  <2> QED BY <2>5, <2>6
<1> QED BY <1>3, <1>4

\* wcstoull's loop finds the overflow, or else the number.
LEMMA WcstoullParses ==
  ASSUME NEW base \in Bases, NEW digits \in Seq(DigitOf(base))
  PROVE  Roomed(WcstoullLoop(digits, base), Worth(digits, base))
<1> DEFINE N == Len(digits)
<1>1. N \in Nat /\ \A n \in 1 .. N : digits[n] \in DigitOf(base)
  BY LenProperties, ElementOfSeq
<1>2. base \in Nat /\ DigitOf(base) \subseteq Nat
  BY DEF Bases, DigitOf
<1>3. digits \in Seq(Nat)
  BY <1>2
<1>4. PICK w \in [0 .. N -> Nat] : /\ w[0] = 0
                                   /\ \A n \in 1 .. N : w[n] = w[n - 1] * base + digits[n]
                                   /\ Worth(digits, base) = w[N]
  BY <1>2, <1>3, WorthUnfolds
<1>5. PICK s \in [0 .. N -> LoopStates] : /\ s[0] = LoopBegins
                                          /\ \A n \in 1 .. N : s[n] = TakeRoom(s[n - 1], base, digits[n])
                                          /\ WcstoullLoop(digits, base) = s[N]
  BY <1>3, WcstoullUnfolds
<1> DEFINE I == {n \in Nat : n <= N => Roomed(s[n], w[n])}
<1>6. 0 \in I
  <2>1. LoopBegins \in LoopStates /\ LoopBegins.result = 0 /\ LoopBegins.overflow = FALSE
    BY DEF LoopBegins, LoopStates
  <2>2. ~(0 > ULongMax)
    BY NumbersAssumption DEF ULongMax
  <2>3. Roomed(LoopBegins, 0)
    BY <2>1, <2>2 DEF Roomed
  <2> QED BY <1>4, <1>5, <2>3
<1>7. ASSUME NEW n \in Nat, n \in I PROVE n + 1 \in I
  <2> SUFFICES ASSUME n + 1 <= N PROVE Roomed(s[n + 1], w[n + 1])
    OBVIOUS
  <2> DEFINE k == n + 1
  <2>1. k \in 1 .. N /\ k - 1 = n /\ n <= N
    BY <1>1
  <2>2. Roomed(s[n], w[n])
    BY <1>7, <2>1
  <2> HIDE DEF k
  <2>3. Roomed(TakeRoom(s[n], base, digits[k]), w[n] * base + digits[k])
    BY <1>1, <2>1, <2>2, RoomedTurn
  <2>4. s[k] = TakeRoom(s[n], base, digits[k]) /\ w[k] = w[n] * base + digits[k]
    BY <1>4, <1>5, <2>1
  <2> QED BY <2>3, <2>4 DEF k
<1>8. N \in I
  <2> HIDE DEF I
  <2>1. Nat \subseteq I
    BY <1>6, <1>7, SetInduction
  <2> QED BY <1>1, <2>1
<1> QED BY <1>1, <1>4, <1>5, <1>8

LEMMA Characters ==
  ASSUME NEW chars \in Seq(0 .. 35)
  PROVE  Len(chars) \in Nat /\ \A j \in 1 .. Len(chars) : chars[j] \in 0 .. 35 /\ chars[j] \in Nat
<1>1. Len(chars) \in Nat /\ \A j \in 1 .. Len(chars) : chars[j] \in 0 .. 35
  BY LenProperties, ElementOfSeq
<1>2. \A c \in 0 .. 35 : c \in Nat
  OBVIOUS
<1> QED BY <1>1, <1>2

\* The digits of the base from a position on are all there up to the first
\* character that is none.
LEMMA DigitsAre ==
  ASSUME NEW base \in Bases, NEW chars \in Seq(0 .. 35), NEW k \in 1 .. Len(chars) + 1,
         NEW D, D = DigitsFrom(chars, k, base)
  PROVE  /\ D \in Seq(DigitOf(base)) /\ Len(D) \in Nat
         /\ k + Len(D) <= Len(chars) + 1
         /\ \A i \in 1 .. Len(D) : D[i] = chars[k + i - 1] /\ chars[k + i - 1] < base
         /\ k + Len(D) <= Len(chars) => chars[k + Len(D)] >= base
<1> DEFINE N == Len(chars)
           wrong == {j \in k .. N : chars[j] >= base}
           end == IF wrong = {} THEN N ELSE (CHOOSE j \in wrong : \A l \in wrong : j <= l) - 1
<1>1. N \in Nat /\ \A j \in 1 .. N : chars[j] \in 0 .. 35 /\ chars[j] \in Nat
  BY Characters
<1>2. base \in Nat /\ k \in Nat \ {0} /\ k <= N + 1
  BY <1>1 DEF Bases
<1>3. D = SubSeq(chars, k, end)
  BY DEF DigitsFrom
<1>4. /\ end \in k - 1 .. N
      /\ \A j \in k .. end : chars[j] < base
      /\ end < N => chars[end + 1] >= base
  <2>1. CASE wrong = {}
    <3>1. end = N
      BY <2>1
    <3> HIDE DEF end
    <3>2. \A j \in k .. N : chars[j] < base
      <4> SUFFICES ASSUME NEW j \in k .. N, ~(chars[j] < base) PROVE FALSE
        OBVIOUS
      <4>1. j \in 1 .. N
        BY <1>1, <1>2
      <4>2. chars[j] \in Nat /\ base \in Nat
        BY <1>1, <1>2, <4>1
      <4>3. chars[j] >= base
        BY <4>2
      <4> QED BY <2>1, <4>3
    <3> QED BY <1>1, <1>2, <3>1, <3>2
  <2>2. CASE wrong # {}
    <3> DEFINE e == CHOOSE j \in wrong : \A l \in wrong : j <= l
    <3>1. wrong \in SUBSET Nat
      BY <1>2
    <3>2. \E j \in wrong : \A l \in wrong : j <= l
      <4> HIDE DEF wrong
      <4> QED BY <2>2, <3>1, Least
    <3>3. e \in wrong /\ \A l \in wrong : e <= l
      <4> HIDE DEF wrong
      <4> QED BY <3>2
    <3>4. end = e - 1
      BY <2>2
    <3> HIDE DEF e, end
    <3>5. e \in k .. N /\ chars[e] >= base
      BY <3>3
    <3>6. end \in k - 1 .. N /\ end + 1 = e
      BY <1>1, <1>2, <3>4, <3>5
    <3>7. \A j \in k .. end : chars[j] < base
      <4> SUFFICES ASSUME NEW j \in k .. end, ~(chars[j] < base) PROVE FALSE
        OBVIOUS
      <4>1. j \in 1 .. N /\ j \in k .. N /\ j < e /\ j \in Int
        BY <1>1, <1>2, <3>5, <3>6
      <4>2. chars[j] \in Nat /\ base \in Nat
        BY <1>1, <1>2, <4>1
      <4>3. chars[j] >= base
        BY <4>2
      <4>4. j \in wrong
        BY <4>1, <4>3
      <4>5. e <= j
        BY <3>3, <4>4
      <4> QED BY <3>5, <4>1, <4>5
    <3> QED BY <3>5, <3>6, <3>7
  <2> QED BY <2>1, <2>2
<1> HIDE DEF end
<1>5. end \in Int /\ k - 1 <= end /\ end <= N
  BY <1>1, <1>2, <1>4
<1> DEFINE n == end - k + 1
<1>6. n \in Nat /\ k + n = end + 1
  BY <1>2, <1>5
<1>7. \A i \in 1 .. n : k + i - 1 \in k .. end /\ k + i - 1 \in 1 .. N
  BY <1>1, <1>2, <1>5
<1>8. Len(D) = n /\ (\A i \in 1 .. n : D[i] = chars[k + i - 1]) /\ D \in Seq(0 .. 35)
  <2>1. \A i \in k .. end : chars[i] \in 0 .. 35
    BY <1>1, <1>2, <1>5
  <2> QED BY <1>2, <1>3, <1>5, <1>6, <2>1, SubSeqProperties
<1> HIDE DEF n
<1>9. \A i \in 1 .. n : D[i] \in DigitOf(base)
  <2> TAKE i \in 1 .. n
  <2> DEFINE j == k + i - 1
  <2>1. j \in k .. end /\ j \in 1 .. N /\ D[i] = chars[j]
    BY <1>7, <1>8
  <2> HIDE DEF j
  <2>2. D[i] < base /\ D[i] \in Nat
    BY <1>1, <1>4, <2>1
  <2> QED BY <1>2, <2>2 DEF DigitOf
<1>10. D \in Seq(DigitOf(base))
  <2>1. D \in [1 .. n -> DigitOf(base)]
    BY <1>8, <1>9, LenProperties
  <2> QED BY <1>6, <2>1
<1>11. k + n <= N => chars[k + n] >= base
  BY <1>1, <1>4, <1>5, <1>6
<1> QED BY <1>1, <1>2, <1>4, <1>5, <1>6, <1>7, <1>8, <1>10, <1>11

LEMMA NoDigits ==
  ASSUME NEW base \in Bases, NEW chars \in Seq(0 .. 35), NEW k \in 1 .. Len(chars) + 1,
         k <= Len(chars) => chars[k] >= base
  PROVE  Worth(DigitsFrom(chars, k, base), base) = 0
<1> DEFINE D == DigitsFrom(chars, k, base)
<1>1. base \in Nat /\ k \in Nat /\ Len(chars) \in Nat /\ DigitOf(base) \subseteq Nat
  BY LenProperties DEF Bases, DigitOf
<1>2. /\ D \in Seq(DigitOf(base)) /\ Len(D) \in Nat /\ k + Len(D) <= Len(chars) + 1
      /\ \A i \in 1 .. Len(D) : chars[k + i - 1] < base
  BY DigitsAre
<1> HIDE DEF D
<1>3. Len(D) = 0
  <2> SUFFICES ASSUME Len(D) >= 1 PROVE FALSE
    BY <1>2
  <2>1. 1 \in 1 .. Len(D) /\ k + 1 - 1 = k /\ k <= Len(chars)
    BY <1>1, <1>2
  <2>2. chars[k] < base
    BY <1>2, <2>1
  <2>3. chars[k] \in Nat
    <3>1. k \in 1 .. Len(chars)
      BY <1>1, <2>1
    <3> QED BY <3>1, Characters
  <2> QED BY <1>1, <2>1, <2>2, <2>3
<1>4. D \in Seq(Nat)
  BY <1>1, <1>2
<1>5. Worth(D, base) = 0
  <2>1. PICK w \in [0 .. Len(D) -> Nat] : w[0] = 0 /\ Worth(D, base) = w[Len(D)]
    BY <1>1, <1>4, WorthUnfolds
  <2> QED BY <1>3, <2>1
<1> QED BY <1>5 DEF D

\* A zero in front is a digit of every base and makes nothing of it.
LEMMA LeadingZero ==
  ASSUME NEW base \in Bases, NEW chars \in Seq(0 .. 35), Len(chars) > 0, chars[1] = 0
  PROVE  Worth(DigitsFrom(chars, 1, base), base) = Worth(DigitsFrom(chars, 2, base), base)
<1> DEFINE N == Len(chars)
           D == DigitsFrom(chars, 1, base)
           F == DigitsFrom(chars, 2, base)
<1>1. N \in Nat /\ N > 0 /\ base \in Nat /\ base >= 2 /\ DigitOf(base) \subseteq Nat
  BY LenProperties DEF Bases, DigitOf
<1>2. \A j \in 1 .. N : chars[j] \in Nat
  BY Characters
<1>3. 1 \in 1 .. N + 1 /\ 2 \in 1 .. N + 1
  BY <1>1
<1>4. /\ D \in Seq(DigitOf(base)) /\ Len(D) \in Nat /\ 1 + Len(D) <= N + 1
      /\ \A i \in 1 .. Len(D) : D[i] = chars[1 + i - 1] /\ chars[1 + i - 1] < base
      /\ 1 + Len(D) <= N => chars[1 + Len(D)] >= base
  BY <1>3, DigitsAre
<1>5. /\ F \in Seq(DigitOf(base)) /\ Len(F) \in Nat /\ 2 + Len(F) <= N + 1
      /\ \A i \in 1 .. Len(F) : F[i] = chars[2 + i - 1] /\ chars[2 + i - 1] < base
      /\ 2 + Len(F) <= N => chars[2 + Len(F)] >= base
  BY <1>3, DigitsAre
<1> HIDE DEF D, F
<1> DEFINE d == Len(D)
           f == Len(F)
<1>6. /\ d \in Nat /\ d <= N /\ f \in Nat /\ f + 1 <= N
  BY <1>1, <1>4, <1>5
<1>7. \A i \in 1 .. d : D[i] = chars[i] /\ chars[i] < base
  <2> TAKE i \in 1 .. d
  <2>1. 1 + i - 1 = i
    OBVIOUS
  <2> QED BY <1>4, <2>1
<1>8. \A i \in 1 .. f : F[i] = chars[i + 1] /\ chars[i + 1] < base
  <2> TAKE i \in 1 .. f
  <2>1. 2 + i - 1 = i + 1
    OBVIOUS
  <2> QED BY <1>5, <2>1
<1>9. d < N => chars[d + 1] >= base
  <2>1. d < N => 1 + d <= N /\ 1 + d = d + 1
    BY <1>1, <1>6
  <2> QED BY <1>4, <2>1
<1>10. f + 2 <= N => chars[f + 2] >= base
  <2>1. 2 + f = f + 2
    BY <1>6
  <2> QED BY <1>5, <2>1
<1>11. D \in Seq(Nat) /\ F \in Seq(Nat)
  BY <1>1, <1>4, <1>5
<1>12. d = f + 1
  <2> HIDE DEF d, f
  <2>1. d # 0
    <3> SUFFICES ASSUME d = 0 PROVE FALSE
      OBVIOUS
    <3>1. chars[1] >= base
      BY <1>1, <1>9
    <3> QED BY <1>1, <3>1
  <2>2. ASSUME d < f + 1 PROVE FALSE
    <3>1. d \in 1 .. f /\ d < N /\ d + 1 \in 1 .. N
      BY <1>1, <1>6, <2>1, <2>2
    <3>2. chars[d + 1] < base /\ chars[d + 1] >= base
      BY <1>8, <1>9, <3>1
    <3> QED BY <1>1, <1>2, <3>1, <3>2
  <2>3. ASSUME d > f + 1 PROVE FALSE
    <3>1. f + 2 \in 1 .. d /\ f + 2 <= N /\ f + 2 \in 1 .. N
      BY <1>1, <1>6, <2>3
    <3>2. chars[f + 2] < base /\ chars[f + 2] >= base
      BY <1>7, <1>10, <3>1
    <3> QED BY <1>1, <1>2, <3>1, <3>2
  <2> QED BY <1>6, <2>2, <2>3
<1>13. PICK v \in [0 .. d -> Nat] : /\ v[0] = 0
                                    /\ \A n \in 1 .. d : v[n] = v[n - 1] * base + D[n]
                                    /\ Worth(D, base) = v[d]
  BY <1>1, <1>11, WorthUnfolds
<1>14. PICK w \in [0 .. f -> Nat] : /\ w[0] = 0
                                    /\ \A n \in 1 .. f : w[n] = w[n - 1] * base + F[n]
                                    /\ Worth(F, base) = w[f]
  BY <1>1, <1>11, WorthUnfolds
<1> HIDE DEF d, f
<1> DEFINE I == {n \in Nat : n <= f => v[n + 1] = w[n]}
<1>15. 0 \in I
  <2>1. 1 \in 1 .. d /\ 1 - 1 = 0 /\ 0 + 1 = 1
    BY <1>6, <1>12
  <2>2. D[1] = 0
    BY <1>7, <2>1
  <2>3. v[1] = v[0] * base + D[1]
    BY <1>13, <2>1
  <2>4. v[1] = 0
    BY <1>1, <1>13, <2>2, <2>3
  <2> QED BY <1>14, <2>1, <2>4
<1>16. ASSUME NEW n \in Nat, n \in I PROVE n + 1 \in I
  <2> SUFFICES ASSUME n + 1 <= f PROVE v[n + 1 + 1] = w[n + 1]
    OBVIOUS
  <2> DEFINE k == n + 1
             l == n + 2
  <2>1. k \in 1 .. f /\ k - 1 = n /\ n <= f /\ l \in 1 .. d /\ l - 1 = k /\ l = k + 1 /\ l \in 1 .. N
    BY <1>6, <1>12
  <2>2. v[k] = w[n]
    BY <1>16, <2>1
  <2> HIDE DEF k, l
  <2>3. D[l] = chars[l] /\ F[k] = chars[l]
    BY <1>7, <1>8, <2>1
  <2>4. v[l] = v[k] * base + D[l]
    BY <1>13, <2>1
  <2>5. w[k] = w[n] * base + F[k]
    BY <1>14, <2>1
  <2>6. v[l] = w[k]
    BY <2>2, <2>3, <2>4, <2>5
  <2> QED BY <2>1, <2>6 DEF k
<1>17. f \in I
  <2> HIDE DEF I
  <2>1. Nat \subseteq I
    BY <1>15, <1>16, SetInduction
  <2> QED BY <1>6, <2>1
<1>18. v[d] = w[f]
  BY <1>6, <1>12, <1>17
<1> QED BY <1>13, <1>14, <1>18 DEF D, F

StringSet == [sign : {"none", "+", "-"}, chars : Seq(0 .. 35), upper : BOOLEAN]

\* A prefix 0x, or the beginning of one, that no hexadecimal digit follows.
LEMMA PrefixAlone ==
  ASSUME NEW str \in StringSet, HexPrefix(str), ~(Len(str.chars) > 2 /\ str.chars[3] < 16)
  PROVE  /\ Worth(DigitsFrom(str.chars, 3, 16), 16) = 0
         /\ \A base \in {8, 16} : Worth(DigitsFrom(str.chars, 1, base), base) = 0
<1> DEFINE chars == str.chars
<1>1. chars \in Seq(0 .. 35) /\ Len(chars) > 1 /\ chars[1] = 0 /\ chars[2] = 33
  BY DEF StringSet, HexPrefix, X
<1> HIDE DEF chars
<1>2. Len(chars) \in Nat /\ \A j \in 1 .. Len(chars) : chars[j] \in Nat
  BY <1>1, Characters
<1>3. 8 \in Bases /\ 16 \in Bases
  BY DEF Bases
<1>4. 2 \in 1 .. Len(chars) + 1 /\ 3 \in 1 .. Len(chars) + 1
  BY <1>1, <1>2
<1>5. Worth(DigitsFrom(chars, 3, 16), 16) = 0
  <2>1. 3 <= Len(chars) => chars[3] >= 16
    <3> SUFFICES ASSUME 3 <= Len(chars) PROVE chars[3] >= 16
      OBVIOUS
    <3>1. 3 \in 1 .. Len(chars) /\ Len(chars) > 2
      BY <1>2
    <3>2. chars[3] \in Nat /\ ~(chars[3] < 16)
      BY <1>2, <3>1 DEF chars
    <3> QED BY <3>2
  <2> QED BY <1>1, <1>3, <1>4, <2>1, NoDigits
<1>6. ASSUME NEW base \in {8, 16} PROVE Worth(DigitsFrom(chars, 1, base), base) = 0
  <2>1. base \in Bases /\ chars[2] >= base
    BY <1>1, <1>3
  <2>2. Worth(DigitsFrom(chars, 2, base), base) = 0
    BY <1>1, <1>4, <2>1, NoDigits
  <2>3. Len(chars) > 0
    BY <1>1, <1>2
  <2> QED BY <1>1, <2>1, <2>2, <2>3, LeadingZero
<1> QED BY <1>5, <1>6 DEF chars

\* The number that is meant is that of the digits p names.
Reads(str, base, p) ==
  /\ p.base \in Bases /\ p.from \in 1 .. Len(str.chars) + 1
  /\ Number(str, base) = Factor(str) * Worth(DigitsFrom(str.chars, p.from, p.base), p.base)

\* The cases of Number: with a prefix, octal, and all others.
LEMMA NumberCases ==
  ASSUME NEW str \in StringSet, NEW base \in {0} \cup Bases
  PROVE  LET W(from, b) == Worth(DigitsFrom(str.chars, from, b), b)
             N == Number(str, base)
             hex == HexPrefix(str) /\ Len(str.chars) > 2 /\ str.chars[3] < 16
             zero == str.chars # <<>> /\ str.chars[1] = 0
         IN /\ base \in {0, 16} /\ hex => N = Factor(str) * W(3, 16)
            /\ base \in {0, 8} /\ zero /\ ~(base = 0 /\ hex) => N = Factor(str) * W(1, 8)
            /\ base = 0 /\ ~hex /\ ~zero => N = Factor(str) * W(1, 10)
            /\ base # 0 /\ ~(base = 16 /\ hex) => N = Factor(str) * W(1, base)
  BY DEF Number, Bases

LEMMA StrtolReads ==
  ASSUME NEW str \in StringSet, NEW base \in {0} \cup Bases, ~(base = 16 /\ HexPrefix(str))
  PROVE  Reads(str, base, StrtolPrefix(str.chars, base))
<1> DEFINE chars == str.chars
           W(from, b) == Worth(DigitsFrom(chars, from, b), b)
           hex == HexPrefix(str) /\ Len(str.chars) > 2 /\ str.chars[3] < 16
           zero == str.chars # <<>> /\ str.chars[1] = 0
           p == StrtolPrefix(chars, base)
<1>1. chars \in Seq(0 .. 35) /\ Len(chars) \in Nat /\ (chars # <<>> <=> Len(chars) > 0)
  BY EmptySeq, LenProperties DEF StringSet
<1>2. HexPrefix(str) <=> Len(chars) > 1 /\ chars[1] = 0 /\ chars[2] = X
  BY DEF HexPrefix
<1>3. 8 \in Bases /\ 10 \in Bases /\ 16 \in Bases
  BY DEF Bases
<1>4. base # 0 => base \in Bases
  OBVIOUS
<1>5. CASE base # 0
  <2>1. p = [base |-> base, from |-> 1]
    BY <1>5 DEF StrtolPrefix
  <2>2. p.base = base /\ p.from = 1
    BY <2>1
  <2>3. Number(str, base) = Factor(str) * W(1, base)
    BY <1>5, NumberCases
  <2> HIDE DEF p
  <2>4. 1 \in 1 .. Len(chars) + 1
    BY <1>1
  <2> QED BY <1>4, <1>5, <2>2, <2>3, <2>4 DEF Reads, p
<1>6. CASE base = 0 /\ ~zero
  <2>1. p = [base |-> 10, from |-> 1]
    BY <1>6 DEF StrtolPrefix
  <2>2. p.base = 10 /\ p.from = 1
    BY <2>1
  <2>3. ~hex
    BY <1>1, <1>2, <1>6
  <2>4. Number(str, base) = Factor(str) * W(1, 10)
    BY <1>6, <2>3, NumberCases
  <2> HIDE DEF p
  <2>5. 1 \in 1 .. Len(chars) + 1
    BY <1>1
  <2> QED BY <1>3, <2>2, <2>4, <2>5 DEF Reads, p
<1>7. CASE base = 0 /\ zero /\ HexPrefix(str)
  <2>1. p = [base |-> 16, from |-> 3]
    BY <1>2, <1>7 DEF StrtolPrefix
  <2>2. p.base = 16 /\ p.from = 3
    BY <2>1
  <2>3. Number(str, base) = Factor(str) * W(3, 16)
    <3>1. CASE hex
      BY <1>7, <3>1, NumberCases
    <3>2. CASE ~hex
      <4>1. Number(str, base) = Factor(str) * W(1, 8)
        BY <1>7, <3>2, NumberCases
      <4>2. W(1, 8) = 0 /\ W(3, 16) = 0
        BY <1>7, <3>2, PrefixAlone
      <4> QED BY <4>1, <4>2
    <3> QED BY <3>1, <3>2
  <2> HIDE DEF p
  <2>4. 3 \in 1 .. Len(chars) + 1
    BY <1>1, <1>2, <1>7
  <2> QED BY <1>3, <2>2, <2>3, <2>4 DEF Reads, p
<1>8. CASE base = 0 /\ zero /\ ~HexPrefix(str)
  <2>1. p = [base |-> 8, from |-> 2]
    BY <1>2, <1>8 DEF StrtolPrefix
  <2>2. p.base = 8 /\ p.from = 2
    BY <2>1
  <2>3. Number(str, base) = Factor(str) * W(1, 8)
    BY <1>8, NumberCases
  <2>4. W(1, 8) = W(2, 8)
    BY <1>1, <1>3, <1>8, LeadingZero
  <2> HIDE DEF p
  <2>5. 2 \in 1 .. Len(chars) + 1
    BY <1>1, <1>8
  <2> QED BY <1>3, <2>2, <2>3, <2>4, <2>5 DEF Reads, p
<1> QED BY <1>5, <1>6, <1>7, <1>8

LEMMA WcstollReads ==
  ASSUME NEW str \in StringSet, NEW base \in {0} \cup Bases,
         ~(base \in {0, 16} /\ HexPrefix(str) /\ str.upper)
  PROVE  Reads(str, base, WcstollPrefix(str, base))
<1> DEFINE chars == str.chars
           W(from, b) == Worth(DigitsFrom(chars, from, b), b)
           hex == HexPrefix(str) /\ Len(str.chars) > 2 /\ str.chars[3] < 16
           zero == str.chars # <<>> /\ str.chars[1] = 0
           p == WcstollPrefix(str, base)
<1>1. chars \in Seq(0 .. 35) /\ Len(chars) \in Nat /\ (chars # <<>> <=> Len(chars) > 0)
  BY EmptySeq, LenProperties DEF StringSet
<1>2. HexPrefix(str) <=> Len(chars) > 1 /\ chars[1] = 0 /\ chars[2] = X
  BY DEF HexPrefix
<1>3. 8 \in Bases /\ 10 \in Bases /\ 16 \in Bases
  BY DEF Bases
<1>4. base # 0 => base \in Bases
  OBVIOUS
<1>5. CASE base \in {0, 16} /\ HexPrefix(str)
  <2>1. p = [base |-> 16, from |-> 3]
    BY <1>1, <1>2, <1>5 DEF WcstollPrefix
  <2>2. p.base = 16 /\ p.from = 3
    BY <2>1
  <2>3. zero
    BY <1>1, <1>2, <1>5
  <2>4. Number(str, base) = Factor(str) * W(3, 16)
    <3>1. CASE hex
      BY <1>5, <3>1, NumberCases
    <3>2. CASE ~hex
      <4>1. CASE base = 0
        <5>1. Number(str, base) = Factor(str) * W(1, 8)
          BY <2>3, <3>2, <4>1, NumberCases
        <5>2. W(1, 8) = 0 /\ W(3, 16) = 0
          BY <1>5, <3>2, PrefixAlone
        <5> QED BY <5>1, <5>2
      <4>2. CASE base = 16
        <5>1. Number(str, base) = Factor(str) * W(1, 16)
          BY <3>2, <4>2, NumberCases
        <5>2. W(1, 16) = 0 /\ W(3, 16) = 0
          BY <1>5, <3>2, PrefixAlone
        <5> QED BY <5>1, <5>2
      <4> QED BY <1>5, <4>1, <4>2
    <3> QED BY <3>1, <3>2
  <2> HIDE DEF p
  <2>5. 3 \in 1 .. Len(chars) + 1
    BY <1>1, <1>2, <1>5
  <2> QED BY <1>3, <2>2, <2>4, <2>5 DEF Reads, p
<1>6. CASE base \in {0, 8} /\ zero /\ ~(base = 0 /\ HexPrefix(str))
  <2>1. p = [base |-> 8, from |-> 2]
    BY <1>2, <1>6 DEF WcstollPrefix
  <2>2. p.base = 8 /\ p.from = 2
    BY <2>1
  <2>3. Number(str, base) = Factor(str) * W(1, 8)
    BY <1>6, NumberCases
  <2>4. W(1, 8) = W(2, 8)
    BY <1>1, <1>3, <1>6, LeadingZero
  <2> HIDE DEF p
  <2>5. 2 \in 1 .. Len(chars) + 1
    BY <1>1, <1>6
  <2> QED BY <1>3, <2>2, <2>3, <2>4, <2>5 DEF Reads, p
<1>7. CASE ~(base \in {0, 16} /\ HexPrefix(str)) /\ ~(base \in {0, 8} /\ zero)
  <2> DEFINE b == IF base = 0 THEN 10 ELSE base
  <2>1. p = [base |-> b, from |-> 1]
    BY <1>2, <1>7 DEF WcstollPrefix
  <2>2. p.base = b /\ p.from = 1
    BY <2>1
  <2>3. Number(str, base) = Factor(str) * W(1, b)
    <3>1. CASE base = 0
      BY <1>7, <3>1, NumberCases
    <3>2. CASE base # 0
      BY <1>7, <3>2, NumberCases
    <3> QED BY <3>1, <3>2
  <2>4. b \in Bases
    BY <1>3, <1>4
  <2> HIDE DEF p, b
  <2>5. 1 \in 1 .. Len(chars) + 1
    BY <1>1
  <2> QED BY <2>2, <2>3, <2>4, <2>5 DEF Reads, p
<1> QED BY <1>5, <1>6, <1>7

LEMMA StrtolExact ==
  ASSUME NEW str \in StringSet, NEW base \in {0} \cup Bases, ~(base = 16 /\ HexPrefix(str))
  PROVE  LET n == Number(str, base)
         IN /\ Strtol(str, base).value = Clamp(n, LongMin, LongMax)
            /\ Strtol(str, base).erange = (n \notin LongMin + 1 .. LongMax)
            /\ str.sign = "none" /\ n <= ULongMax => Strtoul(str, base) = n
<1> DEFINE n == Number(str, base)
           p == StrtolPrefix(str.chars, base)
           digits == DigitsFrom(str.chars, p.from, p.base)
           end == StrtolLoop(digits, p.base)
           w == Worth(digits, p.base)
           F == Factor(str)
           over == end.overflow
           value == IF over THEN (IF str.sign = "-" THEN LongMin ELSE LongMax) ELSE end.result * F
           out == [value |-> value, erange |-> over]
<1>1. p.base \in Bases /\ p.from \in 1 .. Len(str.chars) + 1 /\ n = F * w
  BY StrtolReads DEF Reads
<1>2. Strtol(str, base) = out
  BY DEF Strtol
<1>3. str.sign = "none" => Strtoul(str, base) = Unsigned(end.result)
  BY DEF Strtoul
<1> HIDE DEF n, p
<1>4. digits \in Seq(DigitOf(p.base))
  <2>1. str.chars \in Seq(0 .. 35)
    BY DEF StringSet
  <2> QED BY <1>1, <2>1, DigitsAre
<1> HIDE DEF digits
<1>5. Parsed(end, w)
  BY <1>1, <1>4, StrtolParses
<1> HIDE DEF end, w
<1>6. w \in Nat /\ over \in BOOLEAN /\ (over <=> w > LongMax) /\ (w <= ULongMax => end.result = Signed(w))
  BY <1>5 DEF Parsed, LoopStates
<1>7. Half \in Nat /\ Half >= 36 /\ LongMax = Half - 1 /\ LongMin = -Half /\ ULongMax = 2 * Half - 1
  BY NumbersAssumption DEF LongMax, LongMin, ULongMax
<1>8. IF str.sign = "-" THEN F = -1 ELSE F = 1
  BY DEF Factor
<1>9. w <= LongMax => end.result = w
  <2> SUFFICES ASSUME w <= LongMax PROVE end.result = w
    OBVIOUS
  <2>1. w \in LongMin .. LongMax /\ w <= ULongMax
    BY <1>6, <1>7
  <2> QED BY <1>6, <2>1, SignedSame
<1>10. Strtol(str, base).value = value /\ Strtol(str, base).erange = over
  <2> HIDE DEF value, over
  <2> QED BY <1>2
<1> HIDE DEF F
<1>11. value = Clamp(n, LongMin, LongMax)
  <2>1. CASE str.sign = "-"
    <3>1. n = -w
      BY <1>1, <1>6, <1>8, <2>1
    <3>2. CASE w > LongMax
      <4>1. value = LongMin
        BY <1>6, <2>1, <3>2
      <4> QED BY <1>6, <1>7, <3>1, <3>2, <4>1 DEF Clamp
    <3>3. CASE w <= LongMax
      <4>1. value = -w
        BY <1>6, <1>7, <1>8, <1>9, <2>1, <3>3
      <4> HIDE DEF value
      <4> QED BY <1>6, <1>7, <3>1, <3>3, <4>1 DEF Clamp
    <3> QED BY <1>6, <1>7, <3>2, <3>3
  <2>2. CASE str.sign # "-"
    <3>1. n = w
      BY <1>1, <1>6, <1>8, <2>2
    <3>2. CASE w > LongMax
      <4>1. value = LongMax
        BY <1>6, <2>2, <3>2
      <4> QED BY <1>6, <1>7, <3>1, <3>2, <4>1 DEF Clamp
    <3>3. CASE w <= LongMax
      <4>1. value = w
        BY <1>6, <1>7, <1>8, <1>9, <2>2, <3>3
      <4> HIDE DEF value
      <4> QED BY <1>6, <1>7, <3>1, <3>3, <4>1 DEF Clamp
    <3> QED BY <1>6, <1>7, <3>2, <3>3
  <2> QED BY <2>1, <2>2
<1>12. over = (n \notin LongMin + 1 .. LongMax)
  <2>1. n \in LongMin + 1 .. LongMax <=> w <= LongMax
    <3>1. n = w \/ n = -w
      BY <1>1, <1>6, <1>8
    <3> QED BY <1>6, <1>7, <3>1
  <2> DEFINE within == n \in LongMin + 1 .. LongMax
  <2>2. over <=> ~within
    BY <1>6, <1>7, <2>1
  <2> HIDE DEF over, within
  <2>3. over = ~within
    BY <1>6, <2>2
  <2> QED BY <2>3 DEF within
<1>13. ASSUME str.sign = "none", n <= ULongMax PROVE Strtoul(str, base) = n
  <2>1. n = w /\ w <= ULongMax
    BY <1>1, <1>6, <1>8, <1>13
  <2>2. PICK k \in Int : w = Signed(w) + 2 * Half * k
    BY <1>6, SignedIs
  <2> DEFINE s == Signed(w)
             d == 2 * Half
             l == -k
  <2>3. s \in Int
    BY <1>6, <1>7, SignedIs
  <2>4. s = d * l + w
    <3> HIDE DEF s
    <3> DEFINE x == Half * k
    <3>1. x \in Int /\ d * l = -(2 * x) /\ w = s + 2 * x
      BY <1>7, <2>2, <2>3 DEF s
    <3> HIDE DEF x, d, l
    <3> QED BY <1>6, <2>3, <3>1
  <2>5. d \in Nat \ {0} /\ l \in Int /\ w \in 0 .. d - 1
    BY <1>6, <1>7, <2>1
  <2> HIDE DEF d, l, s
  <2>6. (d * l + w) % d = w
    BY <2>5, Division
  <2>7. Unsigned(s) = w
    BY <2>4, <2>6 DEF Unsigned, d
  <2> QED BY <1>3, <1>6, <1>13, <2>1, <2>7 DEF s
<1> QED BY <1>10, <1>11, <1>12, <1>13 DEF n

\* What a loop that lets the product wrap makes of a number with its sign.
LEMMA WrappedBack ==
  ASSUME NEW F \in {1, -1}, NEW w \in Nat, F * w \in LongMin .. LongMax
  PROVE  Signed(F * Signed(w)) = F * w
<1>1. Signed(w) \in Int
  BY SignedIs, NumbersAssumption DEF LongMin, LongMax
<1>2. Signed(Signed(w) * F + 0) = Signed(w * F + 0)
  BY SignedTurn
<1>3. F * w = w * F + 0 /\ F * Signed(w) = Signed(w) * F + 0
  BY <1>1
<1>4. Signed(F * w) = F * w
  BY SignedSame
<1> QED BY <1>2, <1>3, <1>4

LEMMA WcstollExact ==
  ASSUME NEW str \in StringSet, NEW base \in {0} \cup Bases,
         ~(base \in {0, 16} /\ HexPrefix(str) /\ str.upper)
  PROVE  LET n == Number(str, base)
         IN /\ n \in LongMin .. LongMax => Wcstoll(str, base) = n
            /\ str.sign # "-" => Wcstoull(str, base) = Clamp(n, 0, ULongMax)
<1> DEFINE n == Number(str, base)
           p == WcstollPrefix(str, base)
           digits == DigitsFrom(str.chars, p.from, p.base)
           end == WcstoullLoop(digits, p.base)
           w == Worth(digits, p.base)
           F == Factor(str)
<1>1. p.base \in Bases /\ p.from \in 1 .. Len(str.chars) + 1 /\ n = F * w
  BY WcstollReads DEF Reads
<1>2. Wcstoll(str, base) = Signed(F * Wrapping(digits, p.base))
  BY DEF Wcstoll
<1>3. str.sign # "-" => Wcstoull(str, base) = IF end.overflow THEN ULongMax ELSE end.result
  BY DEF Wcstoull
<1> HIDE DEF n, p
<1>4. digits \in Seq(DigitOf(p.base))
  <2>1. str.chars \in Seq(0 .. 35)
    BY DEF StringSet
  <2> QED BY <1>1, <2>1, DigitsAre
<1> HIDE DEF digits
<1>5. w \in Nat /\ Wrapping(digits, p.base) = Signed(w)
  BY <1>1, <1>4, WrappingWraps
<1>6. Roomed(end, w)
  BY <1>1, <1>4, WcstoullParses
<1> HIDE DEF end, w
<1>7. F \in {1, -1} /\ (str.sign # "-" => F = 1)
  BY DEF Factor
<1> HIDE DEF F
<1>8. n \in LongMin .. LongMax => Wcstoll(str, base) = n
  BY <1>1, <1>2, <1>5, <1>7, WrappedBack
<1>9. ASSUME str.sign # "-" PROVE Wcstoull(str, base) = Clamp(n, 0, ULongMax)
  <2>1. n = w
    BY <1>1, <1>5, <1>7, <1>9
  <2>2. ULongMax \in Nat
    BY NumbersAssumption DEF ULongMax
  <2>3. (end.overflow <=> w > ULongMax) /\ (w <= ULongMax => end.result = w)
    BY <1>6 DEF Roomed
  <2>4. CASE w > ULongMax
    BY <1>3, <1>5, <1>9, <2>1, <2>2, <2>3, <2>4 DEF Clamp
  <2>5. CASE w <= ULongMax
    BY <1>3, <1>5, <1>9, <2>1, <2>2, <2>3, <2>5 DEF Clamp
  <2> QED BY <1>5, <2>2, <2>4, <2>5
<1> QED BY <1>8, <1>9 DEF n

LEMMA AtoiExact ==
  ASSUME NEW str \in StringSet, Number(str, 10) \in LongMin .. LongMax
  PROVE  Atoi(str) = Number(str, 10)
<1> DEFINE digits == DigitsFrom(str.chars, 1, 10)
           w == Worth(digits, 10)
           F == Factor(str)
<1>1. 10 \in Bases /\ 10 \notin {0, 8, 16}
  BY DEF Bases
<1>2. Number(str, 10) = F * w
  BY <1>1, NumberCases
<1>3. str.chars \in Seq(0 .. 35) /\ Len(str.chars) \in Nat
  BY LenProperties DEF StringSet
<1>4. digits \in Seq(DigitOf(10))
  <2>1. 1 \in 1 .. Len(str.chars) + 1
    BY <1>3
  <2> QED BY <1>1, <1>3, <2>1, DigitsAre
<1>5. Atoi(str) = Signed(F * Wrapping(digits, 10))
  BY DEF Atoi
<1> HIDE DEF digits
<1>6. w \in Nat /\ Wrapping(digits, 10) = Signed(w)
  BY <1>1, <1>4, WrappingWraps
<1>7. F \in {1, -1}
  BY DEF Factor
<1> HIDE DEF w, F
<1> QED BY <1>2, <1>5, <1>6, <1>7, WrappedBack

\* strtol and its relatives (xlibc/libc.c) and atoi (xlibc/string.c) return the
\* number the string is, or report that it has no room, for strings of any
\* length, every base C knows and integers of any size: the division after each
\* digit finds every overflow of a product that has wrapped.
THEOREM NumbersExactHolds == TextSpec => []NumbersExact
<1> DEFINE Inv == given.kind = "number" => <<given.str, given.base>> \in NumberInputs
<1>1. TextInit => Inv
  BY DEF TextInit, Nothing
<1>2. Inv /\ [Give]_textVars => Inv'
  <2>1. Inv /\ UNCHANGED textVars => Inv'
    BY DEF textVars
  <2>2. ASSUME Give PROVE Inv'
    <3> SUFFICES ASSUME given'.kind = "number"
                 PROVE  <<given'.str, given'.base>> \in NumberInputs
      OBVIOUS
    <3>1. PICK n \in NumberInputs : given' = [kind |-> "number", str |-> n[1], base |-> n[2]]
      BY <2>2 DEF Give
    <3>2. given'.str = n[1] /\ given'.base = n[2]
      BY <3>1
    <3>3. n = <<n[1], n[2]>>
      BY NumberInputsAssumption
    <3> QED BY <3>2, <3>3
  <2> QED BY <2>1, <2>2
<1>3. Inv => NumbersExact
  <2> SUFFICES ASSUME given.kind = "number", <<given.str, given.base>> \in NumberInputs
               PROVE  NumbersExact
    BY DEF NumbersExact
  <2> DEFINE str == given.str
             base == given.base
  <2>1. str \in StringSet /\ base \in {0} \cup Bases
    BY NumberInputsAssumption DEF StringSet, Bases
  <2>2. ~(base = 16 /\ HexPrefix(str)) =>
          /\ Strtol(str, base).value = Clamp(Number(str, base), LongMin, LongMax)
          /\ Strtol(str, base).erange = (Number(str, base) \notin LongMin + 1 .. LongMax)
          /\ str.sign = "none" /\ Number(str, base) <= ULongMax => Strtoul(str, base) = Number(str, base)
    BY <2>1, StrtolExact
  <2>3. ~(base \in {0, 16} /\ HexPrefix(str) /\ str.upper) =>
          /\ Number(str, base) \in LongMin .. LongMax => Wcstoll(str, base) = Number(str, base)
          /\ str.sign # "-" => Wcstoull(str, base) = Clamp(Number(str, base), 0, ULongMax)
    BY <2>1, WcstollExact
  <2>4. base = 10 /\ Number(str, base) \in LongMin .. LongMax => Atoi(str) = Number(str, base)
    BY <2>1, AtoiExact
  <2> QED BY <2>2, <2>3, <2>4 DEF NumbersExact
<1> QED
  BY <1>1, <1>2, <1>3, PTL DEF TextSpec

----------------------------------------------------------------------------
(* Sorting and searching *)

\* A loop whose n-th turn takes what holds after n - 1 turns to what holds after n.
Stage(S, step, N, init) ==
  init \in S[0] /\ \A n \in 1 .. N : step[n] \in [S[n - 1] -> S[n]]

LEMMA Stages ==
  ASSUME NEW N \in Nat, NEW S, NEW init, NEW step, Stage(S, step, N, init)
  PROVE  \E g : /\ g = [n \in 0 .. N |-> g[n]] /\ g[0] = init
                /\ \A n \in 1 .. N : g[n - 1] \in S[n - 1] /\ g[n] = step[n][g[n - 1]]
<1> DEFINE T == UNION {S[n] : n \in 0 .. N}
           Total(n) == [st \in T |-> IF st \in S[n - 1] THEN step[n][st] ELSE init]
           total == [n \in 1 .. N |-> Total(n)]
<1>1. init \in T
  <2>1. 0 \in 0 .. N
    OBVIOUS
  <2> QED BY <2>1 DEF Stage
<1>2. total \in [1 .. N -> [T -> T]]
  <2>1. ASSUME NEW n \in 1 .. N, NEW st \in T PROVE Total(n)[st] \in T
    <3>1. n \in 0 .. N
      OBVIOUS
    <3>2. st \in S[n - 1] => step[n][st] \in S[n]
      BY DEF Stage
    <3> QED BY <1>1, <3>1, <3>2
  <2>2. \A n \in 1 .. N : Total(n) \in [T -> T]
    BY <2>1
  <2> HIDE DEF Total
  <2> QED BY <2>2
<1>3. \A n \in 1 .. N, st \in T : st \in S[n - 1] => total[n][st] = step[n][st]
  OBVIOUS
<1> HIDE DEF total
<1>4. PICK g : Rounds(g, N, T, init, total)
  BY <1>1, <1>2, Recursion
<1> HIDE DEF T
<1> DEFINE I == {n \in Nat : n <= N => g[n] \in S[n]}
<1>5. 0 \in I
  BY <1>4 DEF Rounds, Stage
<1>6. ASSUME NEW n \in Nat, n \in I PROVE n + 1 \in I
  <2> SUFFICES ASSUME n + 1 <= N PROVE g[n + 1] \in S[n + 1]
    OBVIOUS
  <2> DEFINE k == n + 1
  <2>1. k \in 1 .. N /\ k - 1 = n /\ n <= N /\ k - 1 \in 0 .. N
    OBVIOUS
  <2> HIDE DEF k
  <2>2. g[k - 1] \in S[k - 1] /\ g[k - 1] \in T /\ g[k] = total[k][g[k - 1]]
    BY <1>4, <1>6, <2>1 DEF Rounds
  <2>3. g[k] = step[k][g[k - 1]]
    BY <1>3, <2>1, <2>2
  <2> QED BY <2>1, <2>2, <2>3 DEF k, Stage
<1>7. \A n \in 0 .. N : g[n] \in S[n]
  <2> HIDE DEF I
  <2>1. Nat \subseteq I
    BY <1>5, <1>6, SetInduction
  <2> QED BY <2>1 DEF I
<1>8. \A n \in 1 .. N : g[n - 1] \in S[n - 1] /\ g[n] = step[n][g[n - 1]]
  <2> TAKE n \in 1 .. N
  <2>1. n - 1 \in 0 .. N
    OBVIOUS
  <2>2. g[n - 1] \in T /\ g[n] = total[n][g[n - 1]]
    BY <1>4, <2>1 DEF Rounds
  <2> QED BY <1>3, <1>7, <2>1, <2>2
<1> QED BY <1>4, <1>8 DEF Rounds

LEMMA StagesHold ==
  ASSUME NEW N \in Nat, NEW S, NEW init, NEW step, Stage(S, step, N, init),
         NEW left, left[0] = init,
         \A n \in 1 .. N : left[n - 1] \in S[n - 1] => left[n] = step[n][left[n - 1]]
  PROVE  \A n \in 0 .. N : left[n] \in S[n]
<1> DEFINE I == {n \in Nat : n <= N => left[n] \in S[n]}
<1>1. 0 \in I
  BY DEF Stage
<1>2. ASSUME NEW n \in Nat, n \in I PROVE n + 1 \in I
  <2> SUFFICES ASSUME n + 1 <= N PROVE left[n + 1] \in S[n + 1]
    OBVIOUS
  <2> DEFINE k == n + 1
  <2>1. k \in 1 .. N /\ k - 1 = n /\ n <= N
    OBVIOUS
  <2> HIDE DEF k
  <2>2. left[k - 1] \in S[k - 1]
    BY <1>2, <2>1
  <2>3. left[k] = step[k][left[k - 1]]
    BY <2>1, <2>2
  <2>4. step[k] \in [S[k - 1] -> S[k]]
    BY <2>1 DEF Stage
  <2> QED BY <2>2, <2>3, <2>4 DEF k
<1> HIDE DEF I
<1>3. Nat \subseteq I
  BY <1>1, <1>2, SetInduction
<1> QED BY <1>3 DEF I

Row(N, E) == [1 .. N -> E]
Keyed(E) == \A e \in E : e.key \in Int

\* After n turns of Lomuto's loop over s: the elements of s, of which the first i
\* are not greater than the pivot, and the others before the n-th are.
Partly(E, s, n) ==
  {st \in [s : [1 .. Len(s) -> E], i : 0 .. n] :
    /\ ToSet(st.s) = ToSet(s)
    /\ st.s[Len(s)] = s[Len(s)]
    /\ \A k \in 1 .. st.i : st.s[k].key <= s[Len(s)].key
    /\ \A k \in st.i + 1 .. n : st.s[k].key > s[Len(s)].key}

LEMMA Swapped ==
  ASSUME NEW E, NEW N \in Nat, NEW s \in Row(N, E), NEW i \in 0 .. N - 1, NEW j \in 0 .. N - 1
  PROVE  /\ Swap(s, i, j) \in Row(N, E)
         /\ ToSet(Swap(s, i, j)) = ToSet(s)
         /\ Swap(s, i, j)[i + 1] = s[j + 1] /\ Swap(s, i, j)[j + 1] = s[i + 1]
         /\ \A k \in 1 .. N : k \notin {i + 1, j + 1} => Swap(s, i, j)[k] = s[k]
<1> DEFINE t == Swap(s, i, j)
<1>1. i + 1 \in 1 .. N /\ j + 1 \in 1 .. N
  OBVIOUS
<1>2. t \in [1 .. N -> E] /\ s \in [1 .. N -> E]
  BY <1>1 DEF Swap, Row
<1>3. t[i + 1] = s[j + 1] /\ t[j + 1] = s[i + 1]
  BY <1>1, <1>2 DEF Swap
<1>4. \A k \in 1 .. N : k \notin {i + 1, j + 1} => t[k] = s[k]
  BY <1>2 DEF Swap
<1> HIDE DEF t
<1>5. DOMAIN t = 1 .. N /\ DOMAIN s = 1 .. N
  BY <1>2
<1>6. ToSet(t) = ToSet(s)
  <2>1. \A k \in 1 .. N : \E l \in 1 .. N : t[k] = s[l]
    BY <1>1, <1>3, <1>4
  <2>2. \A k \in 1 .. N : \E l \in 1 .. N : s[k] = t[l]
    BY <1>1, <1>3, <1>4
  <2>3. \A x : x \in ToSet(t) <=> \E k \in 1 .. N : x = t[k]
    BY <1>5 DEF ToSet
  <2>4. \A x : x \in ToSet(s) <=> \E k \in 1 .. N : x = s[k]
    BY <1>5 DEF ToSet
  <2>5. \A x : x \in ToSet(t) <=> x \in ToSet(s)
    BY <2>1, <2>2, <2>3, <2>4
  <2> QED BY <2>5
<1> QED BY <1>2, <1>3, <1>4, <1>6 DEF t, Row

\* One turn keeps this.
LEMMA GatherPartly ==
  ASSUME NEW E, Keyed(E), NEW s \in Seq(E), Len(s) > 1, NEW n \in 1 .. Len(s) - 1,
         NEW st \in Partly(E, s, n - 1)
  PROVE  Gather(st, n - 1) \in Partly(E, s, n)
<1> DEFINE N == Len(s)
           a == st.s
           i == st.i
           pivot == s[Len(s)].key
           G == Gather(st, n - 1)
<1>1. N \in Nat /\ N > 1 /\ n \in 1 .. N /\ n < N /\ s[N] \in E
  BY LenProperties, ElementOfSeq
<1>2. /\ a \in [1 .. N -> E] /\ i \in Nat /\ i < n /\ ToSet(a) = ToSet(s) /\ a[N] = s[N]
      /\ \A k \in 1 .. i : a[k].key <= pivot
      /\ \A k \in i + 1 .. n - 1 : a[k].key > pivot
      /\ st = [s |-> a, i |-> i]
  BY <1>1 DEF Partly
<1>3. Len(a) = N
  BY <1>1, <1>2
<1>4. a[n].key \in Int /\ pivot \in Int /\ n - 1 + 1 = n
  BY <1>1, <1>2 DEF Keyed
<1>5. G = IF a[n].key <= pivot THEN [s |-> Swap(a, i, n - 1), i |-> i + 1] ELSE st
  <2>1. Compar(a[n].key, pivot) <= 0 <=> a[n].key <= pivot
    BY <1>4 DEF Compar
  <2> QED BY <1>2, <1>3, <1>4, <2>1 DEF Gather
<1> HIDE DEF N, a, i, pivot, G
<1>6. CASE a[n].key > pivot
  <2>1. G = st
    BY <1>4, <1>5, <1>6
  <2>2. \A k \in i + 1 .. n : a[k].key > pivot
    BY <1>1, <1>2, <1>6
  <2> QED BY <1>1, <1>2, <2>1, <2>2 DEF Partly, N, a, i, pivot, G
<1>7. CASE a[n].key <= pivot
  <2> DEFINE b == Swap(a, i, n - 1)
  <2> HIDE DEF b
  <2>1. G = [s |-> b, i |-> i + 1]
    BY <1>5, <1>7 DEF b
  <2>2. i \in 0 .. N - 1 /\ n - 1 \in 0 .. N - 1
    BY <1>1, <1>2
  <2>3. /\ b \in [1 .. N -> E] /\ ToSet(b) = ToSet(a) /\ b[i + 1] = a[n] /\ b[n] = a[i + 1]
        /\ \A k \in 1 .. N : k \notin {i + 1, n} => b[k] = a[k]
    <3>1. N \in Nat /\ a \in Row(N, E)
      BY <1>1, <1>2 DEF Row
    <3> DEFINE j == n - 1
    <3>2. j \in 0 .. N - 1 /\ j + 1 = n
      BY <1>4, <2>2
    <3>3. /\ Swap(a, i, j) \in Row(N, E) /\ ToSet(Swap(a, i, j)) = ToSet(a)
          /\ Swap(a, i, j)[i + 1] = a[j + 1] /\ Swap(a, i, j)[j + 1] = a[i + 1]
          /\ \A k \in 1 .. N : k \notin {i + 1, j + 1} => Swap(a, i, j)[k] = a[k]
      <4> HIDE DEF j
      <4> QED BY <2>2, <3>1, <3>2, Swapped
    <3> QED BY <3>2, <3>3 DEF b, Row
  <2>4. b[N] = s[N]
    BY <1>1, <1>2, <2>3
  <2>5. \A k \in 1 .. i + 1 : b[k].key <= pivot
    <3> TAKE k \in 1 .. i + 1
    <3>1. CASE k = i + 1
      BY <1>7, <2>3, <3>1
    <3>2. CASE k # i + 1
      <4>1. k \in 1 .. i /\ k \in 1 .. N /\ k \notin {i + 1, n}
        BY <1>1, <1>2, <3>2
      <4> QED BY <1>2, <2>3, <4>1
    <3> QED BY <3>1, <3>2
  <2>6. \A k \in i + 2 .. n : b[k].key > pivot
    <3> TAKE k \in i + 2 .. n
    <3>1. CASE k = n
      <4>1. i + 1 \in i + 1 .. n - 1
        BY <1>1, <1>2, <3>1
      <4> QED BY <1>2, <2>3, <3>1, <4>1
    <3>2. CASE k # n
      <4>1. k \in i + 1 .. n - 1 /\ k \in 1 .. N /\ k \notin {i + 1, n}
        BY <1>1, <1>2, <3>2
      <4> QED BY <1>2, <2>3, <4>1
    <3> QED BY <3>1, <3>2
  <2>7. i + 1 \in 0 .. n /\ i + 1 + 1 = i + 2
    BY <1>1, <1>2
  <2>8. G.s = b /\ G.i = i + 1 /\ G \in [s : [1 .. N -> E], i : 0 .. n]
    BY <2>1, <2>3, <2>7
  <2>9. ToSet(G.s) = ToSet(s) /\ G.s[N] = s[N]
    BY <1>2, <2>3, <2>4, <2>8
  <2>10. \A k \in 1 .. G.i : G.s[k].key <= pivot
    BY <2>5, <2>8
  <2>11. \A k \in G.i + 1 .. n : G.s[k].key > pivot
    BY <2>6, <2>7, <2>8
  <2> QED BY <2>8, <2>9, <2>10, <2>11 DEF Partly, N, pivot, G
<1> QED BY <1>4, <1>6, <1>7

LEMMA GatheredPartly ==
  ASSUME NEW E, Keyed(E), NEW s \in Seq(E), Len(s) > 1
  PROVE  Gathered(s) \in Partly(E, s, Len(s) - 1)
<1> DEFINE N == Len(s) - 1
           Turn(st, n) == Gather(st, n - 1)
           init == [s |-> s, i |-> 0]
           B(m, n) == IF n = 0 THEN init ELSE Turn(m[n - 1], n)
           A(m) == [n \in 0 .. N |-> B(m, n)]
           left == CHOOSE m : m = A(m)
           S == [n \in 0 .. N |-> Partly(E, s, n)]
           step == [n \in 1 .. N |-> [st \in S[n - 1] |-> Turn(st, n)]]
<1>1. N \in Nat /\ Len(s) \in Nat /\ s \in [1 .. Len(s) -> E]
  BY LenProperties
<1>2. Gathered(s) = left[N]
  BY DEF Gathered
<1>3. \A n \in 1 .. N : \A st \in Partly(E, s, n - 1) : Turn(st, n) \in Partly(E, s, n)
  BY GatherPartly
<1>4. init \in Partly(E, s, 0)
  BY <1>1 DEF Partly
<1> HIDE DEF Turn, init, N
<1>5. \A n \in 0 .. N : S[n] = Partly(E, s, n)
  OBVIOUS
<1> HIDE DEF S
<1>6. Stage(S, step, N, init)
  <2>1. init \in S[0]
    BY <1>1, <1>4, <1>5
  <2>2. ASSUME NEW n \in 1 .. N PROVE step[n] \in [S[n - 1] -> S[n]]
    <3>1. n \in 0 .. N /\ n - 1 \in 0 .. N
      BY <1>1
    <3> QED BY <1>3, <1>5, <3>1
  <2> QED BY <2>1, <2>2 DEF Stage
<1>7. \A n \in 1 .. N : \A st \in S[n - 1] : step[n][st] = Turn(st, n)
  OBVIOUS
<1> HIDE DEF step
<1>8. PICK g : /\ g = [n \in 0 .. N |-> g[n]] /\ g[0] = init
               /\ \A n \in 1 .. N : g[n - 1] \in S[n - 1] /\ g[n] = step[n][g[n - 1]]
  BY <1>1, <1>6, Stages
<1>9. g = A(g)
  <2>1. \A n \in 0 .. N : g[n] = B(g, n)
    <3> SUFFICES ASSUME NEW n \in 0 .. N, n # 0 PROVE g[n] = Turn(g[n - 1], n)
      BY <1>8
    <3>1. n \in 1 .. N
      BY <1>1
    <3> QED BY <1>7, <1>8, <3>1
  <2> HIDE DEF B
  <2> QED BY <1>8, <2>1
<1>10. left = A(left)
  <2> HIDE DEF A
  <2> QED BY <1>9
<1> HIDE DEF left
<1>11. \A n \in 0 .. N : left[n] = B(left, n)
  <2> HIDE DEF B
  <2> QED BY <1>10
<1>12. left[0] = init /\ \A n \in 1 .. N : left[n - 1] \in S[n - 1] => left[n] = step[n][left[n - 1]]
  <2>1. 0 \in 0 .. N /\ \A n \in 1 .. N : n \in 0 .. N /\ n # 0
    BY <1>1
  <2> QED BY <1>7, <1>11, <2>1
<1>13. left[N] \in S[N]
  <2>1. N \in 0 .. N
    BY <1>1
  <2> QED BY <1>1, <1>6, <1>12, <2>1, StagesHold
<1> QED BY <1>1, <1>2, <1>5, <1>13 DEF N

\* What partition makes of s.
Splits(E, s, t, i) ==
  /\ t \in Row(Len(s), E) /\ ToSet(t) = ToSet(s) /\ i \in 0 .. Len(s) - 1
  /\ \A k \in 1 .. i : t[k].key <= t[i + 1].key
  /\ \A k \in i + 2 .. Len(s) : t[i + 1].key <= t[k].key

LEMMA PartitionSplits ==
  ASSUME NEW E, Keyed(E), NEW s \in Seq(E), Len(s) > 1
  PROVE  Splits(E, s, Partition(s).s, Partition(s).i)
<1> DEFINE N == Len(s)
           end == Gathered(s)
           a == end.s
           i == end.i
           j == N - 1
           t == Swap(a, i, j)
           pivot == s[Len(s)].key
<1>1. N \in Nat /\ N > 1 /\ s[N] \in E /\ pivot \in Int
  BY LenProperties, ElementOfSeq DEF Keyed
<1>2. end \in Partly(E, s, N - 1)
  BY GatheredPartly
<1>3. /\ a \in Row(N, E) /\ i \in 0 .. N - 1 /\ ToSet(a) = ToSet(s) /\ a[N] = s[N]
      /\ \A k \in 1 .. i : a[k].key <= pivot
      /\ \A k \in i + 1 .. N - 1 : a[k].key > pivot
  BY <1>2 DEF Partly, Row
<1>4. Partition(s).s = t /\ Partition(s).i = i
  BY DEF Partition
<1>5. j \in 0 .. N - 1 /\ j + 1 = N
  BY <1>1
<1> HIDE DEF N, end, a, i, j, pivot
<1>6. /\ t \in Row(N, E) /\ ToSet(t) = ToSet(a) /\ t[i + 1] = a[N] /\ t[N] = a[i + 1]
      /\ \A k \in 1 .. N : k \notin {i + 1, N} => t[k] = a[k]
  <2>1. /\ t \in Row(N, E) /\ ToSet(t) = ToSet(a) /\ t[i + 1] = a[j + 1] /\ t[j + 1] = a[i + 1]
        /\ \A k \in 1 .. N : k \notin {i + 1, j + 1} => t[k] = a[k]
    BY <1>1, <1>3, <1>5, Swapped
  <2> QED BY <1>5, <2>1
<1> HIDE DEF t
<1>7. t[i + 1].key = pivot
  BY <1>3, <1>6 DEF pivot, N
<1>8. \A k \in 1 .. i : t[k].key <= pivot
  <2> TAKE k \in 1 .. i
  <2>1. k \in 1 .. N /\ k \notin {i + 1, N}
    BY <1>1, <1>3
  <2> QED BY <1>3, <1>6, <2>1
<1>9. \A k \in i + 2 .. N : pivot <= t[k].key
  <2> TAKE k \in i + 2 .. N
  <2> DEFINE l == IF k = N THEN i + 1 ELSE k
  <2>1. l \in i + 1 .. N - 1 /\ l \in 1 .. N /\ t[k] = a[l]
    BY <1>1, <1>3, <1>6
  <2> HIDE DEF l
  <2>2. a[l].key > pivot /\ a[l].key \in Int
    BY <1>3, <2>1 DEF Row, Keyed
  <2> QED BY <1>1, <2>1, <2>2
<1>10. ToSet(t) = ToSet(s)
  BY <1>3, <1>6
<1> QED BY <1>3, <1>4, <1>6, <1>7, <1>8, <1>9, <1>10 DEF Splits, N

\* A function on sequences may be defined by what it is on shorter ones.
Descends(Q, M, F) ==
  /\ M = [Q -> Q] /\ \A t \in Q : Len(t) \in Nat
  /\ \A t \in Q, g \in M : F[t][g] \in Q
  /\ \A t \in Q : \A g, h \in M :
       (\A u \in Q : Len(u) < Len(t) => g[u] = h[u]) => F[t][g] = F[t][h]

LEMMA SeqRecursion ==
  ASSUME NEW Q, NEW M, NEW F, Descends(Q, M, F)
  PROVE  \E g \in M : \A t \in Q : g[t] = F[t][g]
<1> DEFINE Same(t, g, h) == \A u \in Q : Len(u) < Len(t) => g[u] = h[u]
           Good(n, g) == \A t \in Q : Len(t) < n => g[t] = F[t][g]
           I == {n \in Nat : \E g \in M : Good(n, g)}
<1>1. (\A t \in Q : Len(t) \in Nat) /\ \A t \in Q, g \in M : F[t][g] \in Q
  BY DEF Descends
<1>2. M = [Q -> Q]
  BY DEF Descends
<1>3. \A t \in Q, g \in M, h \in M : Same(t, g, h) => F[t][g] = F[t][h]
  BY Zenon DEF Descends
<1>4. 0 \in I
  <2> DEFINE g == [t \in Q |-> t]
  <2>1. g \in M /\ Good(0, g)
    BY <1>1, <1>2
  <2> HIDE DEF g
  <2> QED BY <2>1
<1>5. ASSUME NEW n \in Nat, n \in I PROVE n + 1 \in I
  <2>1. PICK g \in M : Good(n, g)
    BY <1>5
  <2> DEFINE h == [t \in Q |-> F[t][g]]
  <2>2. h \in M /\ \A t \in Q : h[t] = F[t][g]
    BY <1>1, <1>2, <2>1
  <2> HIDE DEF h
  <2>3. ASSUME NEW t \in Q, Len(t) < n + 1 PROVE h[t] = F[t][h]
    <3>1. Same(t, g, h)
      <4> SUFFICES ASSUME NEW u \in Q, Len(u) < Len(t) PROVE g[u] = h[u]
        OBVIOUS
      <4>1. Len(u) < n
        BY <1>1, <2>3
      <4> QED BY <2>1, <2>2, <4>1
    <3> HIDE DEF Same
    <3>2. F[t][g] = F[t][h]
      BY ONLY t \in Q, g \in M, <1>3, <2>2, <3>1
    <3> QED BY <2>2, <3>2
  <2>4. Good(n + 1, h)
    BY <2>3
  <2> HIDE DEF Good
  <2> QED BY <2>2, <2>4
<1>6. \A n \in Nat : \E g \in M : Good(n, g)
  <2> HIDE DEF I
  <2>1. Nat \subseteq I
    BY <1>4, <1>5, SetInduction
  <2> QED BY <2>1 DEF I
<1> DEFINE G(n) == CHOOSE g \in M : Good(n, g)
<1>7. \A n \in Nat : G(n) \in M /\ Good(n, G(n))
  <2> HIDE DEF Good
  <2> QED BY <1>6
<1> HIDE DEF G
<1>8. ASSUME NEW m \in Nat, NEW n \in Nat PROVE \A t \in Q : Len(t) < m /\ Len(t) < n => G(m)[t] = G(n)[t]
  <2> DEFINE K == {k \in Nat : \A t \in Q : Len(t) < k /\ Len(t) < m /\ Len(t) < n => G(m)[t] = G(n)[t]}
  <2>1. 0 \in K
    BY <1>1
  <2>2. ASSUME NEW k \in Nat, k \in K PROVE k + 1 \in K
    <3> SUFFICES ASSUME NEW t \in Q, Len(t) < k + 1, Len(t) < m, Len(t) < n PROVE G(m)[t] = G(n)[t]
      OBVIOUS
    <3>1. Same(t, G(m), G(n))
      <4> SUFFICES ASSUME NEW u \in Q, Len(u) < Len(t) PROVE G(m)[u] = G(n)[u]
        OBVIOUS
      <4>1. Len(u) < k /\ Len(u) < m /\ Len(u) < n
        BY <1>1
      <4> QED BY <2>2, <4>1
    <3>2. G(m)[t] = F[t][G(m)] /\ G(n)[t] = F[t][G(n)]
      BY <1>7
    <3> HIDE DEF Same
    <3>3. F[t][G(m)] = F[t][G(n)]
      BY ONLY t \in Q, m \in Nat, n \in Nat, <1>7, <1>3, <3>1
    <3> QED BY <3>2, <3>3
  <2> HIDE DEF K
  <2>3. Nat \subseteq K
    BY <2>1, <2>2, SetInduction
  <2> QED
    <3> SUFFICES ASSUME NEW t \in Q, Len(t) < m, Len(t) < n PROVE G(m)[t] = G(n)[t]
      OBVIOUS
    <3>1. Len(t) + 1 \in K /\ Len(t) < Len(t) + 1
      BY <1>1, <2>3
    <3> QED BY <3>1 DEF K
<1> DEFINE g == [t \in Q |-> G(Len(t) + 1)[t]]
<1>9. \A t \in Q : Len(t) + 1 \in Nat /\ Len(t) < Len(t) + 1
  BY <1>1
<1>10. g \in M /\ \A t \in Q : g[t] = G(Len(t) + 1)[t]
  BY <1>7, <1>9, <1>2
<1> HIDE DEF g
<1>11. ASSUME NEW t \in Q PROVE g[t] = F[t][g]
  <2> DEFINE n == Len(t) + 1
  <2>1. n \in Nat /\ Len(t) < n
    BY <1>9
  <2> HIDE DEF n
  <2>2. g[t] = G(n)[t] /\ G(n)[t] = F[t][G(n)]
    BY <1>7, <1>10, <2>1 DEF n
  <2>3. Same(t, G(n), g)
    <3> SUFFICES ASSUME NEW u \in Q, Len(u) < Len(t) PROVE G(n)[u] = g[u]
      OBVIOUS
    <3> DEFINE m == Len(u) + 1
    <3>1. m \in Nat /\ Len(u) < m /\ Len(u) < n
      BY <1>1, <2>1
    <3> HIDE DEF m
    <3>2. G(m)[u] = G(n)[u]
      BY <1>8, <2>1, <3>1
    <3> QED BY <1>10, <3>2 DEF m
  <2> HIDE DEF Same
  <2>4. F[t][G(n)] = F[t][g]
    BY ONLY t \in Q, <1>7, <1>10, <1>3, <2>1, <2>3
  <2> QED BY <2>2, <2>4
<1> QED BY <1>10, <1>11

\* The two parts that qsort sorts and the element between them.
Joined(a, x, b) == a \o <<x>> \o b
LeftPart(t, i) == SubSeq(t, 1, i)
RightPart(t, i) == SubSeq(t, i + 2, Len(t))

Joins(E, a, x, b, j) ==
  /\ j \in Seq(E) /\ Len(j) = Len(a) + 1 + Len(b)
  /\ \A k \in 1 .. Len(a) : j[k] = a[k]
  /\ \A k \in Nat : k = Len(a) + 1 => j[k] = x
  /\ \A k \in 1 .. Len(b), m \in Nat : m = Len(a) + 1 + k => j[m] = b[k]

LEMMA JoinedIs ==
  ASSUME NEW E, NEW a \in Seq(E), NEW b \in Seq(E), NEW x \in E
  PROVE  Joins(E, a, x, b, Joined(a, x, b))
<1>1. Len(a) \in Nat /\ Len(b) \in Nat
  BY LenProperties
<1> QED BY <1>1 DEF Joined, Joins

LEMMA JoinedSet ==
  ASSUME NEW E, NEW a \in Seq(E), NEW b \in Seq(E), NEW x \in E
  PROVE  ToSet(Joined(a, x, b)) = ToSet(a) \cup {x} \cup ToSet(b)
<1> DEFINE j == Joined(a, x, b)
<1> HIDE DEF j
<1>1. /\ j \in Seq(E) /\ Len(j) = Len(a) + 1 + Len(b)
      /\ \A k \in 1 .. Len(a) : j[k] = a[k]
      /\ \A k \in Nat : k = Len(a) + 1 => j[k] = x
      /\ \A k \in 1 .. Len(b), m \in Nat : m = Len(a) + 1 + k => j[m] = b[k]
  <2>1. Joins(E, a, x, b, j)
    BY JoinedIs DEF j
  <2> QED BY <2>1 DEF Joins
<1>2. /\ Len(a) \in Nat /\ Len(b) \in Nat /\ DOMAIN a = 1 .. Len(a) /\ DOMAIN b = 1 .. Len(b)
      /\ DOMAIN j = 1 .. Len(a) + 1 + Len(b)
  BY <1>1, LenProperties
<1>3. ASSUME NEW y \in ToSet(j) PROVE y \in ToSet(a) \cup {x} \cup ToSet(b)
  <2>1. PICK k \in 1 .. Len(a) + 1 + Len(b) : y = j[k]
    BY <1>2 DEF ToSet
  <2>2. CASE k \in 1 .. Len(a)
    BY <1>1, <1>2, <2>1, <2>2 DEF ToSet
  <2>3. CASE k = Len(a) + 1
    BY <1>1, <2>1, <2>3
  <2>4. CASE k > Len(a) + 1
    <3> DEFINE l == k - Len(a) - 1
    <3>1. l \in 1 .. Len(b) /\ k = Len(a) + 1 + l
      BY <1>2, <2>1, <2>4
    <3>2. k \in Nat
      BY <1>2, <2>1
    <3> HIDE DEF l
    <3>3. y = b[l] /\ l \in DOMAIN b
      BY <1>1, <1>2, <2>1, <3>1, <3>2
    <3> QED BY ONLY <3>3 DEF ToSet
  <2> QED BY <1>2, <2>1, <2>2, <2>3, <2>4
<1>4. ASSUME NEW y \in ToSet(a) PROVE y \in ToSet(j)
  <2>1. PICK k \in 1 .. Len(a) : y = a[k]
    BY <1>2 DEF ToSet
  <2>2. k \in DOMAIN j
    BY <1>2
  <2> QED BY <1>1, <2>1, <2>2 DEF ToSet
<1>5. ASSUME NEW y \in ToSet(b) PROVE y \in ToSet(j)
  <2>1. PICK k \in 1 .. Len(b) : y = b[k]
    BY <1>2 DEF ToSet
  <2> DEFINE l == Len(a) + 1 + k
  <2>2. l \in DOMAIN j
    BY <1>2
  <2>3. y = j[l]
    BY <1>1, <2>1
  <2> HIDE DEF l
  <2> QED BY <2>2, <2>3 DEF ToSet
<1>6. x \in ToSet(j)
  <2>1. Len(a) + 1 \in DOMAIN j
    BY <1>2
  <2> QED BY <1>1, <2>1 DEF ToSet
<1> QED BY <1>3, <1>4, <1>5, <1>6 DEF j

LEMMA Parted ==
  ASSUME NEW E, NEW t \in Seq(E), NEW i \in 0 .. Len(t) - 1
  PROVE  /\ LeftPart(t, i) \in Seq(E) /\ Len(LeftPart(t, i)) = i
         /\ RightPart(t, i) \in Seq(E) /\ Len(RightPart(t, i)) = Len(t) - i - 1
         /\ \A k \in 1 .. i : LeftPart(t, i)[k] = t[k]
         /\ \A k \in 1 .. Len(t) - i - 1 : RightPart(t, i)[k] = t[i + 1 + k]
         /\ t = Joined(LeftPart(t, i), t[i + 1], RightPart(t, i))
<1> DEFINE a == LeftPart(t, i)
           b == RightPart(t, i)
           N == Len(t)
<1>1. N \in Nat /\ i \in Nat /\ i < N /\ t[i + 1] \in E /\ \A k \in 1 .. N : t[k] \in E
  BY LenProperties, ElementOfSeq
<1>2. a \in Seq(E) /\ Len(a) = i /\ \A k \in 1 .. i : a[k] = t[k]
  <2>1. \A k \in 1 .. i : t[k] \in E
    BY <1>1
  <2>2. /\ SubSeq(t, 1, i) \in Seq(E)
        /\ Len(SubSeq(t, 1, i)) = IF 1 <= i THEN i - 1 + 1 ELSE 0
        /\ \A k \in 1 .. i - 1 + 1 : SubSeq(t, 1, i)[k] = t[1 + k - 1]
    BY <1>1, <2>1, SubSeqProperties
  <2> QED BY <1>1, <2>2 DEF LeftPart
<1>3. b \in Seq(E) /\ Len(b) = N - i - 1 /\ \A k \in 1 .. N - i - 1 : b[k] = t[i + 1 + k]
  <2> DEFINE m == i + 2
  <2>1. m \in Int /\ \A k \in m .. N : t[k] \in E
    BY <1>1
  <2> HIDE DEF m
  <2>2. /\ SubSeq(t, m, N) \in Seq(E)
        /\ Len(SubSeq(t, m, N)) = IF m <= N THEN N - m + 1 ELSE 0
        /\ \A k \in 1 .. N - m + 1 : SubSeq(t, m, N)[k] = t[m + k - 1]
    BY <1>1, <2>1, SubSeqProperties
  <2> QED BY <1>1, <2>2 DEF RightPart, m
<1> DEFINE x == t[i + 1]
           j == Joined(a, x, b)
<1>4. x \in E
  BY <1>1
<1> HIDE DEF a, b, N, x, j
<1>5. /\ j \in Seq(E) /\ Len(j) = Len(a) + 1 + Len(b)
      /\ \A k \in 1 .. Len(a) : j[k] = a[k]
      /\ \A k \in Nat : k = Len(a) + 1 => j[k] = x
      /\ \A k \in 1 .. Len(b), m \in Nat : m = Len(a) + 1 + k => j[m] = b[k]
  <2>1. Joins(E, a, x, b, j)
    BY <1>2, <1>3, <1>4, JoinedIs DEF j
  <2> QED BY <2>1 DEF Joins
<1>6. Len(j) = N
  BY <1>1, <1>2, <1>3, <1>5
<1>7. \A k \in 1 .. N : t[k] = j[k]
  <2> TAKE k \in 1 .. N
  <2>1. CASE k \in 1 .. i
    BY <1>2, <1>5, <2>1
  <2>2. CASE k = i + 1
    BY <1>1, <1>2, <1>5, <2>2 DEF x
  <2>3. CASE k > i + 1
    <3> DEFINE l == k - i - 1
    <3>1. l \in 1 .. N - i - 1 /\ k = i + 1 + l
      BY <1>1, <2>3
    <3> HIDE DEF l
    <3>2. t[k] = b[l] /\ j[k] = b[l]
      BY <1>2, <1>3, <1>5, <3>1
    <3> QED BY <3>2
  <2> QED BY <1>1, <2>1, <2>2, <2>3
<1>8. t = j
  BY <1>5, <1>6, <1>7, SeqEqual DEF N
<1> QED BY <1>2, <1>3, <1>8 DEF a, b, N, j, x

\* u has the elements of t in order.
Ordered(u) == \A k, l \in 1 .. Len(u) : k < l => u[k].key <= u[l].key
Sorts(E, t, u) == u \in Seq(E) /\ Len(u) = Len(t) /\ ToSet(u) = ToSet(t) /\ Ordered(u)

\* Elements of a sequence and members of its set.
LEMMA Members ==
  ASSUME NEW E, NEW s \in Seq(E)
  PROVE  /\ \A k \in 1 .. Len(s) : s[k] \in ToSet(s) /\ s[k] \in E
         /\ \A x \in ToSet(s) : x \in E /\ \E k \in 1 .. Len(s) : x = s[k]
         /\ s \in Seq(ToSet(s))
<1>1. DOMAIN s = 1 .. Len(s) /\ Len(s) \in Nat /\ s \in [1 .. Len(s) -> E]
  BY LenProperties
<1>2. \A k \in 1 .. Len(s) : s[k] \in ToSet(s)
  BY <1>1 DEF ToSet
<1>3. s \in Seq(ToSet(s))
  BY <1>1, <1>2
<1> QED BY <1>1, <1>2, <1>3 DEF ToSet

LEMMA Member ==
  ASSUME NEW E, NEW s \in Seq(E), NEW x \in ToSet(s)
  PROVE  x \in E /\ \E k \in 1 .. Len(s) : x = s[k]
BY Members

\* Two sorted parts with an element in between that bounds both.
LEMMA JoinedSorts ==
  ASSUME NEW E, Keyed(E), NEW s \in Seq(E), NEW t \in Seq(E), NEW i \in 0 .. Len(s) - 1,
         Splits(E, s, t, i), Len(t) = Len(s),
         NEW a, Sorts(E, LeftPart(t, i), a), NEW b, Sorts(E, RightPart(t, i), b)
  PROVE  Sorts(E, s, Joined(a, t[i + 1], b))
<1> DEFINE x == t[i + 1]
           f == LeftPart(t, i)
           g == RightPart(t, i)
           j == Joined(a, x, b)
<1>1. Len(t) \in Nat /\ x \in E /\ x.key \in Int /\ i \in Nat
  BY LenProperties, ElementOfSeq DEF Keyed
<1>2. a \in Seq(E) /\ Len(a) = Len(f) /\ ToSet(a) = ToSet(f) /\ Ordered(a)
  BY DEF Sorts
<1>3. b \in Seq(E) /\ Len(b) = Len(g) /\ ToSet(b) = ToSet(g) /\ Ordered(b)
  BY DEF Sorts
<1>4. /\ f \in Seq(E) /\ Len(f) = i /\ g \in Seq(E) /\ Len(g) = Len(t) - i - 1
      /\ \A k \in 1 .. i : f[k] = t[k]
      /\ \A k \in 1 .. Len(t) - i - 1 : g[k] = t[i + 1 + k]
      /\ t = Joined(f, x, g)
  BY Parted
<1> HIDE DEF f, g, x
<1>5. /\ j \in Seq(E) /\ Len(j) = Len(a) + 1 + Len(b)
      /\ \A k \in 1 .. Len(a) : j[k] = a[k]
      /\ \A k \in Nat : k = Len(a) + 1 => j[k] = x
      /\ \A k \in 1 .. Len(b), m \in Nat : m = Len(a) + 1 + k => j[m] = b[k]
  <2>1. Joins(E, a, x, b, j)
    BY <1>1, <1>2, <1>3, JoinedIs
  <2> HIDE DEF j
  <2> QED BY <2>1 DEF Joins
<1>6. ToSet(j) = ToSet(a) \cup {x} \cup ToSet(b)
  BY <1>1, <1>2, <1>3, JoinedSet
<1>7. ToSet(t) = ToSet(f) \cup {x} \cup ToSet(g)
  BY <1>1, <1>4, JoinedSet
<1> HIDE DEF j
<1>8. Len(j) = Len(s) /\ ToSet(j) = ToSet(s)
  BY <1>1, <1>2, <1>3, <1>4, <1>5, <1>6, <1>7 DEF Splits
<1>9. \A y \in ToSet(f) : y.key <= x.key /\ y.key \in Int
  <2> TAKE y \in ToSet(f)
  <2>1. PICK k \in 1 .. i : y = t[k]
    <3>1. \E k \in 1 .. Len(f) : y = f[k]
      BY <1>4, Member
    <3> QED BY <1>4, <3>1
  <2>2. y \in E
    BY <1>4, Members
  <2> QED BY <2>1, <2>2 DEF Splits, Keyed, x
<1>10. \A y \in ToSet(g) : x.key <= y.key /\ y.key \in Int
  <2> TAKE y \in ToSet(g)
  <2>1. PICK k \in 1 .. Len(t) - i - 1 : y = t[i + 1 + k]
    <3>1. \E k \in 1 .. Len(g) : y = g[k]
      BY <1>4, Member
    <3> QED BY <1>4, <3>1
  <2> DEFINE l == i + 1 + k
  <2>2. l \in i + 2 .. Len(s)
    BY <1>1
  <2>3. y = t[l]
    BY <2>1
  <2> HIDE DEF l
  <2>4. y \in E
    BY <1>4, Members
  <2> QED BY <2>2, <2>3, <2>4 DEF Splits, Keyed, x
<1>11. Ordered(j)
  <2> SUFFICES ASSUME NEW k \in 1 .. Len(j), NEW l \in 1 .. Len(j), k < l
               PROVE  j[k].key <= j[l].key
    BY DEF Ordered
  <2> DEFINE A == Len(a)
             B == Len(b)
  <2>1. A \in Nat /\ B \in Nat /\ Len(j) = A + 1 + B
    BY <1>2, <1>3, <1>5, LenProperties
  <2>2. \A n \in 1 .. A : j[n] = a[n] /\ j[n].key <= x.key /\ j[n].key \in Int
    <3> TAKE n \in 1 .. A
    <3>1. a[n] \in ToSet(f)
      BY <1>2, Members
    <3> QED BY <1>5, <1>9, <3>1
  <2>3. \A n \in 1 .. B, m \in Nat : m = A + 1 + n => j[m] = b[n] /\ x.key <= b[n].key /\ b[n].key \in Int
    <3> TAKE n \in 1 .. B, m \in Nat
    <3>1. b[n] \in ToSet(g)
      BY <1>3, Members
    <3> QED BY <1>5, <1>10, <3>1
  <2>4. j[A + 1] = x
    BY <1>5, <2>1
  <2> HIDE DEF A, B
  <2>5. CASE l \in 1 .. A
    <3>1. k \in 1 .. A
      BY <2>1, <2>5
    <3>2. a[k].key <= a[l].key
      BY <1>2, <2>5, <3>1 DEF Ordered, A
    <3> QED BY <2>2, <2>5, <3>1, <3>2
  <2>6. CASE l = A + 1
    <3>1. k \in 1 .. A
      BY <2>1, <2>6
    <3> QED BY <2>2, <2>4, <2>6, <3>1
  <2>7. CASE l > A + 1
    <3> DEFINE m == l - A - 1
    <3>1. m \in 1 .. B /\ l = A + 1 + m
      BY <2>1, <2>7
    <3> HIDE DEF m
    <3>2. j[l] = b[m] /\ x.key <= b[m].key /\ b[m].key \in Int
      BY <2>3, <3>1
    <3>3. CASE k \in 1 .. A
      BY <1>1, <2>2, <3>2, <3>3
    <3>4. CASE k = A + 1
      BY <2>4, <3>2, <3>4
    <3>5. CASE k > A + 1
      <4> DEFINE n == k - A - 1
      <4>1. n \in 1 .. B /\ k = A + 1 + n
        BY <2>1, <3>5
      <4>2. n < m
        BY <2>1, <3>1
      <4> HIDE DEF n
      <4>3. b[n].key <= b[m].key
        BY <1>3, <3>1, <4>1, <4>2 DEF Ordered, B
      <4> QED BY <2>3, <3>2, <4>1, <4>3
    <3> QED BY <2>1, <3>3, <3>4, <3>5
  <2> QED BY <2>1, <2>5, <2>6, <2>7
<1> QED BY <1>5, <1>8, <1>11 DEF Sorts, j, x

LEMMA QsortSorts ==
  ASSUME NEW E, Keyed(E), NEW s \in Seq(E)
  PROVE  Sorts(ToSet(s), s, Qsort(s))
<1> DEFINE D == ToSet(s)
           Q == Seq(D)
           M == [Q -> Q]
           parts(t) == Partition(t).s
           at(t) == Partition(t).i
           left(t) == LeftPart(parts(t), at(t))
           right(t) == SubSeq(parts(t), at(t) + 2, Len(t))
           mid(t) == parts(t)[at(t) + 1]
           Rejoin(f, t) == Joined(f[left(t)], mid(t), f[right(t)])
           B(f, t) == IF Len(t) <= 1 THEN t ELSE Rejoin(f, t)
           A(f) == [t \in Q |-> B(f, t)]
           sorted == CHOOSE f : f = A(f)
           F == [t \in Q |-> [f \in M |-> B(f, t)]]
<1>1. Keyed(D) /\ s \in Q
  BY Members DEF Keyed
<1>2. Qsort(s) = sorted[s]
  BY DEF Qsort, Joined, LeftPart
<1>3. \A t \in Q : Len(t) \in Nat
  BY LenProperties
<1>4. ASSUME NEW t \in Q, Len(t) > 1
      PROVE  /\ Splits(D, t, parts(t), at(t)) /\ parts(t) \in Q /\ Len(parts(t)) = Len(t)
             /\ left(t) \in Q /\ Len(left(t)) < Len(t)
             /\ right(t) \in Q /\ Len(right(t)) < Len(t) /\ right(t) = RightPart(parts(t), at(t))
             /\ mid(t) \in D
  <2>1. Splits(D, t, parts(t), at(t))
    BY <1>1, <1>4, PartitionSplits
  <2> DEFINE p == parts(t)
             i == at(t)
             N == Len(t)
  <2> HIDE DEF parts, at
  <2>2. N \in Nat
    BY <1>3
  <2>3. p \in [1 .. N -> D] /\ i \in 0 .. N - 1
    BY <2>1 DEF Splits, Row
  <2> HIDE DEF N
  <2>4. p \in Q /\ Len(p) = N
    BY <2>2, <2>3
  <2> HIDE DEF D, Q, p, i
  <2>5. /\ LeftPart(p, i) \in Seq(D) /\ Len(LeftPart(p, i)) = i
        /\ RightPart(p, i) \in Seq(D) /\ Len(RightPart(p, i)) = Len(p) - i - 1
    BY <2>3, <2>4, Parted DEF Q
  <2>6. right(t) = RightPart(p, i)
    BY <2>4 DEF RightPart, p, i, N
  <2>7. mid(t) \in D
    <3>1. i + 1 \in 1 .. N
      BY <2>2, <2>3
    <3> QED BY <2>3, <3>1 DEF p, i
  <2>8. i < N /\ N - i - 1 < N
    BY <2>2, <2>3
  <2> HIDE DEF right, mid
  <2> QED BY <2>1, <2>4, <2>5, <2>6, <2>7, <2>8 DEF Q, p, i, N
<1> HIDE DEF D, Q, left, right, mid, parts, at
<1>5. \A t \in Q, f \in M : B(f, t) \in Q
  <2> SUFFICES ASSUME NEW t \in Q, NEW f \in M, Len(t) > 1 PROVE Rejoin(f, t) \in Q
    BY <1>3
  <2>1. f[left(t)] \in Seq(D) /\ f[right(t)] \in Seq(D) /\ mid(t) \in D
    BY <1>4 DEF Q
  <2>2. Joins(D, f[left(t)], mid(t), f[right(t)], Rejoin(f, t))
    BY <2>1, JoinedIs
  <2> HIDE DEF Rejoin
  <2> QED BY <2>2 DEF Joins, Q
<1> HIDE DEF Rejoin
<1>6. F \in [Q -> [M -> Q]] /\ \A t \in Q, f \in M : F[t][f] = B(f, t)
  BY <1>5
<1> HIDE DEF F
<1>7. ASSUME NEW t \in Q, NEW g \in M, NEW h \in M, \A u \in Q : Len(u) < Len(t) => g[u] = h[u]
      PROVE  F[t][g] = F[t][h]
  <2>1. CASE Len(t) <= 1
    <3>1. B(g, t) = t /\ B(h, t) = t
      BY <2>1
    <3> HIDE DEF B, M
    <3> QED BY <1>6, <3>1
  <2>2. CASE Len(t) > 1
    <3>1. g[left(t)] = h[left(t)] /\ g[right(t)] = h[right(t)]
      BY <1>4, <1>7, <2>2
    <3>2. Rejoin(g, t) = Rejoin(h, t)
      BY <3>1 DEF Rejoin
    <3> QED BY <1>3, <1>6, <2>2, <3>2
  <2> QED BY <1>3, <2>1, <2>2
<1>8. PICK g \in M : \A t \in Q : g[t] = F[t][g]
  <2>1. \A t \in Q : \A g, h \in M : (\A u \in Q : Len(u) < Len(t) => g[u] = h[u]) => F[t][g] = F[t][h]
    BY <1>7
  <2>2. Descends(Q, M, F)
    BY <1>3, <1>6, <2>1 DEF Descends
  <2> HIDE DEF M
  <2> QED BY <2>2, SeqRecursion
<1>9. g = A(g)
  <2>1. \A t \in Q : g[t] = B(g, t)
    BY <1>6, <1>8
  <2> HIDE DEF B
  <2> QED BY <2>1
<1>10. sorted = A(sorted)
  <2> HIDE DEF A
  <2> QED BY <1>9
<1> HIDE DEF sorted
<1>11. \A t \in Q : sorted[t] = B(sorted, t)
  <2> HIDE DEF B
  <2> QED BY <1>10
<1> DEFINE I == {n \in Nat : \A t \in Q : Len(t) < n => Sorts(D, t, sorted[t])}
<1>12. 0 \in I
  BY <1>3
<1>13. ASSUME NEW n \in Nat, n \in I PROVE n + 1 \in I
  <2> SUFFICES ASSUME NEW t \in Q, Len(t) < n + 1 PROVE Sorts(D, t, sorted[t])
    OBVIOUS
  <2>1. CASE Len(t) <= 1
    <3>1. sorted[t] = t
      BY <1>11, <2>1
    <3>2. \A k, l \in 1 .. Len(t) : ~(k < l)
      BY <1>3, <2>1
    <3>3. Ordered(t)
      BY <3>2 DEF Ordered
    <3> QED BY <3>1, <3>3 DEF Sorts, Q
  <2>2. CASE Len(t) > 1
    <3> DEFINE p == parts(t)
               i == at(t)
    <3>1. /\ Splits(D, t, p, i) /\ p \in Q /\ Len(p) = Len(t)
          /\ left(t) \in Q /\ Len(left(t)) < Len(t)
          /\ right(t) \in Q /\ Len(right(t)) < Len(t) /\ right(t) = RightPart(p, i)
      BY <1>4, <2>2
    <3>2. Len(left(t)) < n /\ Len(right(t)) < n
      BY <1>3, <3>1
    <3>3. Sorts(D, LeftPart(p, i), sorted[left(t)]) /\ Sorts(D, RightPart(p, i), sorted[right(t)])
      <4>1. Sorts(D, left(t), sorted[left(t)]) /\ Sorts(D, right(t), sorted[right(t)])
        BY <1>13, <3>1, <3>2
      <4> QED BY <3>1, <4>1 DEF left
    <3>4. sorted[t] = Joined(sorted[left(t)], p[i + 1], sorted[right(t)])
      BY <1>3, <1>11, <2>2 DEF Rejoin, mid
    <3>5. i \in 0 .. Len(t) - 1
      BY <3>1 DEF Splits
    <3> HIDE DEF p, i
    <3>6. Sorts(D, t, Joined(sorted[left(t)], p[i + 1], sorted[right(t)]))
      BY <1>1, <3>1, <3>3, <3>5, JoinedSorts DEF Q
    <3> QED BY <3>4, <3>6
  <2> QED BY <1>3, <2>1, <2>2
<1>14. Nat \subseteq I
  <2> HIDE DEF I
  <2> QED BY <1>12, <1>13, SetInduction
<1> QED
  <2>1. Len(s) + 1 \in I /\ Len(s) < Len(s) + 1
    BY <1>1, <1>3, <1>14
  <2> QED BY <1>1, <1>2, <2>1 DEF D

\* What bsearch may answer for key in s.
SearchResult(key, s, found) ==
  \/ \E i \in 1 .. Len(s) : s[i].key = key /\ found = Element(i - 1)
  \/ found = NotThere /\ (\A i \in 1 .. Len(s) : s[i].key # key) /\ \E i \in 1 .. Len(s) : s[i].key < key
  \/ found = Wild /\ \A i \in 1 .. Len(s) : key < s[i].key

\* What holds of its bounds after n turns without an answer: the key is nowhere
\* outside of them, or right has wrapped around.
Between(key, s, n, left, right) ==
  \/ /\ left \in 0 .. right + 1 /\ right < Len(s) /\ right - left + 1 <= Len(s) - n
     /\ \A k \in 1 .. left : s[k].key < key
     /\ \A k \in right + 2 .. Len(s) : key < s[k].key
  \/ /\ left = 0 /\ right = Size - 1 /\ n <= Len(s)
     /\ \A k \in 1 .. Len(s) : key < s[k].key

Searches(key, s, n) ==
  {st \in [left : Nat, right : Nat, found : {Searching, NotThere, Wild} \cup {Element(k) : k \in Nat}] :
     IF st.found = Searching THEN Between(key, s, n, st.left, st.right)
     ELSE SearchResult(key, s, st.found)}

LEMMA Kinds ==
  /\ NotThere # Searching /\ Wild # Searching /\ NotThere # Wild
  /\ \A k : Element(k) # Searching /\ Element(k) # NotThere /\ Element(k) # Wild
<1>1. "searching" # "null" /\ "searching" # "wild" /\ "null" # "wild"
      /\ "element" # "searching" /\ "element" # "null" /\ "element" # "wild"
  BY Zenon
<1> DEFINE Kind(f) == f.kind
<1>2. /\ Kind(Searching) = "searching" /\ Kind(NotThere) = "null" /\ Kind(Wild) = "wild"
      /\ \A k : Kind(Element(k)) = "element"
  BY DEF Searching, NotThere, Wild, Element
<1> HIDE DEF Kind
<1> QED BY <1>1, <1>2

LEMMA BoundsAre ==
  ASSUME NEW key, NEW s, NEW n, NEW left \in Nat, NEW right \in Nat, NEW found
  PROVE  /\ found = Searching /\ Between(key, s, n, left, right)
              => Bounds(left, right, found) \in Searches(key, s, n)
         /\ found # Searching /\ SearchResult(key, s, found) /\ Len(s) \in Nat
              => Bounds(left, right, found) \in Searches(key, s, n)
<1> DEFINE F == {Searching, NotThere, Wild} \cup {Element(k) : k \in Nat}
           st == Bounds(left, right, found)
<1>1. ASSUME found \in F PROVE st \in [left : Nat, right : Nat, found : F]
  <2> HIDE DEF F
  <2> QED BY <1>1 DEF Bounds
<1>2. st.left = left /\ st.right = right /\ st.found = found
  BY DEF Bounds
<1>3. SearchResult(key, s, found) /\ Len(s) \in Nat => found \in F
  BY DEF SearchResult
<1>4. found = Searching => found \in F
  OBVIOUS
<1> HIDE DEF st, F
<1> QED BY <1>1, <1>2, <1>3, <1>4 DEF Searches, F, st

\* One turn leaves out an element at least.
LEMMA SearchTurn ==
  ASSUME NEW E, Keyed(E), NEW s \in Seq(E), Ordered(s), 2 * Len(s) < Size,
         NEW key \in Int, NEW n \in Nat, NEW m \in Nat, m = n + 1,
         NEW st \in Searches(key, s, n)
  PROVE  Search(key, s, st) \in Searches(key, s, m)
<1> DEFINE N == Len(s)
           left == st.left
           right == st.right
           q == (right - left) \div 2
           mid == left + q
           result == Compar(key, s[mid + 1].key)
<1>1. N \in Nat /\ Size \in Nat /\ 2 * N < Size
  BY LenProperties, SortAssumption
<1>2. left \in Nat /\ right \in Nat
  BY DEF Searches
<1>3. \A k \in 1 .. N : s[k].key \in Int
  BY ElementOfSeq DEF Keyed
<1>4. CASE st.found # Searching
  <2>1. Search(key, s, st) = st
    BY <1>4 DEF Search
  <2> QED BY <1>4, <2>1 DEF Searches
<1>5. CASE st.found = Searching
  <2>1. Between(key, s, n, left, right)
    BY <1>5 DEF Searches
  <2>2. CASE left > right
    <3>1. /\ left = right + 1 /\ right < N
          /\ \A k \in 1 .. left : s[k].key < key
          /\ \A k \in right + 2 .. N : key < s[k].key
      <4>1. ~(left = 0 /\ right = Size - 1)
        BY <1>1, <2>2
      <4>2. left \in 0 .. right + 1 /\ right < N
        BY <2>1, <4>1 DEF Between
      <4>3. left = right + 1
        BY ONLY left \in Nat /\ right \in Nat, <1>2, <2>2, <4>2
      <4> HIDE DEF left, right
      <4> QED BY <2>1, <4>1, <4>2, <4>3 DEF Between
    <3>2. \A k \in 1 .. N : s[k].key # key
      <4> TAKE k \in 1 .. N
      <4>1. k \in 1 .. left \/ k \in right + 2 .. N
        BY <1>1, <1>2, <3>1
      <4> QED BY <1>3, <3>1, <4>1
    <3>3. 1 \in 1 .. left /\ 1 \in 1 .. N
      BY <1>1, <1>2, <3>1
    <3>4. SearchResult(key, s, NotThere)
      BY <3>1, <3>2, <3>3 DEF SearchResult
    <3>5. Search(key, s, st) = Bounds(left, right, NotThere)
      BY <1>5, <2>2 DEF Search
    <3> QED BY <1>1, <1>2, <3>4, <3>5, BoundsAre, Kinds
  <2>3. CASE left <= right
    <3>1. q \in Int /\ 2 * q <= right - left /\ right - left <= 2 * q + 1
      <4> DEFINE d == right - left
                 r == d % 2
      <4>1. d \in Int
        BY <1>2
      <4> HIDE DEF d
      <4>2. q = d \div 2
        BY DEF d
      <4> HIDE DEF q
      <4>3. q \in Int /\ d = 2 * q + r /\ r \in 0 .. 1
        BY ONLY <4>1, <4>2
      <4> QED BY ONLY <4>1, <4>3, d = right - left DEF d
    <3> HIDE DEF q
    <3>2. mid \in left .. right
      BY <1>2, <2>3, <3>1
    <3>3. CASE mid >= N
      <4>1. \A k \in 1 .. N : key < s[k].key
        BY <1>1, <1>2, <2>1, <3>2, <3>3 DEF Between
      <4>2. SearchResult(key, s, Wild)
        BY <4>1 DEF SearchResult
      <4>3. Search(key, s, st) = Bounds(left, right, Wild)
        BY <1>5, <2>3, <3>3, <1>2 DEF Search, q
      <4> QED BY <1>1, <1>2, <4>2, <4>3, BoundsAre, Kinds
    <3>4. CASE mid < N
      <4>1. /\ right < N /\ right - left + 1 <= N - n
            /\ \A k \in 1 .. left : s[k].key < key
            /\ \A k \in right + 2 .. N : key < s[k].key
        <5>1. right # Size - 1 \/ left # 0
          BY <1>1, <1>2, <3>1, <3>4
        <5> QED BY <2>1, <5>1 DEF Between
      <4>2. mid + 1 \in 1 .. N /\ mid \in Nat
        BY <1>1, <1>2, <3>2, <3>4
      <4>3. s[mid + 1].key \in Int /\ result = key - s[mid + 1].key
        BY <1>3, <4>2 DEF Compar
      <4> DEFINE x == s[mid + 1].key
      <4>4. Search(key, s, st) = IF result = 0 THEN Bounds(left, right, Element(mid))
                                 ELSE IF result < 0 THEN Bounds(left, (mid - 1) % Size, Searching)
                                 ELSE Bounds(mid + 1, right, Searching)
        BY <1>2, <1>5, <2>3, <3>2, <3>4, <1>1 DEF Search, q
      <4>5. \A k \in 1 .. N : (k < mid + 1 => s[k].key <= x) /\ (mid + 1 < k => x <= s[k].key)
        <5> TAKE k \in 1 .. N
        <5> DEFINE l == mid + 1
        <5>1. l \in 1 .. Len(s)
          BY <4>2
        <5> HIDE DEF l, mid
        <5>2. (k < l => s[k].key <= s[l].key) /\ (l < k => s[l].key <= s[k].key)
          BY <5>1 DEF Ordered
        <5> QED BY <5>2 DEF l
      <4> HIDE DEF mid, result, x
      <4>6. CASE result = 0
        <5>1. x = key
          BY <4>3, <4>6 DEF x
        <5> DEFINE l == mid + 1
        <5>2. l \in 1 .. Len(s) /\ l - 1 = mid /\ s[l].key = key
          BY <4>2, <5>1 DEF x
        <5> HIDE DEF l
        <5>3. SearchResult(key, s, Element(mid))
          BY <5>2 DEF SearchResult
        <5>4. Search(key, s, st) = Bounds(left, right, Element(mid))
          BY <4>4, <4>6
        <5> QED BY <1>1, <1>2, <5>3, <5>4, BoundsAre, Kinds
      <4>7. CASE result < 0
        <5>1. key < x /\ x \in Int
          BY <4>3, <4>7 DEF x
        <5>2. Search(key, s, st) = Bounds(left, (mid - 1) % Size, Searching)
          BY <4>4, <4>7
        <5>3. \A k \in mid + 1 .. N : key < s[k].key
          <6> TAKE k \in mid + 1 .. N
          <6>1. k \in 1 .. N /\ (k = mid + 1 \/ mid + 1 < k)
            BY <1>1, <4>2
          <6> QED BY <1>3, <4>5, <5>1, <6>1 DEF x
        <5>4. CASE mid = 0
          <6>1. (mid - 1) % Size = Size - 1
            <7>1. Size \in Nat \ {0} /\ -1 \in Int /\ Size - 1 \in 0 .. Size - 1
              BY <1>1
            <7>2. (Size * (-1) + (Size - 1)) % Size = Size - 1
              BY <7>1, Division
            <7>3. Size * (-1) + (Size - 1) = mid - 1
              BY <1>1, <5>4
            <7> QED BY <7>2, <7>3
          <6>2. left = 0
            BY <1>2, <3>2, <5>4
          <6>3. m <= N
            BY <1>1, <1>2, <2>3, <4>1
          <6>4. \A k \in 1 .. N : key < s[k].key
            BY <5>3, <5>4
          <6>5. Between(key, s, m, left, Size - 1)
            BY <6>2, <6>3, <6>4 DEF Between
          <6>6. Size - 1 \in Nat
            BY <1>1
          <6> QED BY <1>2, <5>2, <6>1, <6>5, <6>6, BoundsAre
        <5>5. CASE mid > 0
          <6> DEFINE r == mid - 1
          <6>1. r \in Nat /\ r \in 0 .. Size - 1
            BY ONLY <1>1, mid < N, <3>4, <4>2, <5>5
          <6>2. left \in 0 .. r + 1 /\ r < N /\ r - left + 1 <= N - m
            <7>1. mid \in Nat /\ left <= mid /\ mid <= right
              BY ONLY <1>2, <3>2, <4>2
            <7>2. n \in Nat /\ m = n + 1 /\ right < N /\ right - left + 1 <= N - n
              BY <4>1
            <7> HIDE DEF left, right, N
            <7>3. r = mid - 1
              OBVIOUS
            <7> HIDE DEF r
            <7> QED BY ONLY <1>1, <1>2, <5>5, <7>1, <7>2, <7>3
          <6>3. \A k \in r + 2 .. N : key < s[k].key
            <7>1. r + 2 = mid + 1
              BY <4>2
            <7> HIDE DEF r
            <7> QED BY <5>3, <7>1
          <6> HIDE DEF r
          <6>4. Between(key, s, m, left, r)
            BY <4>1, <6>2, <6>3 DEF Between
          <6>5. r % Size = r
            BY <1>1, <6>1
          <6> QED BY <1>2, <5>2, <6>1, <6>4, <6>5, BoundsAre DEF r
        <5> QED BY <4>2, <5>4, <5>5
      <4>8. CASE result > 0
        <5>1. x < key /\ x \in Int
          BY <4>3, <4>8 DEF x
        <5> DEFINE l == mid + 1
        <5>2. Search(key, s, st) = Bounds(l, right, Searching)
          BY <4>3, <4>4, <4>8
        <5>3. \A k \in 1 .. l : s[k].key < key
          <6> TAKE k \in 1 .. l
          <6>1. k \in 1 .. N /\ (k = mid + 1 \/ k < mid + 1)
            BY <1>1, <4>2
          <6> QED BY <1>3, <4>5, <5>1, <6>1 DEF x
        <5>4. l \in 0 .. right + 1 /\ l \in Nat /\ right - l + 1 <= N - m
          <6>1. left \in Nat /\ right \in Nat /\ mid \in Nat /\ left <= mid /\ mid <= right /\ N \in Nat
            BY <1>1, <1>2, <3>2, <4>2
          <6>2. n \in Nat /\ m = n + 1 /\ right - left + 1 <= N - n
            BY <4>1
          <6> HIDE DEF left, right, N
          <6>3. l = mid + 1
            OBVIOUS
          <6> HIDE DEF l
          <6> QED BY ONLY <6>1, <6>2, <6>3
        <5> HIDE DEF l
        <5>5. Between(key, s, m, l, right)
          BY <4>1, <5>3, <5>4 DEF Between
        <5> QED BY <1>2, <5>2, <5>4, <5>5, BoundsAre
      <4> QED BY <4>3, <4>6, <4>7, <4>8
    <3> QED BY <1>1, <1>2, <3>1, <3>3, <3>4
  <2> QED BY <1>2, <2>2, <2>3
<1> QED BY <1>4, <1>5

\* bsearch answers right in any ordered array of less than half the address space.
LEMMA BsearchAnswers ==
  ASSUME NEW E, Keyed(E), NEW s \in Seq(E), Ordered(s), 2 * Len(s) < Size, NEW key \in Int
  PROVE  SearchResult(key, s, Bsearch(key, s))
<1> DEFINE N == Len(s) + 1
           Turn(st) == Search(key, s, st)
           init == Bounds(0, (Len(s) - 1) % Size, Searching)
           B(m, n) == IF n = 0 THEN init ELSE Turn(m[n - 1])
           A(m) == [n \in 0 .. N |-> B(m, n)]
           left == CHOOSE m : m = A(m)
           S == [n \in 0 .. N |-> Searches(key, s, n)]
           step == [n \in 1 .. N |-> [st \in S[n - 1] |-> Turn(st)]]
<1>1. N \in Nat /\ Len(s) \in Nat /\ Size \in Nat \ {0} /\ 2 * Len(s) < Size
  BY LenProperties, SortAssumption
<1>2. Bsearch(key, s) = left[N].found
  BY DEF Bsearch
<1>3. \A n \in 1 .. N : \A st \in Searches(key, s, n - 1) : Turn(st) \in Searches(key, s, n)
  <2> TAKE n \in 1 .. N
  <2> DEFINE m == n - 1
  <2>1. m \in Nat /\ n \in Nat /\ n = m + 1
    OBVIOUS
  <2> HIDE DEF m
  <2>2. \A st \in Searches(key, s, m) : Search(key, s, st) \in Searches(key, s, n)
    BY <2>1, SearchTurn
  <2> QED BY <2>2 DEF m
<1>4. init \in Searches(key, s, 0)
  <2> DEFINE r == (Len(s) - 1) % Size
  <2>1. CASE Len(s) = 0
    <3>1. Size \in Nat \ {0} /\ -1 \in Int /\ Size - 1 \in 0 .. Size - 1
      BY <1>1
    <3>2. (Size * (-1) + (Size - 1)) % Size = Size - 1
      BY <3>1, Division
    <3>3. Size * (-1) + (Size - 1) = Len(s) - 1
      BY <1>1, <2>1
    <3>4. r = Size - 1 /\ r \in Nat
      BY <3>1, <3>2, <3>3
    <3> HIDE DEF r
    <3>5. Between(key, s, 0, 0, r)
      BY <2>1, <3>4 DEF Between
    <3>6. 0 \in Nat
      OBVIOUS
    <3> QED BY <3>4, <3>5, <3>6, BoundsAre DEF r
  <2>2. CASE Len(s) > 0
    <3>1. r = Len(s) - 1
      BY <1>1, <2>2
    <3> HIDE DEF r
    <3>2. r \in Nat
      BY <1>1, <2>2, <3>1
    <3>3. Between(key, s, 0, 0, r)
      BY <1>1, <2>2, <3>1 DEF Between
    <3>4. 0 \in Nat
      OBVIOUS
    <3> QED BY <3>2, <3>3, <3>4, BoundsAre DEF r
  <2> QED BY <1>1, <2>1, <2>2
<1> HIDE DEF Turn, init
<1>5. \A n \in 0 .. N : S[n] = Searches(key, s, n)
  OBVIOUS
<1>6. N = Len(s) + 1
  OBVIOUS
<1> HIDE DEF S, N
<1>7. Stage(S, step, N, init)
  <2>1. init \in S[0]
    BY <1>1, <1>4, <1>5
  <2>2. ASSUME NEW n \in 1 .. N PROVE step[n] \in [S[n - 1] -> S[n]]
    <3>1. n \in 0 .. N /\ n - 1 \in 0 .. N
      BY <1>1
    <3> QED BY <1>3, <1>5, <3>1
  <2> QED BY <2>1, <2>2 DEF Stage
<1>8. \A n \in 1 .. N : \A st \in S[n - 1] : step[n][st] = Turn(st)
  OBVIOUS
<1> HIDE DEF step
<1>9. PICK g : /\ g = [n \in 0 .. N |-> g[n]] /\ g[0] = init
               /\ \A n \in 1 .. N : g[n - 1] \in S[n - 1] /\ g[n] = step[n][g[n - 1]]
  BY <1>1, <1>7, Stages
<1>10. g = A(g)
  <2>1. \A n \in 0 .. N : g[n] = B(g, n)
    <3> SUFFICES ASSUME NEW n \in 0 .. N, n # 0 PROVE g[n] = Turn(g[n - 1])
      BY <1>9
    <3>1. n \in 1 .. N
      BY <1>1
    <3> QED BY <1>8, <1>9, <3>1
  <2> HIDE DEF B
  <2> QED BY <1>9, <2>1
<1>11. left = A(left)
  <2> HIDE DEF A
  <2> QED BY <1>10
<1> HIDE DEF left
<1>12. \A n \in 0 .. N : left[n] = B(left, n)
  <2> HIDE DEF B
  <2> QED BY <1>11
<1>13. left[0] = init /\ \A n \in 1 .. N : left[n - 1] \in S[n - 1] => left[n] = step[n][left[n - 1]]
  <2>1. 0 \in 0 .. N /\ \A n \in 1 .. N : n \in 0 .. N /\ n # 0
    BY <1>1
  <2> QED BY <1>8, <1>12, <2>1
<1>14. left[N] \in Searches(key, s, N)
  <2>1. N \in 0 .. N
    BY <1>1
  <2> QED BY <1>1, <1>5, <1>7, <1>13, <2>1, StagesHold
<1> DEFINE st == left[N]
<1>15. st.left \in Nat /\ st.right \in Nat
       /\ IF st.found = Searching THEN Between(key, s, N, st.left, st.right) ELSE SearchResult(key, s, st.found)
  BY <1>14 DEF Searches
<1> HIDE DEF st
<1>16. ~Between(key, s, N, st.left, st.right)
  BY <1>1, <1>6, <1>15 DEF Between
<1> QED BY <1>2, <1>15, <1>16 DEF st

\* qsort and bsearch in every array of integers that the address space can hold.
LEMMA SortedAndFoundIn ==
  ASSUME NEW a \in Seq(Int), 2 * Len(a) < Size, given.kind = "array",
         given.elems = [n \in DOMAIN a |-> [key |-> a[n], tag |-> n]]
  PROVE  SortedAndFound
<1> DEFINE E == [key : Int, tag : Int]
           s == given.elems
           D == ToSet(s)
           sorted == Qsort(s)
           keys == {e.key : e \in ToSet(sorted)}
<1>1. s \in Seq(E) /\ Len(s) = Len(a)
  <2>1. DOMAIN a = 1 .. Len(a) /\ Len(a) \in Nat /\ \A n \in 1 .. Len(a) : a[n] \in Int
    BY LenProperties
  <2>2. \A n \in DOMAIN a : [key |-> a[n], tag |-> n] \in E
    BY <2>1
  <2> HIDE DEF E
  <2> QED BY <2>1, <2>2
<1>2. Keyed(E) /\ Keyed(D)
  <2>1. Keyed(E)
    BY DEF Keyed
  <2>2. D \subseteq E
    BY <1>1, Members
  <2> QED BY <2>1, <2>2 DEF Keyed
<1> HIDE DEF E, s
<1>3. Sorts(D, s, sorted)
  BY <1>1, <1>2, QsortSorts
<1> HIDE DEF sorted, D
<1>4. sorted \in Seq(D) /\ Len(sorted) = Len(s) /\ ToSet(sorted) = ToSet(s) /\ Ordered(sorted)
  BY <1>3 DEF Sorts
<1>5. 2 * Len(sorted) < Size /\ Len(sorted) \in Nat /\ DOMAIN sorted = 1 .. Len(sorted)
  BY <1>1, <1>4, LenProperties
<1>6. \A i \in 1 .. Len(sorted) : sorted[i].key \in keys /\ sorted[i].key \in Int
  BY <1>2, <1>4, Members DEF Keyed
<1>7. \A k \in keys : k \in Int /\ \E i \in 1 .. Len(sorted) : sorted[i].key = k
  <2> TAKE k \in keys
  <2>1. PICK e \in ToSet(sorted) : k = e.key
    OBVIOUS
  <2>2. e \in D /\ \E i \in 1 .. Len(sorted) : e = sorted[i]
    BY <1>4, Member
  <2> QED BY <1>2, <2>1, <2>2 DEF Keyed
<1> HIDE DEF keys
<1>8. \A i \in 1 .. Len(sorted) - 1 : sorted[i].key <= sorted[i + 1].key
  <2> TAKE i \in 1 .. Len(sorted) - 1
  <2> DEFINE j == i + 1
  <2>1. i \in 1 .. Len(sorted) /\ j \in 1 .. Len(sorted) /\ i < j
    BY <1>5
  <2> HIDE DEF j
  <2>2. sorted[i].key <= sorted[j].key
    BY <1>4, <2>1 DEF Ordered
  <2> QED BY <2>2 DEF j
<1> DEFINE all == keys \cup {k + 1 : k \in keys} \cup {k - 1 : k \in keys} \cup {0}
<1>9. ASSUME NEW key \in all
      PROVE  IF key \in keys
               THEN \E i \in DOMAIN sorted : sorted[i].key = key /\ Bsearch(key, sorted) = Element(i - 1)
               ELSE Bsearch(key, sorted) = IF \A k \in keys : key < k THEN Wild ELSE NotThere
  <2> DEFINE found == Bsearch(key, sorted)
  <2>1. key \in Int
    BY <1>7
  <2>2. SearchResult(key, sorted, found)
    BY <1>2, <1>4, <1>5, <2>1, BsearchAnswers
  <2> HIDE DEF found
  <2>3. CASE \E i \in 1 .. Len(sorted) : sorted[i].key = key /\ found = Element(i - 1)
    BY <1>5, <1>6, <2>3 DEF found
  <2>4. CASE /\ found = NotThere /\ \A i \in 1 .. Len(sorted) : sorted[i].key # key
             /\ \E i \in 1 .. Len(sorted) : sorted[i].key < key
    <3>1. key \notin keys
      BY <1>7, <2>4
    <3>2. ~ \A k \in keys : key < k
      BY <1>6, <2>1, <2>4
    <3> QED BY <2>4, <3>1, <3>2 DEF found
  <2>5. CASE found = Wild /\ \A i \in 1 .. Len(sorted) : key < sorted[i].key
    <3>1. \A k \in keys : key < k
      BY <1>7, <2>5
    <3>2. key \notin keys
      BY <1>7, <2>1, <3>1
    <3> QED BY <2>5, <3>1, <3>2 DEF found
  <2> QED BY <2>2, <2>3, <2>4, <2>5 DEF SearchResult
<1> HIDE DEF all
<1> QED BY <1>4, <1>8, <1>9 DEF SortedAndFound, s, sorted, keys, all

\* In every array that is given qsort keeps and orders the elements and bsearch
\* finds what is there.
THEOREM SortedAndFoundHolds == TextSpec => []SortedAndFound
<1> DEFINE Inv == given.kind = "array" =>
             \E a \in Arrays : given.elems = [n \in DOMAIN a |-> [key |-> a[n], tag |-> n]]
<1>1. TextInit => Inv
  BY DEF TextInit, Nothing
<1>2. Inv /\ [Give]_textVars => Inv'
  <2>1. Inv /\ UNCHANGED textVars => Inv'
    BY DEF textVars
  <2>2. ASSUME Give PROVE Inv'
    <3> SUFFICES ASSUME given'.kind = "array"
                 PROVE  \E a \in Arrays : given'.elems = [n \in DOMAIN a |-> [key |-> a[n], tag |-> n]]
      OBVIOUS
    <3> DEFINE Elems(a) == [n \in DOMAIN a |-> [key |-> a[n], tag |-> n]]
    <3> HIDE DEF Elems
    <3>1. PICK a \in Arrays : given' = [kind |-> "array", elems |-> Elems(a)]
      BY <2>2 DEF Give, Elems
    <3>2. given'.elems = Elems(a)
      BY <3>1
    <3> QED BY <3>2 DEF Elems
  <2> QED BY <2>1, <2>2
<1>3. Inv => SortedAndFound
  <2> SUFFICES ASSUME given.kind = "array", Inv PROVE SortedAndFound
    BY DEF SortedAndFound
  <2>1. PICK a \in Arrays : given.elems = [n \in DOMAIN a |-> [key |-> a[n], tag |-> n]]
    OBVIOUS
  <2>2. a \in Seq(Int) /\ 2 * Len(a) < Size
    BY ArraysAssumption
  <2> QED BY <2>1, <2>2, SortedAndFoundIn
<1> QED
  BY <1>1, <1>2, <1>3, PTL DEF TextSpec
=============================================================================
