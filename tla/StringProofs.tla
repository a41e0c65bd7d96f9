---------------------------- MODULE StringProofs ----------------------------
(***************************************************************************)
(* Theorems about what Text makes of strings: what becomes of a text on    *)
(* its way to Windows and back and of the arguments of a program there,    *)
(* and what printf and its sinks make of a format.  The inductions are     *)
(* those of TextProofs.                                                    *)
(***************************************************************************)
EXTENDS TextProofs
----------------------------------------------------------------------------
(* Conversions *)

\* The states of a loop, one per turn.
After(g, turn, init, n) == g = [k \in 0 .. n |-> IF k = 0 THEN init ELSE turn[g[k - 1]]]

LEMMA AfterExists ==
  ASSUME NEW turn, NEW init, NEW n \in Nat
  PROVE  \E g : After(g, turn, init, n)
<1> DEFINE I == {k \in Nat : \E g : After(g, turn, init, k)}
<1>1. 0 \in I
  <2> DEFINE g == [k \in 0 .. 0 |-> init]
  <2>1. After(g, turn, init, 0)
    BY DEF After
  <2> HIDE DEF g
  <2> QED BY <2>1
<1>2. ASSUME NEW k \in Nat, k \in I PROVE k + 1 \in I
  <2>1. PICK g : After(g, turn, init, k)
    BY <1>2
  <2> DEFINE h == [j \in 0 .. k + 1 |-> IF j = k + 1 THEN turn[g[k]] ELSE g[j]]
  <2>2. ASSUME NEW j \in 0 .. k + 1 PROVE h[j] = IF j = 0 THEN init ELSE turn[h[j - 1]]
    <3>1. CASE j = 0
      BY <2>1, <3>1 DEF After
    <3>2. CASE j = k + 1
      <4>1. j - 1 = k /\ k \in 0 .. k + 1 /\ k # k + 1 /\ j # 0
        BY <3>2
      <4>2. h[j - 1] = g[k]
        BY <4>1
      <4> QED BY <3>2, <4>1, <4>2
    <3>3. CASE j # 0 /\ j # k + 1
      <4>1. j \in 0 .. k /\ j - 1 \in 0 .. k /\ j - 1 \in 0 .. k + 1 /\ j - 1 # k + 1
        BY <3>3
      <4>2. h[j] = g[j] /\ h[j - 1] = g[j - 1]
        BY <3>3, <4>1
      <4>3. g[j] = turn[g[j - 1]]
        BY <2>1, <3>3, <4>1 DEF After
      <4> QED BY <3>3, <4>2, <4>3
    <3> QED BY <3>1, <3>2, <3>3
  <2>3. h = [j \in 0 .. k + 1 |-> h[j]]
    OBVIOUS
  <2> HIDE DEF h
  <2>4. After(h, turn, init, k + 1)
    BY <2>2, <2>3 DEF After
  <2> QED BY <2>4
<1> HIDE DEF I
<1>3. Nat \subseteq I
  BY <1>1, <1>2, SetInduction
<1> QED BY <1>3 DEF I

\* What Iterate returns, turn by turn.
LEMMA IterateUnfolds ==
  ASSUME NEW turn, NEW init, NEW n \in Nat
  PROVE  /\ Iterate(turn, init, 0) = init
         /\ \A m \in Nat : m = n + 1 => Iterate(turn, init, m) = turn[Iterate(turn, init, n)]
<1> DEFINE A(g, k) == [j \in 0 .. k |-> IF j = 0 THEN init ELSE turn[g[j - 1]]]
           G(k) == CHOOSE g : g = A(g, k)
<1>1. \A k \in Nat : G(k) = A(G(k), k) /\ Iterate(turn, init, k) = G(k)[k]
  <2> TAKE k \in Nat
  <2>1. \E g : g = A(g, k)
    <3>1. PICK g : After(g, turn, init, k)
      BY AfterExists
    <3>2. g = A(g, k)
      BY <3>1 DEF After
    <3> HIDE DEF A
    <3> QED BY <3>2
  <2>2. G(k) = A(G(k), k)
    <3> HIDE DEF A
    <3> QED BY <2>1
  <2>3. Iterate(turn, init, k) = G(k)[k]
    BY DEF Iterate
  <2> QED BY <2>2, <2>3
<1> HIDE DEF G
<1>2. \A k \in Nat : \A j \in 0 .. k : G(k)[j] = IF j = 0 THEN init ELSE turn[G(k)[j - 1]]
  BY <1>1
<1> HIDE DEF A
<1>3. \A j \in 0 .. n : G(n + 1)[j] = G(n)[j]
  <2> DEFINE m == n + 1
             I == {j \in Nat : j <= n => G(m)[j] = G(n)[j]}
  <2>1. m \in Nat /\ n <= m
    OBVIOUS
  <2> HIDE DEF m
  <2>2. 0 \in I
    BY <1>2, <2>1
  <2>3. ASSUME NEW j \in Nat, j \in I PROVE j + 1 \in I
    <3> DEFINE k == j + 1
    <3> SUFFICES ASSUME k <= n PROVE G(m)[k] = G(n)[k]
      OBVIOUS
    <3>1. k \in 0 .. n /\ k \in 0 .. m /\ k # 0 /\ k - 1 = j
      BY <2>1
    <3>2. G(m)[j] = G(n)[j]
      BY <2>3
    <3> HIDE DEF k
    <3>3. G(m)[k] = turn[G(m)[j]] /\ G(n)[k] = turn[G(n)[j]]
      BY <1>2, <2>1, <3>1
    <3> QED BY <3>2, <3>3
  <2> HIDE DEF I
  <2>4. Nat \subseteq I
    BY <2>2, <2>3, SetInduction
  <2> QED BY <2>4 DEF I, m
<1>4. Iterate(turn, init, 0) = init
  BY <1>1, <1>2
<1>5. Iterate(turn, init, n + 1) = turn[Iterate(turn, init, n)]
  <2>1. n + 1 \in Nat /\ n + 1 \in 0 .. n + 1 /\ n + 1 # 0 /\ n + 1 - 1 = n /\ n \in 0 .. n
    OBVIOUS
  <2>2. G(n + 1)[n + 1] = turn[G(n + 1)[n]]
    BY <1>2, <2>1
  <2> QED BY <1>1, <1>3, <2>1, <2>2
<1> QED BY <1>4, <1>5

\* The invariant of a loop as the set of states after each turn.
LEMMA IterateHolds ==
  ASSUME NEW turn, NEW init, NEW S, init \in S[0],
         \A k \in Nat : \A st \in S[k] : turn[st] \in S[k + 1],
         NEW n \in Nat
  PROVE  Iterate(turn, init, n) \in S[n]
<1> DEFINE I == {k \in Nat : Iterate(turn, init, k) \in S[k]}
<1>1. 0 \in I
  BY IterateUnfolds
<1>2. ASSUME NEW k \in Nat, k \in I PROVE k + 1 \in I
  <2> DEFINE m == k + 1
  <2>1. m \in Nat
    OBVIOUS
  <2>2. turn[Iterate(turn, init, k)] \in S[m]
    BY <1>2
  <2> HIDE DEF m
  <2>3. Iterate(turn, init, m) = turn[Iterate(turn, init, k)]
    BY <2>1, IterateUnfolds DEF m
  <2>4. m \in I
    BY <2>1, <2>2, <2>3
  <2> QED BY <2>4 DEF m
<1> HIDE DEF I
<1>3. Nat \subseteq I
  BY <1>1, <1>2, SetInduction
<1> QED BY <1>3 DEF I

\* Two loops side by side.
LEMMA IteratePair ==
  ASSUME NEW turn, NEW turn2, NEW init, NEW R, <<init, init>> \in R,
         \A st, st2 : <<st, st2>> \in R => <<turn[st], turn2[st2]>> \in R,
         NEW n \in Nat
  PROVE  <<Iterate(turn, init, n), Iterate(turn2, init, n)>> \in R
<1> DEFINE I == {k \in Nat : <<Iterate(turn, init, k), Iterate(turn2, init, k)>> \in R}
<1>1. 0 \in I
  BY IterateUnfolds
<1>2. ASSUME NEW k \in Nat, k \in I PROVE k + 1 \in I
  <2> DEFINE m == k + 1
  <2>1. m \in Nat
    OBVIOUS
  <2>2. <<turn[Iterate(turn, init, k)], turn2[Iterate(turn2, init, k)]>> \in R
    BY <1>2
  <2>3. \A j \in Nat : j = k + 1 =>
          /\ Iterate(turn, init, j) = turn[Iterate(turn, init, k)]
          /\ Iterate(turn2, init, j) = turn2[Iterate(turn2, init, k)]
    BY IterateUnfolds
  <2>4. /\ Iterate(turn, init, m) = turn[Iterate(turn, init, k)]
        /\ Iterate(turn2, init, m) = turn2[Iterate(turn2, init, k)]
    BY <2>1, <2>3
  <2> HIDE DEF m
  <2>5. m \in I
    BY <2>1, <2>2, <2>4
  <2> QED BY <2>5 DEF m
<1> HIDE DEF I
<1>3. Nat \subseteq I
  BY <1>1, <1>2, SetInduction
<1> QED BY <1>3 DEF I

LEMMA Utf16Encoded ==
  ASSUME NEW c \in Nat
  PROVE  /\ c <= 65535 => Utf16Encode(c) = <<c>>
         /\ c > 65535 /\ c <= MaxCodePoint =>
              Utf16Encode(c) = <<55296 + ((c - 65536) \div 1024), 56320 + ((c - 65536) % 1024)>>
         /\ c > MaxCodePoint => Utf16Encode(c) = <<>>
<1>1. ASSUME c <= 65535 PROVE Utf16Encode(c) = <<c>>
  BY <1>1 DEF Utf16Encode
<1>2. ASSUME c > 65535, c <= MaxCodePoint
      PROVE  Utf16Encode(c) = <<55296 + ((c - 65536) \div 1024), 56320 + ((c - 65536) % 1024)>>
  BY <1>2 DEF Utf16Encode
<1>3. ASSUME c > MaxCodePoint PROVE Utf16Encode(c) = <<>>
  <2>1. ~(c <= 65535) /\ ~(c <= MaxCodePoint)
    BY <1>3 DEF MaxCodePoint
  <2> QED BY <2>1 DEF Utf16Encode
<1> QED BY <1>1, <1>2, <1>3

LEMMA Utf16EncodedSeq ==
  ASSUME NEW c \in Nat
  PROVE  /\ Utf16Encode(c) \in Seq(Nat)
         /\ Len(Utf16Encode(c)) = IF c <= 65535 THEN 1 ELSE IF c <= MaxCodePoint THEN 2 ELSE 0
         /\ Utf16Encode(c) = <<>> <=> c > MaxCodePoint
<1> DEFINE q == (c - 65536) \div 1024
           r == (c - 65536) % 1024
<1>1. c >= 65536 => q \in Nat /\ r \in Nat
  OBVIOUS
<1>2. /\ c <= 65535 => Utf16Encode(c) = <<c>>
      /\ c > 65535 /\ c <= MaxCodePoint => Utf16Encode(c) = <<55296 + q, 56320 + r>>
      /\ c > MaxCodePoint => Utf16Encode(c) = <<>>
  BY Utf16Encoded
<1> HIDE DEF q, r
<1>3. CASE c <= 65535
  <2>1. <<c>> \in Seq(Nat) /\ Len(<<c>>) = 1
    OBVIOUS
  <2>2. <<c>> # <<>>
    OBVIOUS
  <2>3. Utf16Encode(c) = <<c>>
    BY <1>2, <1>3
  <2>4. ~(c > MaxCodePoint)
    BY <1>3 DEF MaxCodePoint
  <2>5. Utf16Encode(c) \in Seq(Nat) /\ Len(Utf16Encode(c)) = 1
    BY ONLY <2>1, <2>3
  <2>6. Utf16Encode(c) # <<>>
    BY ONLY <2>2, <2>3
  <2> QED BY ONLY <1>3, <2>4, <2>5, <2>6
<1>4. CASE c > 65535 /\ c <= MaxCodePoint
  <2>1. <<55296 + q, 56320 + r>> \in Seq(Nat) /\ Len(<<55296 + q, 56320 + r>>) = 2
    BY <1>1, <1>4
  <2>2. <<55296 + q, 56320 + r>> # <<>>
    OBVIOUS
  <2>3. ~(c > MaxCodePoint) /\ ~(c <= 65535)
    BY <1>4 DEF MaxCodePoint
  <2>4. Utf16Encode(c) = <<55296 + q, 56320 + r>>
    BY <1>2, <1>4
  <2>5. Utf16Encode(c) \in Seq(Nat) /\ Len(Utf16Encode(c)) = 2
    BY ONLY <2>1, <2>4
  <2>6. Utf16Encode(c) # <<>>
    BY ONLY <2>2, <2>4
  <2> QED BY ONLY <1>4, <2>3, <2>5, <2>6
<1>5. CASE c > MaxCodePoint
  BY <1>2, <1>5 DEF MaxCodePoint
<1> QED BY <1>3, <1>4, <1>5 DEF MaxCodePoint

LEMMA Announcement ==
  ASSUME NEW b \in Nat, b < 256
  PROVE  /\ Announced(b) \in 0 .. 4 /\ (Announced(b) = 1 => b < 128)
         /\ (Announced(b) = 2 => b >= 192 /\ b < 224)
         /\ (Announced(b) = 3 => b >= 224 /\ b < 240)
         /\ (Announced(b) = 4 => b >= 240 /\ b < 248)
BY DEF Announced

CString(s) == s \in Seq(Byte) /\ Len(s) > 0 /\ s[Len(s)] = 0

\* A decoder stays within a string that ends in 0.
LEMMA Utf8DecodeWithin ==
  ASSUME NEW s, CString(s), NEW i \in 1 .. Len(s)
  PROVE  /\ Utf8Decode(s, i) \in [len : 0 .. 4, codepoint : Nat]
         /\ Utf8Decode(s, i).len > 0 /\ Utf8Decode(s, i).codepoint # 0 =>
              i + Utf8Decode(s, i).len <= Len(s)
<1> DEFINE N == Len(s)
           b == s[i]
           n == Announced(b)
           low(k) == s[i + k] - 128
           c == IF n = 1 THEN s[i]
                ELSE IF n = 2 THEN (s[i] - 192) * 64 + low(1)
                ELSE IF n = 3 THEN (s[i] - 224) * 4096 + low(1) * 64 + low(2)
                ELSE (s[i] - 240) * 262144 + low(1) * 4096 + low(2) * 64 + low(3)
           Bad == n = 0 \/ \E k \in 1 .. n - 1 : ~Continues(s, i + k)
<1>1. N \in Nat \ {0} /\ s[N] = 0 /\ \A k \in 1 .. N : s[k] \in Nat /\ s[k] < 256
  BY ElementOfSeq, LenProperties DEF CString, Byte
<1>2. Utf8Decode(s, i) = IF Bad THEN Invalid ELSE [len |-> n, codepoint |-> c]
  BY DEF Utf8Decode
<1>3. /\ b \in Nat /\ b < 256 /\ n \in 0 .. 4 /\ (n = 1 => b < 128) /\ (n = 2 => b >= 192)
      /\ (n = 3 => b >= 224) /\ (n = 4 => b >= 240)
  <2>1. b \in Nat /\ b < 256
    BY <1>1
  <2> HIDE DEF b
  <2> QED BY <2>1, Announcement
<1>4. ASSUME ~Bad
      PROVE  c \in Nat /\ (c # 0 => i + n <= N)
  <2>1. ASSUME NEW k \in 1 .. n - 1 PROVE i + k < N /\ low(k) \in Nat
    <3> DEFINE j == i + k
    <3>1. Continues(s, j)
      BY <1>4
    <3>2. j \in Nat /\ j <= N /\ s[j] \in Nat /\ 128 <= s[j]
      <4>1. j \in Nat /\ j >= 1 /\ j <= N /\ 128 <= s[j]
        BY <1>3, <3>1 DEF Continues
      <4> HIDE DEF j
      <4> QED BY <1>1, <4>1
    <3>3. j # N
      BY <1>1, <3>2
    <3>4. low(k) = s[j] - 128
      OBVIOUS
    <3> HIDE DEF j, N, low
    <3>5. low(k) \in Nat /\ j < N
      BY <1>1, <3>2, <3>3, <3>4
    <3> QED BY <3>5 DEF j
  <2>2. CASE n = 1
    <3>1. c = b
      BY <2>2
    <3>2. b # 0 => i # N
      BY <1>1
    <3> QED BY <1>1, <1>3, <2>2, <3>1, <3>2
  <2>3. CASE n = 2
    <3>1. i + 1 < N /\ low(1) \in Nat
      BY <2>1, <2>3
    <3>2. c = (b - 192) * 64 + low(1)
      BY <2>3
    <3> HIDE DEF c, low, N, n, b
    <3>3. c \in Nat
      BY <1>3, <2>3, <3>1, <3>2
    <3> QED BY <1>1, <2>3, <3>1, <3>3
  <2>4. CASE n = 3
    <3>1. i + 2 < N /\ low(1) \in Nat /\ low(2) \in Nat
      BY <2>1, <2>4
    <3>2. c = (b - 224) * 4096 + low(1) * 64 + low(2)
      BY <2>4
    <3> HIDE DEF c, low, N, n, b
    <3>3. c \in Nat
      BY <1>3, <2>4, <3>1, <3>2
    <3> QED BY <1>1, <2>4, <3>1, <3>3
  <2>5. CASE n = 4
    <3>1. i + 3 < N /\ low(1) \in Nat /\ low(2) \in Nat /\ low(3) \in Nat
      BY <2>1, <2>5
    <3>2. c = (b - 240) * 262144 + low(1) * 4096 + low(2) * 64 + low(3)
      BY <2>5
    <3> HIDE DEF c, low, N, n, b
    <3>3. c \in Nat
      BY <1>3, <2>5, <3>1, <3>2
    <3> QED BY <1>1, <2>5, <3>1, <3>3
  <2> QED BY <1>3, <1>4, <2>2, <2>3, <2>4, <2>5
<1> HIDE DEF n, c, N, Bad
<1>5. CASE Bad
  BY <1>2, <1>5 DEF Invalid
<1>6. CASE ~Bad
  BY <1>2, <1>3, <1>4, <1>6 DEF N
<1> QED BY <1>5, <1>6

LEMMA LocalsFields ==
  ASSUME NEW st \in Locals
  PROVE  /\ st.at \in Nat /\ st.out \in Seq(Nat) /\ st.len \in Nat
         /\ st.error \in BOOLEAN /\ st.done \in BOOLEAN
BY Zenon DEF Locals

LEMMA BeginIs ==
  /\ Begin \in Locals /\ Begin.at = 1 /\ Begin.out = <<>> /\ Begin.len = 0
  /\ Begin.error = FALSE /\ Begin.done = FALSE
<1>1. 1 \in Nat /\ 0 \in Nat /\ <<>> \in Seq(Nat) /\ FALSE \in BOOLEAN
  OBVIOUS
<1> QED BY <1>1, Zenon DEF Begin, Locals

LEMMA FailIs ==
  ASSUME NEW st \in Locals
  PROVE  /\ Fail(st) \in Locals /\ Fail(st).at = st.at /\ Fail(st).out = st.out /\ Fail(st).len = st.len
         /\ Fail(st).error = TRUE /\ Fail(st).done = TRUE
BY Zenon DEF Locals, Fail

LEMMA NativeIs ==
  ASSUME NEW c \in Nat
  PROVE  /\ Native(c) \in Nat /\ Len(Utf16Encode(Native(c))) = Len(Utf16Encode(c))
         /\ Utf16Encode(Native(c)) = <<>> <=> Utf16Encode(c) = <<>>
<1>1. CASE c = Slash
  <2>1. Native(c) = 92 /\ c = 47
    BY <1>1 DEF Native, Slash, Backslash
  <2>2. Utf16Encode(Native(c)) = <<92>> /\ Utf16Encode(c) = <<47>>
    BY <2>1 DEF Utf16Encode
  <2> QED BY <2>1, <2>2
<1>2. CASE c # Slash
  BY <1>2 DEF Native
<1> QED BY <1>1, <1>2

\* A turn that takes in the character d and puts out the units u.
Units(st, d, u, new) ==
  /\ d.len = 0 \/ u = <<>> => new = Fail(st)
  /\ d.len # 0 /\ u # <<>> =>
       /\ new \in Locals /\ new.at = st.at + d.len /\ new.out = st.out \o u /\ new.len = st.len
       /\ new.error = st.error /\ new.done = (d.codepoint = 0)

LEMMA Utf8to16Turned ==
  ASSUME NEW s, NEW st \in Locals, st.done = FALSE,
         Utf8Decode(s, st.at).len \in Nat, Utf8Decode(s, st.at).codepoint \in Nat
  PROVE  Units(st, Utf8Decode(s, st.at), Utf16Encode(Native(Utf8Decode(s, st.at).codepoint)), Utf8to16Turn(s, st))
<1> DEFINE d == Utf8Decode(s, st.at)
           u == Utf16Encode(Native(d.codepoint))
           new == Utf8to16Turn(s, st)
<1>1. u \in Seq(Nat)
  <2>1. Native(d.codepoint) \in Nat
    BY NativeIs
  <2> QED BY <2>1, Utf16EncodedSeq
<1>2. d.len \in Nat
  OBVIOUS
<1> HIDE DEF d, u, new
<1>3. ASSUME d.len = 0 \/ u = <<>> PROVE new = Fail(st)
  BY <1>3, Zenon DEF Utf8to16Turn, d, u, new
<1>4. ASSUME d.len # 0, u # <<>>
      PROVE  /\ new \in Locals /\ new.at = st.at + d.len /\ new.out = st.out \o u /\ new.len = st.len
             /\ new.error = st.error /\ new.done = (d.codepoint = 0)
  <2> DEFINE at == st.at + d.len
             out == st.out \o u
             done == d.codepoint = 0
  <2>1. at \in Nat /\ out \in Seq(Nat) /\ st.len \in Nat
    BY <1>1, <1>2, LocalsFields
  <2>2. done \in BOOLEAN
    OBVIOUS
  <2>3. new = [st EXCEPT !.at = at, !.out = out, !.done = done]
    BY <1>4, Zenon DEF Utf8to16Turn, d, u, new
  <2> HIDE DEF at, out, done
  <2>4. /\ new \in Locals /\ new.at = at /\ new.out = out /\ new.len = st.len
        /\ new.error = st.error /\ new.done = done
    BY ONLY st \in Locals, <2>1, <2>2, <2>3, Zenon DEF Locals
  <2> QED BY <2>4, Zenon DEF at, out, done
<1> QED BY <1>3, <1>4, Zenon DEF Units, d, u, new

\* A turn that takes in the character d and counts the units u.
Counts(st, d, u, new) ==
  /\ d.len = 0 \/ u = <<>> => new = Fail(st)
  /\ d.len # 0 /\ u # <<>> =>
       /\ new \in Locals /\ new.at = st.at + d.len /\ new.out = st.out /\ new.len = st.len + Len(u)
       /\ new.error = st.error /\ new.done = (d.codepoint = 0)

LEMMA Utf8to16LenTurned ==
  ASSUME NEW s, NEW st \in Locals, st.done = FALSE,
         Utf8Decode(s, st.at).len \in Nat, Utf8Decode(s, st.at).codepoint \in Nat
  PROVE  Counts(st, Utf8Decode(s, st.at), Utf16Encode(Utf8Decode(s, st.at).codepoint), Utf8to16LenTurn(s, st))
<1> DEFINE d == Utf8Decode(s, st.at)
           u == Utf16Encode(d.codepoint)
           new == Utf8to16LenTurn(s, st)
<1>1. Len(u) \in Nat
  BY Utf16EncodedSeq, LenProperties
<1>2. d.len \in Nat
  OBVIOUS
<1> HIDE DEF d, u, new
<1>3. ASSUME d.len = 0 \/ u = <<>> PROVE new = Fail(st)
  BY <1>3, Zenon DEF Utf8to16LenTurn, d, u, new
<1>4. ASSUME d.len # 0, u # <<>>
      PROVE  /\ new \in Locals /\ new.at = st.at + d.len /\ new.out = st.out /\ new.len = st.len + Len(u)
             /\ new.error = st.error /\ new.done = (d.codepoint = 0)
  <2> DEFINE at == st.at + d.len
             len == st.len + Len(u)
             done == d.codepoint = 0
  <2>1. at \in Nat /\ len \in Nat /\ st.out \in Seq(Nat)
    BY <1>1, <1>2, LocalsFields
  <2>2. done \in BOOLEAN
    OBVIOUS
  <2>3. new = [st EXCEPT !.at = at, !.len = len, !.done = done]
    BY <1>4, Zenon DEF Utf8to16LenTurn, d, u, new
  <2> HIDE DEF at, len, done
  <2>4. /\ new \in Locals /\ new.at = at /\ new.out = st.out /\ new.len = len
        /\ new.error = st.error /\ new.done = done
    BY ONLY st \in Locals, <2>1, <2>2, <2>3, Zenon DEF Locals
  <2> QED BY <2>4, Zenon DEF at, len, done
<1> QED BY <1>3, <1>4, Zenon DEF Counts, d, u, new

\* The loops of utf8to16 and of its length function over s after as many turns.
Agree(s, st, st2) ==
  /\ st.at = st2.at /\ st.done = st2.done /\ st.error = st2.error
  /\ st2.len = Len(st.out)
  /\ st.at >= 1 /\ (st.done = FALSE => st.at <= Len(s))

LEMMA AgreeBegin ==
  ASSUME NEW s, CString(s)
  PROVE  Agree(s, Begin, Begin)
<1>1. Len(s) \in Nat /\ Len(s) > 0 /\ Len(<<>>) = 0
  BY LenProperties DEF CString
<1> QED BY <1>1, BeginIs DEF Agree

LEMMA AgreeTurn ==
  ASSUME NEW s, CString(s), NEW st \in Locals, NEW st2 \in Locals, Agree(s, st, st2)
  PROVE  /\ Utf8to16Turn(s, st) \in Locals /\ Utf8to16LenTurn(s, st2) \in Locals
         /\ Agree(s, Utf8to16Turn(s, st), Utf8to16LenTurn(s, st2))
<1> DEFINE new == Utf8to16Turn(s, st)
           new2 == Utf8to16LenTurn(s, st2)
<1>1. CASE st.done = TRUE
  <2>1. st2.done = TRUE
    BY <1>1 DEF Agree
  <2>2. new = st /\ new2 = st2
    BY <1>1, <2>1, Zenon DEF Utf8to16Turn, Utf8to16LenTurn
  <2> QED BY <2>2
<1>2. CASE st.done = FALSE
  <2> DEFINE d == Utf8Decode(s, st.at)
             u == Utf16Encode(Native(d.codepoint))
             u2 == Utf16Encode(d.codepoint)
             i == st.at
             c == d.codepoint
  <2>1. i \in 1 .. Len(s) /\ Len(s) \in Nat /\ st.len \in Nat /\ st2.len \in Nat /\ st.out \in Seq(Nat)
    BY <1>2, LocalsFields, LenProperties DEF Agree, CString
  <2>2. /\ d \in [len : 0 .. 4, codepoint : Nat]
        /\ d.len > 0 /\ d.codepoint # 0 => i + d.len <= Len(s)
    BY <2>1, Utf8DecodeWithin
  <2>3. d.len \in Nat /\ d.codepoint \in Nat /\ d = Utf8Decode(s, st2.at) /\ st2.done = FALSE
    BY <1>2, <2>2 DEF Agree
  <2>4. u \in Seq(Nat) /\ Len(u) = Len(u2) /\ (u = <<>> <=> u2 = <<>>)
    <3>1. Native(c) \in Nat /\ Len(u) = Len(u2) /\ (u = <<>> <=> u2 = <<>>)
      BY <2>3, NativeIs
    <3>2. u \in Seq(Nat)
      BY <3>1, Utf16EncodedSeq
    <3> QED BY <3>1, <3>2
  <2> HIDE DEF u, u2, d, new, new2
  <2>5. Units(st, d, u, new)
    BY <1>2, <2>3, Utf8to16Turned DEF new, d, u
  <2>6. Counts(st2, d, u2, new2)
    BY <1>2, <2>3, Utf8to16LenTurned DEF new2, d, u2
  <2>7. CASE d.len = 0 \/ u = <<>>
    <3>1. new = Fail(st) /\ new2 = Fail(st2)
      BY <2>4, <2>5, <2>6, <2>7 DEF Units, Counts
    <3>2. /\ Fail(st) \in Locals /\ Fail(st).at = st.at /\ Fail(st).out = st.out
          /\ Fail(st).error = TRUE /\ Fail(st).done = TRUE
      BY FailIs
    <3>3. /\ Fail(st2) \in Locals /\ Fail(st2).at = st2.at /\ Fail(st2).len = st2.len
          /\ Fail(st2).error = TRUE /\ Fail(st2).done = TRUE
      BY FailIs
    <3>4. st.at = st2.at /\ st2.len = Len(st.out) /\ st.at >= 1
      BY DEF Agree
    <3>5. Agree(s, Fail(st), Fail(st2))
      BY <3>2, <3>3, <3>4 DEF Agree
    <3> QED BY <3>1, <3>2, <3>3, <3>5 DEF new, new2
  <2>8. CASE d.len # 0 /\ u # <<>>
    <3>1. /\ new \in Locals /\ new.at = st.at + d.len /\ new.out = st.out \o u
          /\ new.error = st.error /\ new.done = (d.codepoint = 0)
      BY <2>5, <2>8, Zenon DEF Units
    <3>2. /\ new2 \in Locals /\ new2.at = st2.at + d.len /\ new2.len = st2.len + Len(u2)
          /\ new2.error = st2.error /\ new2.done = (d.codepoint = 0)
      BY <2>4, <2>6, <2>8, Zenon DEF Counts
    <3>3. st.at = st2.at /\ st2.len = Len(st.out) /\ st.error = st2.error
      BY DEF Agree
    <3>4. Len(st.out \o u) = Len(st.out) + Len(u)
      BY <2>1, <2>4, ConcatProperties
    <3>5. st.at + d.len >= 1 /\ (d.codepoint # 0 => st.at + d.len <= Len(s))
      BY <2>1, <2>2, <2>3, <2>8
    <3>6. /\ new.at = new2.at /\ new.done = new2.done /\ new.error = new2.error
          /\ new2.len = Len(new.out)
      BY <2>4, <3>1, <3>2, <3>3, <3>4
    <3>7. new.at >= 1 /\ (new.done = FALSE => new.at <= Len(s))
      BY <3>1, <3>5
    <3>8. Agree(s, new, new2)
      BY <3>6, <3>7 DEF Agree
    <3> QED BY <3>1, <3>2, <3>8 DEF new, new2
  <2> QED BY <2>7, <2>8
<1> QED BY <1>1, <1>2, LocalsFields

LEMMA Agreed ==
  ASSUME NEW s, CString(s)
  PROVE  /\ Utf8to16(s) \in Locals /\ Utf8to16Len(s) \in Locals
         /\ Agree(s, Utf8to16(s), Utf8to16Len(s))
<1> DEFINE R == {p \in Locals \X Locals : Agree(s, p[1], p[2])}
           turn == [st \in Locals |-> Utf8to16Turn(s, st)]
           turn2 == [st \in Locals |-> Utf8to16LenTurn(s, st)]
<1>1. <<Begin, Begin>> \in R
  BY AgreeBegin, BeginIs
<1>2. ASSUME NEW st, NEW st2, <<st, st2>> \in R
      PROVE  <<turn[st], turn2[st2]>> \in R
  <2>1. st \in Locals /\ st2 \in Locals /\ Agree(s, st, st2)
    BY <1>2
  <2>2. turn[st] = Utf8to16Turn(s, st) /\ turn2[st2] = Utf8to16LenTurn(s, st2)
    BY <2>1
  <2>3. /\ Utf8to16Turn(s, st) \in Locals /\ Utf8to16LenTurn(s, st2) \in Locals
        /\ Agree(s, Utf8to16Turn(s, st), Utf8to16LenTurn(s, st2))
    BY <2>1, AgreeTurn
  <2> HIDE DEF turn, turn2
  <2> QED BY <2>2, <2>3
<1>3. Len(s) \in Nat
  BY LenProperties DEF CString
<1> HIDE DEF R, turn, turn2
<1>4. <<Iterate(turn, Begin, Len(s)), Iterate(turn2, Begin, Len(s))>> \in R
  BY <1>1, <1>2, <1>3, IteratePair
<1>5. <<Utf8to16(s), Utf8to16Len(s)>> \in R
  BY <1>4, Zenon DEF Utf8to16, Utf8to16Len, turn, turn2
<1> QED BY <1>5 DEF R

LEMMA SkipSlashString ==
  ASSUME NEW s, CString(s)
  PROVE  CString(SkipSlash(s))
<1>1. s \in Seq(Byte) /\ Len(s) \in Nat /\ s # <<>>
  BY LenProperties DEF CString
<1>2. /\ Tail(s) \in Seq(Byte) /\ Len(Tail(s)) = Len(s) - 1
      /\ \A k \in 1 .. Len(Tail(s)) : Tail(s)[k] = s[k + 1]
  BY <1>1, HeadTailProperties
<1>3. Len(s) > 3 => CString(Tail(s))
  <2> SUFFICES ASSUME Len(s) > 3 PROVE CString(Tail(s))
    OBVIOUS
  <2> DEFINE n == Len(s) - 1
  <2>1. n \in 1 .. Len(Tail(s)) /\ n + 1 = Len(s)
    BY <1>1, <1>2
  <2>2. Tail(s)[n] = 0
    BY <1>2, <2>1 DEF CString
  <2> QED BY <1>1, <1>2, <2>2 DEF CString
<1> QED BY <1>3 DEF SkipSlash

\* Whatever the bytes are, tonativepath allocates what it fills.
LEMMA SizedRightAlways ==
  ASSUME NEW s, CString(s)
  PROVE  SizedRight(s)
<1> DEFINE t == SkipSlash(s)
<1>1. Agree(s, Utf8to16(s), Utf8to16Len(s))
  BY Agreed
<1>2. Agree(t, Utf8to16(t), Utf8to16Len(t))
  BY Agreed, SkipSlashString
<1>3. Utf8to16(s).error = Utf8to16Len(s).error /\ Utf8to16Len(s).len = Len(Utf8to16(s).out)
  BY <1>1 DEF Agree
<1>4. 2 * Utf8to16Len(t).len = 2 * Len(Utf8to16(t).out)
  BY <1>2 DEF Agree
<1> QED BY <1>3, <1>4 DEF SizedRight, ToNativePath, ToNativePathLen

\* The code units e are in s from i on.
Stands(s, i, e) ==
  \A k \in 1 .. Len(e), n \in Nat : n + 1 = i + k => n <= Len(s) /\ s[n] = e[k]

\* What FlattenSeq has joined after k sequences.
FlatOf(flat, seqs, T) ==
  /\ flat \in [0 .. Len(seqs) -> Seq(T)] /\ flat[0] = <<>>
  /\ \A k \in 1 .. Len(seqs) : flat[k] = Behind(flat[k - 1], seqs[k])
  /\ FlattenSeq(seqs) = flat[Len(seqs)]

LEMMA Flattened ==
  ASSUME NEW T, NEW seqs \in Seq(Seq(T)), Len(seqs) # 0
  PROVE  \E flat : FlatOf(flat, seqs, T)
<1> DEFINE N == Len(seqs)
           S == Seq(T)
           Add(x, k) == Behind(x, seqs[k])
           step == [k \in 1 .. N |-> [x \in S |-> Add(x, k)]]
           F(f) == [i \in 1 .. N |-> IF i = 1 THEN seqs[i] ELSE Add(f[i - 1], i)]
           flatten == CHOOSE f : f = F(f)
<1>1. N \in Nat /\ N >= 1 /\ (\A k \in 1 .. N : seqs[k] \in S) /\ <<>> \in S
  BY LenProperties, ElementOfSeq
<1>2. \A x \in S, k \in 1 .. N : Add(x, k) \in S
  BY <1>1, ConcatProperties DEF Behind
<1>3. \A k \in 1 .. N : Add(<<>>, k) = seqs[k]
  BY <1>1, ConcatEmptySeq DEF Behind
<1>4. FlattenSeq(seqs) = flatten[N]
  BY Zenon DEF FlattenSeq, Behind
<1> HIDE DEF S, Add
<1>5. step \in [1 .. N -> [S -> S]]
  BY <1>2
<1>6. \A k \in 1 .. N : \A x \in S : step[k][x] = Add(x, k)
  OBVIOUS
<1> HIDE DEF N, step
<1>7. PICK flat : Rounds(flat, N, S, <<>>, step)
  BY <1>1, <1>5, Recursion
<1>8. /\ flat \in [0 .. N -> S] /\ flat[0] = <<>>
      /\ \A k \in 1 .. N : flat[k] = Add(flat[k - 1], k)
  <2>1. flat \in [0 .. N -> S] /\ flat[0] = <<>> /\ \A k \in 1 .. N : flat[k] = step[k][flat[k - 1]]
    BY <1>7 DEF Rounds
  <2>2. \A k \in 1 .. N : k - 1 \in 0 .. N
    BY <1>1
  <2> QED BY <1>6, <2>1, <2>2
<1>9. flatten = F(flatten)
  <2> DEFINE f == [i \in 1 .. N |-> flat[i]]
  <2>1. ASSUME NEW i \in 1 .. N PROVE f[i] = IF i = 1 THEN seqs[i] ELSE Add(f[i - 1], i)
    <3>1. CASE i = 1
      <4>1. flat[1] = Add(flat[0], 1)
        BY <1>1, <1>8
      <4> QED BY <1>1, <1>3, <1>8, <3>1, <4>1
    <3>2. CASE i # 1
      <4>1. i - 1 \in 1 .. N
        BY <1>1, <3>2
      <4> QED BY <1>8, <3>2, <4>1
    <3> QED BY <3>1, <3>2
  <2>2. f = F(f)
    BY <2>1
  <2> HIDE DEF f, F
  <2> QED BY <2>2
<1>10. \A i \in 1 .. N : flatten[i] = IF i = 1 THEN seqs[i] ELSE Add(flatten[i - 1], i)
  BY <1>9
<1> HIDE DEF flatten, F
<1>11. flatten[N] = flat[N]
  <2> DEFINE I == {n \in Nat : n + 1 <= N => flatten[n + 1] = flat[n + 1]}
  <2>1. 0 \in I
    <3>1. flatten[1] = seqs[1] /\ flat[1] = Add(<<>>, 1)
      BY <1>1, <1>8, <1>10
    <3> QED BY <1>1, <1>3, <3>1
  <2>2. ASSUME NEW n \in Nat, n \in I PROVE n + 1 \in I
    <3> DEFINE i == n + 1 + 1
    <3> SUFFICES ASSUME i <= N PROVE flatten[i] = flat[i]
      OBVIOUS
    <3>1. i \in 1 .. N /\ i # 1 /\ i - 1 = n + 1 /\ n + 1 <= N
      BY <1>1
    <3>2. flatten[i - 1] = flat[i - 1]
      BY <2>2, <3>1
    <3> HIDE DEF i
    <3> QED BY <1>8, <1>10, <3>1, <3>2
  <2> HIDE DEF I
  <2>3. Nat \subseteq I
    BY <2>1, <2>2, SetInduction
  <2>4. N - 1 \in I /\ N - 1 + 1 = N
    BY <1>1, <2>3
  <2> QED BY <2>4 DEF I
<1>12. FlatOf(flat, seqs, T)
  BY <1>4, <1>8, <1>11 DEF FlatOf, N, S, Add
<1> QED BY <1>12

\* How FlattenSeq lays the sequences out: each stands behind the ones before it.
Laid(flat, seqs, T) ==
  /\ \A k \in 0 .. Len(seqs) : flat[k] \in Seq(T) /\ Len(flat[k]) \in Nat
  /\ Len(flat[0]) = 0 /\ flat[0] = <<>> /\ flat[Len(seqs)] = FlattenSeq(seqs)
  /\ \A k \in 1 .. Len(seqs) :
       /\ flat[k] = Behind(flat[k - 1], seqs[k]) /\ Len(flat[k]) = Len(flat[k - 1]) + Len(seqs[k])
       /\ Len(seqs[k]) \in Nat
       /\ Stands(FlattenSeq(seqs), Len(flat[k - 1]) + 1, seqs[k])

LEMMA FlatPlaces ==
  ASSUME NEW T, NEW seqs \in Seq(Seq(T)), NEW flat, FlatOf(flat, seqs, T)
  PROVE  Laid(flat, seqs, T)
<1> DEFINE N == Len(seqs)
<1>1. N \in Nat /\ \A k \in 1 .. N : seqs[k] \in Seq(T) /\ k - 1 \in 0 .. N
  BY LenProperties, ElementOfSeq
<1>2. \A k \in 0 .. N : flat[k] \in Seq(T) /\ Len(flat[k]) \in Nat
  BY LenProperties DEF FlatOf
<1>3. ASSUME NEW k \in 1 .. N
      PROVE  /\ Len(flat[k]) = Len(flat[k - 1]) + Len(seqs[k]) /\ Len(seqs[k]) \in Nat
             /\ \A p \in 1 .. Len(flat[k - 1]) : flat[k][p] = flat[k - 1][p]
             /\ \A j \in 1 .. Len(seqs[k]) : flat[k][Len(flat[k - 1]) + j] = seqs[k][j]
  <2> DEFINE x == flat[k - 1]
             y == seqs[k]
             z == x \o y
  <2>1. x \in Seq(T) /\ y \in Seq(T) /\ flat[k] = z
    <3>1. flat[k] = Behind(x, y)
      BY DEF FlatOf
    <3>2. x \in Seq(T) /\ y \in Seq(T)
      BY <1>1, <1>2
    <3> QED BY <3>1, <3>2 DEF Behind
  <2> HIDE DEF x, y
  <2>2. Len(x) \in Nat /\ Len(y) \in Nat
    BY <2>1, LenProperties
  <2>3. /\ Len(z) = Len(x) + Len(y)
        /\ \A p \in 1 .. Len(x) + Len(y) : z[p] = IF p <= Len(x) THEN x[p] ELSE y[p - Len(x)]
    BY <2>1, ConcatProperties
  <2> HIDE DEF z
  <2>4. \A p \in 1 .. Len(x) : z[p] = x[p]
    BY <2>2, <2>3
  <2>5. ASSUME NEW j \in 1 .. Len(y) PROVE z[Len(x) + j] = y[j]
    <3> DEFINE p == Len(x) + j
    <3>1. p \in 1 .. Len(x) + Len(y) /\ ~(p <= Len(x)) /\ p - Len(x) = j
      BY <2>2
    <3> HIDE DEF p
    <3>2. z[p] = y[j]
      BY <2>3, <3>1
    <3> QED BY <3>2 DEF p
  <2> QED BY <2>1, <2>2, <2>3, <2>4, <2>5 DEF x, y
<1> DEFINE Leads(k, m) == /\ Len(flat[k]) <= Len(flat[m])
                          /\ \A p \in 1 .. Len(flat[k]) : flat[m][p] = flat[k][p]
<1>4. \A k \in 0 .. N : Leads(k, N)
  <2> SUFFICES ASSUME NEW k \in 0 .. N PROVE Leads(k, N)
    OBVIOUS
  <2> DEFINE I == {m \in Nat : k <= m /\ m <= N => Leads(k, m)}
  <2>1. 0 \in I
    BY <1>2
  <2>2. ASSUME NEW m \in Nat, m \in I PROVE m + 1 \in I
    <3> DEFINE n == m + 1
    <3> SUFFICES ASSUME k <= n, n <= N PROVE Leads(k, n)
      OBVIOUS
    <3>1. CASE k = n
      BY <1>2, <3>1
    <3>2. CASE k # n
      <4>1. k <= m /\ m <= N /\ n \in 1 .. N /\ n - 1 = m /\ m \in 0 .. N
        BY <1>1, <3>2
      <4>2. Leads(k, m)
        BY <2>2, <4>1
      <4> HIDE DEF n
      <4>3. /\ Len(flat[n]) = Len(flat[m]) + Len(seqs[n]) /\ Len(seqs[n]) \in Nat
            /\ \A p \in 1 .. Len(flat[m]) : flat[n][p] = flat[m][p]
        BY <1>3, <4>1
      <4>4. Len(flat[k]) \in Nat /\ Len(flat[m]) \in Nat /\ Len(flat[n]) \in Nat
        BY <1>2, <4>1
      <4> DEFINE a == Len(flat[k])
                 b == Len(flat[m])
      <4>5. a <= b /\ b <= Len(flat[n]) /\ a \in Nat /\ b \in Nat
        <5>1. a <= b
          BY <4>2
        <5>2. Len(flat[n]) = b + Len(seqs[n]) /\ Len(seqs[n]) \in Nat /\ a \in Nat /\ b \in Nat
          BY <4>3, <4>4
        <5> HIDE DEF a, b
        <5> QED BY ONLY <5>1, <5>2
      <4> HIDE DEF a, b
      <4>6. \A p \in 1 .. a : p \in 1 .. b
        BY ONLY <4>5
      <4>7. \A p \in 1 .. a : flat[n][p] = flat[k][p]
        BY <4>2, <4>3, <4>6 DEF a, b
      <4>8. a <= Len(flat[n])
        BY <4>4, <4>5
      <4> QED BY <4>7, <4>8 DEF a
    <3> QED BY <3>1, <3>2
  <2> HIDE DEF I
  <2>3. Nat \subseteq I
    BY <2>1, <2>2, SetInduction
  <2>4. N \in I
    BY <1>1, <2>3
  <2> QED BY <1>1, <2>4 DEF I
<1>5. FlattenSeq(seqs) = flat[N] /\ flat[0] = <<>>
  BY DEF FlatOf
<1>6. Len(flat[0]) = 0
  BY <1>5
<1>7. ASSUME NEW k \in 1 .. N, NEW j \in 1 .. Len(seqs[k])
      PROVE  flat[N][Len(flat[k - 1]) + j] = seqs[k][j]
  <2> DEFINE p == Len(flat[k - 1]) + j
  <2>1. flat[k][p] = seqs[k][j]
    BY <1>3
  <2>2. p \in 1 .. Len(flat[k])
    <3>1. Len(flat[k - 1]) \in Nat /\ Len(seqs[k]) \in Nat /\ Len(flat[k]) = Len(flat[k - 1]) + Len(seqs[k])
      BY <1>1, <1>2, <1>3
    <3> DEFINE a == Len(flat[k - 1])
               b == Len(seqs[k])
               c == Len(flat[k])
    <3>2. a \in Nat /\ b \in Nat /\ c = a + b /\ j \in 1 .. b /\ p = a + j
      BY <3>1
    <3> HIDE DEF a, b, c, p
    <3>3. p \in 1 .. c
      BY ONLY <3>2
    <3> QED BY <3>3 DEF c
  <2>3. k \in 0 .. N
    BY <1>1
  <2>4. Leads(k, N)
    BY <1>4, <2>3
  <2> HIDE DEF p
  <2>5. flat[N][p] = flat[k][p]
    BY <2>2, <2>4
  <2> QED BY <2>1, <2>5 DEF p
<1> HIDE DEF N
<1>8. N \in 0 .. N
  BY <1>1
<1>9. ASSUME NEW k \in 1 .. N PROVE Stands(flat[N], Len(flat[k - 1]) + 1, seqs[k])
  <2> DEFINE a == Len(flat[k - 1])
             b == Len(seqs[k])
             i == a + 1
             c == Len(flat[k])
             M == Len(flat[N])
  <2>1. a \in Nat /\ b \in Nat /\ c = a + b /\ c <= M /\ M \in Nat
    <3>1. a \in Nat
      BY <1>1, <1>2
    <3>2. b \in Nat /\ c = a + b
      BY <1>3
    <3>3. k \in 0 .. N
      BY <1>1
    <3>4. c <= M
      BY <1>4, <3>3
    <3>5. M \in Nat
      BY <1>2, <1>8
    <3> QED BY <3>1, <3>2, <3>4, <3>5
  <2>2. \A j \in 1 .. b : flat[N][a + j] = seqs[k][j]
    BY <1>7
  <2> HIDE DEF a, b, c, M
  <2>3. ASSUME NEW j \in 1 .. b, NEW n \in Nat, n + 1 = i + j PROVE n <= M /\ flat[N][n] = seqs[k][j]
    <3>1. n = a + j /\ n <= M
      BY <2>1, <2>3
    <3> QED BY <2>2, <3>1
  <2> QED BY <2>3 DEF Stands, a, b, M
<1>10. \A k \in 1 .. N : flat[k] = Behind(flat[k - 1], seqs[k])
  BY DEF FlatOf, N
<1>11. \A k \in 1 .. N : Len(flat[k]) = Len(flat[k - 1]) + Len(seqs[k]) /\ Len(seqs[k]) \in Nat
  BY <1>3
<1>12. \A k \in 1 .. N : Stands(flat[N], Len(flat[k - 1]) + 1, seqs[k])
  BY <1>9
<1> QED BY ONLY <1>2, <1>5, <1>6, <1>10, <1>11, <1>12 DEF N, Laid

LEMMA LaidOut ==
  ASSUME NEW T, NEW seqs \in Seq(Seq(T)), Len(seqs) # 0
  PROVE  \E flat : Laid(flat, seqs, T)
BY Flattened, FlatPlaces

\* The groups of six bits of a code point.
LEMMA Sixes ==
  ASSUME NEW c \in Nat
  PROVE  \E o \in Nat, l \in Nat, m \in Nat, r \in Nat :
           /\ l < 64 /\ m < 64 /\ r < 64
           /\ c = 262144 * o + 4096 * l + 64 * m + r
           /\ c \div 262144 = o /\ (c \div 4096) % 64 = l /\ (c \div 64) % 64 = m /\ c % 64 = r
           /\ c \div 64 = 4096 * o + 64 * l + m /\ c \div 4096 = 64 * o + l
<1> DEFINE q == c \div 64
           r == c % 64
           p == q \div 64
           m == q % 64
           o == p \div 64
           l == p % 64
<1>1. q \in Nat /\ r \in Nat /\ r < 64 /\ c = 64 * q + r
  OBVIOUS
<1>2. p \in Nat /\ m \in Nat /\ m < 64 /\ q = 64 * p + m
  <2> HIDE DEF q
  <2> QED BY <1>1
<1>3. o \in Nat /\ l \in Nat /\ l < 64 /\ p = 64 * o + l
  <2> HIDE DEF p
  <2> QED BY <1>2
<1> HIDE DEF q, r, p, m, o, l
<1>4. c \div 4096 = p
  <2> DEFINE t == 64 * m + r
  <2>1. t \in Nat /\ t < 4096 /\ c = 4096 * p + t
    BY <1>1, <1>2
  <2> HIDE DEF t
  <2> QED BY <1>2, <2>1
<1>5. c \div 262144 = o
  <2> DEFINE t == 4096 * l + 64 * m + r
  <2>1. t \in Nat /\ t < 262144 /\ c = 262144 * o + t
    BY <1>1, <1>2, <1>3
  <2> HIDE DEF t
  <2> QED BY <1>3, <2>1
<1>6. c = 262144 * o + 4096 * l + 64 * m + r /\ q = 4096 * o + 64 * l + m
  BY <1>1, <1>2, <1>3
<1>7. (c \div 4096) % 64 = l
  BY <1>4 DEF l
<1>8. q % 64 = m /\ c \div 64 = q /\ c % 64 = r
  BY DEF m, q, r
<1> QED BY <1>1, <1>2, <1>3, <1>4, <1>5, <1>6, <1>7, <1>8

\* The bytes e of a code point with its groups of bits.
Grouped(c, o, l, m, r, e) ==
  /\ l < 64 /\ m < 64 /\ r < 64
  /\ c = 262144 * o + 4096 * l + 64 * m + r
  /\ \/ c < 128 /\ e = <<c>>
     \/ o = 0 /\ l = 0 /\ m < 32 /\ c >= 128 /\ e = <<192 + m, 128 + r>>
     \/ o = 0 /\ l < 16 /\ c >= 128 /\ e = <<224 + l, 128 + m, 128 + r>>
     \/ o < 8 /\ c >= 128 /\ e = <<240 + o, 128 + l, 128 + m, 128 + r>>

\* What a character is as UTF-8.
LEMMA Utf8Encoded ==
  ASSUME NEW c \in Nat, c <= MaxCodePoint
  PROVE  \E o \in Nat, l \in Nat, m \in Nat, r \in Nat : Grouped(c, o, l, m, r, Utf8Encode(c))
<1>1. PICK o \in Nat, l \in Nat, m \in Nat, r \in Nat :
           /\ l < 64 /\ m < 64 /\ r < 64
           /\ c = 262144 * o + 4096 * l + 64 * m + r
           /\ c \div 262144 = o /\ (c \div 4096) % 64 = l /\ (c \div 64) % 64 = m /\ c % 64 = r
           /\ c \div 64 = 4096 * o + 64 * l + m /\ c \div 4096 = 64 * o + l
  BY Sixes
<1>2. ASSUME c <= 127 PROVE Grouped(c, o, l, m, r, Utf8Encode(c))
  <2>1. Utf8Encode(c) = <<c>> /\ c < 128
    BY <1>2 DEF Utf8Encode
  <2> QED BY ONLY <1>1, <2>1 DEF Grouped
<1>3. ASSUME ~(c <= 127) /\ c <= 2047 PROVE Grouped(c, o, l, m, r, Utf8Encode(c))
  <2>1. Utf8Encode(c) = <<192 + (c \div 64), 128 + (c % 64)>>
    BY <1>3 DEF Utf8Encode
  <2>2. o = 0 /\ l = 0 /\ m < 32 /\ c \div 64 = m /\ c >= 128
    BY <1>1, <1>3
  <2>3. Utf8Encode(c) = <<192 + m, 128 + r>>
    BY <1>1, <2>1, <2>2
  <2> QED BY ONLY <1>1, <2>2, <2>3 DEF Grouped
<1>4. ASSUME ~(c <= 2047) /\ c <= 65535 PROVE Grouped(c, o, l, m, r, Utf8Encode(c))
  <2>1. Utf8Encode(c) = <<224 + (c \div 4096), 128 + ((c \div 64) % 64), 128 + (c % 64)>>
    BY <1>4 DEF Utf8Encode
  <2>2. o = 0 /\ l < 16 /\ c \div 4096 = l /\ c >= 128
    BY <1>1, <1>4
  <2>3. Utf8Encode(c) = <<224 + l, 128 + m, 128 + r>>
    BY <1>1, <2>1, <2>2
  <2> QED BY ONLY <1>1, <2>2, <2>3 DEF Grouped
<1>5. ASSUME ~(c <= 65535) PROVE Grouped(c, o, l, m, r, Utf8Encode(c))
  <2>1. Utf8Encode(c) = <<240 + (c \div 262144), 128 + ((c \div 4096) % 64), 128 + ((c \div 64) % 64),
                          128 + (c % 64)>>
    BY <1>5 DEF Utf8Encode
  <2>2. o < 8 /\ c >= 128
    BY <1>1, <1>5 DEF MaxCodePoint
  <2>3. Utf8Encode(c) = <<240 + o, 128 + l, 128 + m, 128 + r>>
    BY <1>1, <2>1
  <2> QED BY ONLY <1>1, <2>2, <2>3 DEF Grouped
<1>6. \/ c <= 127
      \/ ~(c <= 127) /\ c <= 2047
      \/ ~(c <= 2047) /\ c <= 65535
      \/ ~(c <= 65535)
  OBVIOUS
<1>7. Grouped(c, o, l, m, r, Utf8Encode(c))
  BY <1>2, <1>3, <1>4, <1>5, <1>6
<1> QED BY <1>7

LEMMA DecodesOne ==
  ASSUME NEW s, NEW i \in Nat, NEW a \in Nat, a < 128, s[i] = a
  PROVE  Utf8Decode(s, i) = [len |-> 1, codepoint |-> a]
<1>1. Announced(s[i]) = 1
  BY DEF Announced
<1>2. ~\E k \in 1 .. Announced(s[i]) - 1 : ~Continues(s, i + k)
  BY <1>1
<1> QED BY <1>1, <1>2 DEF Utf8Decode

LEMMA DecodesTwo ==
  ASSUME NEW s, NEW i \in Nat, NEW a \in Nat, NEW b \in Nat, a < 32, b < 64,
         i + 1 <= Len(s), s[i] = 192 + a, s[i + 1] = 128 + b
  PROVE  Utf8Decode(s, i) = [len |-> 2, codepoint |-> 64 * a + b]
<1>1. Announced(s[i]) = 2
  BY DEF Announced
<1>2. Continues(s, i + 1)
  BY DEF Continues
<1>3. ~\E k \in 1 .. Announced(s[i]) - 1 : ~Continues(s, i + k)
  BY <1>1, <1>2
<1>4. (s[i] - 192) * 64 + (s[i + 1] - 128) = 64 * a + b
  OBVIOUS
<1> QED BY <1>1, <1>3, <1>4 DEF Utf8Decode

LEMMA DecodesThree ==
  ASSUME NEW s, NEW i \in Nat, NEW a \in Nat, NEW b \in Nat, NEW c \in Nat, a < 16, b < 64, c < 64,
         i + 1 <= Len(s), i + 2 <= Len(s), s[i] = 224 + a, s[i + 1] = 128 + b, s[i + 2] = 128 + c
  PROVE  Utf8Decode(s, i) = [len |-> 3, codepoint |-> 4096 * a + 64 * b + c]
<1>1. Announced(s[i]) = 3
  BY DEF Announced
<1>2. Continues(s, i + 1) /\ Continues(s, i + 2)
  BY DEF Continues
<1>3. \A k \in 1 .. 2 : k = 1 \/ k = 2
  OBVIOUS
<1>4. ~\E k \in 1 .. Announced(s[i]) - 1 : ~Continues(s, i + k)
  BY <1>1, <1>2, <1>3
<1>5. (s[i] - 224) * 4096 + (s[i + 1] - 128) * 64 + (s[i + 2] - 128) = 4096 * a + 64 * b + c
  OBVIOUS
<1> QED BY <1>1, <1>4, <1>5 DEF Utf8Decode

LEMMA DecodesFour ==
  ASSUME NEW s, NEW i \in Nat, s[i] \in Nat, s[i] >= 240, s[i] < 248,
         Continues(s, i + 1), Continues(s, i + 2), Continues(s, i + 3)
  PROVE  Utf8Decode(s, i) =
           [len |-> 4, codepoint |-> (s[i] - 240) * 262144 + (s[i + 1] - 128) * 4096 + (s[i + 2] - 128) * 64
                                     + (s[i + 3] - 128)]
<1>1. Announced(s[i]) = 4
  BY DEF Announced
<1>2. \A k \in 1 .. 3 : k = 1 \/ k = 2 \/ k = 3
  OBVIOUS
<1>3. ~\E k \in 1 .. Announced(s[i]) - 1 : ~Continues(s, i + k)
  BY <1>1, <1>2
<1>4. ~(Announced(s[i]) = 0) /\ ~(Announced(s[i]) = 1) /\ ~(Announced(s[i]) = 2) /\ ~(Announced(s[i]) = 3)
  BY <1>1
<1> QED BY ONLY <1>1, <1>3, <1>4 DEF Utf8Decode

\* utf8decode takes back what utf8encode makes.
LEMMA Utf8Decodes ==
  ASSUME NEW c \in Nat, c <= MaxCodePoint, NEW s, NEW i \in Nat, Stands(s, i, Utf8Encode(c))
  PROVE  Utf8Decode(s, i) = [len |-> Len(Utf8Encode(c)), codepoint |-> c]
<1> DEFINE e == Utf8Encode(c)
<1> HIDE DEF e
<1>1. PICK o \in Nat, l \in Nat, m \in Nat, r \in Nat : Grouped(c, o, l, m, r, e)
  BY Utf8Encoded DEF e
<1>2. \A k \in 1 .. Len(e), n \in Nat : n + 1 = i + k => n <= Len(s) /\ s[n] = e[k]
  BY DEF Stands, e
<1>3. /\ c = 262144 * o + 4096 * l + 64 * m + r /\ l < 64 /\ m < 64 /\ r < 64
  BY <1>1 DEF Grouped
<1>4. ASSUME c < 128, e = <<c>> PROVE Utf8Decode(s, i) = [len |-> Len(e), codepoint |-> c]
  <2>1. Len(e) = 1 /\ e[1] = c
    BY <1>4
  <2>2. s[i] = c
    BY <1>2, <2>1
  <2> QED BY <1>4, <2>1, <2>2, DecodesOne
<1>5. ASSUME o = 0, l = 0, m < 32, e = <<192 + m, 128 + r>>
      PROVE  Utf8Decode(s, i) = [len |-> Len(e), codepoint |-> c]
  <2>1. Len(e) = 2 /\ e[1] = 192 + m /\ e[2] = 128 + r
    BY <1>5
  <2>2. s[i] = 192 + m /\ i + 1 <= Len(s) /\ s[i + 1] = 128 + r
    BY <1>2, <2>1
  <2>3. Utf8Decode(s, i) = [len |-> 2, codepoint |-> 64 * m + r]
    BY <1>3, <1>5, <2>2, DecodesTwo
  <2>4. c = 64 * m + r
    BY <1>3, <1>5
  <2> QED BY <2>1, <2>3, <2>4
<1>6. ASSUME o = 0, l < 16, e = <<224 + l, 128 + m, 128 + r>>
      PROVE  Utf8Decode(s, i) = [len |-> Len(e), codepoint |-> c]
  <2>1. Len(e) = 3 /\ e[1] = 224 + l /\ e[2] = 128 + m /\ e[3] = 128 + r
    BY <1>6
  <2>2. /\ s[i] = 224 + l /\ i + 1 <= Len(s) /\ s[i + 1] = 128 + m
        /\ i + 2 <= Len(s) /\ s[i + 2] = 128 + r
    BY <1>2, <2>1
  <2>3. Utf8Decode(s, i) = [len |-> 3, codepoint |-> 4096 * l + 64 * m + r]
    BY <1>3, <1>6, <2>2, DecodesThree
  <2>4. c = 4096 * l + 64 * m + r
    BY <1>3, <1>6
  <2> QED BY <2>1, <2>3, <2>4
<1>7. ASSUME o < 8, e = <<240 + o, 128 + l, 128 + m, 128 + r>>
      PROVE  Utf8Decode(s, i) = [len |-> Len(e), codepoint |-> c]
  <2>1. Len(e) = 4 /\ e[1] = 240 + o /\ e[2] = 128 + l /\ e[3] = 128 + m /\ e[4] = 128 + r
    BY <1>7
  <2>2. /\ s[i] = 240 + o /\ i + 1 <= Len(s) /\ s[i + 1] = 128 + l
        /\ i + 2 <= Len(s) /\ s[i + 2] = 128 + m /\ i + 3 <= Len(s) /\ s[i + 3] = 128 + r
    BY <1>2, <2>1
  <2>3. s[i] \in Nat /\ s[i] >= 240 /\ s[i] < 248 /\ Continues(s, i + 1) /\ Continues(s, i + 2) /\ Continues(s, i + 3)
    BY <1>3, <1>7, <2>2 DEF Continues
  <2>4. Utf8Decode(s, i) =
          [len |-> 4, codepoint |-> (s[i] - 240) * 262144 + (s[i + 1] - 128) * 4096 + (s[i + 2] - 128) * 64
                                    + (s[i + 3] - 128)]
    BY ONLY <2>3, DecodesFour, i \in Nat
  <2>5. (s[i] - 240) * 262144 + (s[i + 1] - 128) * 4096 + (s[i + 2] - 128) * 64 + (s[i + 3] - 128) = c
    BY <1>3, <2>2
  <2> QED BY ONLY <2>1, <2>4, <2>5
<1>8. \/ c < 128 /\ e = <<c>>
      \/ o = 0 /\ l = 0 /\ m < 32 /\ e = <<192 + m, 128 + r>>
      \/ o = 0 /\ l < 16 /\ e = <<224 + l, 128 + m, 128 + r>>
      \/ o < 8 /\ e = <<240 + o, 128 + l, 128 + m, 128 + r>>
  BY <1>1 DEF Grouped
<1>9. Utf8Decode(s, i) = [len |-> Len(e), codepoint |-> c]
  BY <1>4, <1>5, <1>6, <1>7, <1>8
<1> QED BY <1>9 DEF e

LEMMA Utf8EncodedSeq ==
  ASSUME NEW c \in Nat, c <= MaxCodePoint
  PROVE  /\ Utf8Encode(c) \in Seq(Byte) /\ Len(Utf8Encode(c)) \in Nat /\ Len(Utf8Encode(c)) >= 1
         /\ c < 128 => Utf8Encode(c) = <<c>>
<1> DEFINE e == Utf8Encode(c)
<1> HIDE DEF e
<1>1. PICK o \in Nat, l \in Nat, m \in Nat, r \in Nat : Grouped(c, o, l, m, r, e)
  BY Utf8Encoded DEF e
<1>2. c < 128 => e = <<c>>
  BY <1>1 DEF Grouped
<1>3. /\ c < 128 => c \in Byte
      /\ m < 32 => 192 + m \in Byte
      /\ l < 16 => 224 + l \in Byte
      /\ o < 8 => 240 + o \in Byte
      /\ 128 + l \in Byte /\ 128 + m \in Byte /\ 128 + r \in Byte
  BY <1>1 DEF Byte, Grouped
<1> DEFINE m2 == 192 + m
           l3 == 224 + l
           o4 == 240 + o
           l2 == 128 + l
           m1 == 128 + m
           r1 == 128 + r
<1>4. \/ c < 128 /\ e = <<c>>
      \/ m < 32 /\ e = <<m2, r1>>
      \/ l < 16 /\ e = <<l3, m1, r1>>
      \/ o < 8 /\ e = <<o4, l2, m1, r1>>
  BY <1>1 DEF Grouped
<1>5. /\ c < 128 => c \in Byte
      /\ m < 32 => m2 \in Byte
      /\ l < 16 => l3 \in Byte
      /\ o < 8 => o4 \in Byte
      /\ l2 \in Byte /\ m1 \in Byte /\ r1 \in Byte
  BY ONLY <1>3
<1> HIDE DEF m2, l3, o4, l2, m1, r1
<1>6. e \in Seq(Byte) /\ Len(e) \in Nat /\ Len(e) >= 1
  <2>1. ASSUME NEW a \in Byte PROVE <<a>> \in Seq(Byte) /\ Len(<<a>>) = 1
    OBVIOUS
  <2>2. ASSUME NEW a \in Byte, NEW b \in Byte PROVE <<a, b>> \in Seq(Byte) /\ Len(<<a, b>>) = 2
    OBVIOUS
  <2>3. ASSUME NEW a \in Byte, NEW b \in Byte, NEW d \in Byte
        PROVE  <<a, b, d>> \in Seq(Byte) /\ Len(<<a, b, d>>) = 3
    OBVIOUS
  <2>4. ASSUME NEW a \in Byte, NEW b \in Byte, NEW d \in Byte, NEW f \in Byte
        PROVE  <<a, b, d, f>> \in Seq(Byte) /\ Len(<<a, b, d, f>>) = 4
    OBVIOUS
  <2>5. ASSUME c < 128, e = <<c>> PROVE e \in Seq(Byte) /\ Len(e) = 1
    BY ONLY <1>5, <2>1, <2>5
  <2>6. ASSUME m < 32, e = <<m2, r1>> PROVE e \in Seq(Byte) /\ Len(e) = 2
    BY ONLY <1>5, <2>2, <2>6
  <2>7. ASSUME l < 16, e = <<l3, m1, r1>> PROVE e \in Seq(Byte) /\ Len(e) = 3
    BY ONLY <1>5, <2>3, <2>7
  <2>8. ASSUME o < 8, e = <<o4, l2, m1, r1>> PROVE e \in Seq(Byte) /\ Len(e) = 4
    BY ONLY <1>5, <2>4, <2>8
  <2>9. e \in Seq(Byte) /\ (Len(e) = 1 \/ Len(e) = 2 \/ Len(e) = 3 \/ Len(e) = 4)
    BY ONLY <1>4, <2>5, <2>6, <2>7, <2>8, Zenon
  <2> DEFINE n == Len(e)
  <2>10. n = 1 \/ n = 2 \/ n = 3 \/ n = 4
    BY <2>9
  <2> HIDE DEF n
  <2>11. n \in Nat /\ n >= 1
    BY ONLY <2>10
  <2> QED BY <2>9, <2>11 DEF n
<1> QED BY <1>2, <1>6 DEF e

\* utf16decode takes back what utf16encode makes, but for lone surrogates.
LEMMA Utf16Decodes ==
  ASSUME NEW c \in Character, NEW s, Len(s) \in Nat, NEW i \in Nat, Stands(s, i, Utf16Encode(c))
  PROVE  Utf16Decode(s, i) = [len |-> Len(Utf16Encode(c)), codepoint |-> c]
<1> DEFINE e == Utf16Encode(c)
<1>1. c \in Nat /\ c <= MaxCodePoint /\ (c < 55296 \/ 57344 <= c)
  BY DEF Character
<1>2. \A k \in 1 .. Len(e), n \in Nat : n + 1 = i + k => n <= Len(s) /\ s[n] = e[k]
  BY DEF Stands
<1>3. CASE c <= 65535
  <2>1. e = <<c>>
    BY <1>1, <1>3, Utf16Encoded
  <2> HIDE DEF e
  <2>2. Len(e) = 1 /\ e[1] = c
    BY <2>1
  <2>3. s[i] = c
    BY <1>2, <2>2
  <2>4. ~High(s[i])
    BY <1>1, <2>3 DEF High
  <2> QED BY <2>2, <2>3, <2>4 DEF Utf16Decode, e
<1>4. CASE ~(c <= 65535)
  <2> DEFINE d == c - 65536
             q == d \div 1024
             r == d % 1024
  <2>1. d \in Nat /\ d < 1048576 /\ c = 65536 + d
    BY <1>1, <1>4 DEF MaxCodePoint
  <2>2. q \in Nat /\ r \in Nat /\ r < 1024 /\ d = 1024 * q + r
    <3> HIDE DEF d
    <3> QED BY <2>1
  <2>3. e = <<55296 + q, 56320 + r>>
    <3>1. c > 65535 /\ c <= MaxCodePoint
      BY <1>1, <1>4
    <3> QED BY <1>1, <3>1, Utf16Encoded DEF d
  <2> HIDE DEF e, q, r, d
  <2>4. q < 1024
    BY <2>1, <2>2
  <2>5. Len(e) = 2 /\ e[1] = 55296 + q /\ e[2] = 56320 + r
    BY <2>3
  <2>6. s[i] = 55296 + q /\ i + 1 <= Len(s) /\ s[i + 1] = 56320 + r
    BY <1>2, <2>5
  <2>7. High(s[i]) /\ Low(s[i + 1])
    BY <2>2, <2>4, <2>6 DEF High, Low
  <2>8. 65536 + (s[i] - 55296) * 1024 + (s[i + 1] - 56320) = c
    BY <2>1, <2>2, <2>6
  <2>9. i < Len(s)
    <3> DEFINE N == Len(s)
    <3>1. i + 1 <= N /\ N \in Nat
      BY <2>6
    <3> HIDE DEF N
    <3>2. i < N
      BY <3>1
    <3> QED BY <3>2 DEF N
  <2> QED BY <2>5, <2>7, <2>8, <2>9 DEF Utf16Decode, e
<1> QED BY <1>3, <1>4

\* A loop that takes n turns and then rests.
LEMMA IterateReaches ==
  ASSUME NEW turn, NEW init, NEW n \in Nat, NEW S, init \in S[0],
         \A k \in Nat : k < n => \A st \in S[k] : turn[st] \in S[k + 1],
         \A st \in S[n] : turn[st] = st,
         NEW m \in Nat, n <= m
  PROVE  Iterate(turn, init, m) \in S[n]
<1> DEFINE It(k) == Iterate(turn, init, k)
           I == {k \in Nat : k <= n => It(k) \in S[k]}
           J == {k \in Nat : n <= k => It(k) \in S[n]}
<1>1. /\ It(0) = init
      /\ \A k \in Nat : It(k + 1) = turn[It(k)]
  <2>1. ASSUME NEW k \in Nat PROVE It(k + 1) = turn[It(k)]
    <3>1. \A j \in Nat : j = k + 1 => It(j) = turn[It(k)]
      BY IterateUnfolds
    <3> HIDE DEF It
    <3> QED BY <3>1
  <2> QED BY <2>1, IterateUnfolds
<1> HIDE DEF It
<1>2. 0 \in I
  BY <1>1
<1>3. ASSUME NEW k \in Nat, k \in I PROVE k + 1 \in I
  BY <1>1, <1>3
<1> HIDE DEF I
<1>4. Nat \subseteq I
  BY <1>2, <1>3, SetInduction
<1>5. It(n) \in S[n]
  BY <1>4 DEF I
<1>6. 0 \in J
  BY <1>5
<1>7. ASSUME NEW k \in Nat, k \in J PROVE k + 1 \in J
  <2>1. CASE n <= k
    BY <1>1, <1>7, <2>1
  <2>2. CASE n = k + 1
    BY <1>5, <2>2
  <2>3. CASE n > k + 1
    BY <2>3
  <2> QED BY <2>1, <2>2, <2>3
<1> HIDE DEF J
<1>8. Nat \subseteq J
  BY <1>6, <1>7, SetInduction
<1> QED BY <1>8 DEF J, It

LEMMA LaidLong ==
  ASSUME NEW T, NEW seqs \in Seq(Seq(T)), NEW flat, Laid(flat, seqs, T),
         \A k \in 1 .. Len(seqs) : Len(seqs[k]) >= 1
  PROVE  Len(seqs) <= Len(FlattenSeq(seqs)) /\ Len(FlattenSeq(seqs)) \in Nat
<1> DEFINE N == Len(seqs)
           I == {k \in Nat : k <= N => k <= Len(flat[k])}
<1>1. N \in Nat /\ \A k \in 1 .. N : Len(seqs[k]) \in Nat
  BY LenProperties, ElementOfSeq
<1>2. 0 \in I
  BY DEF Laid
<1>3. ASSUME NEW k \in Nat, k \in I PROVE k + 1 \in I
  <2> DEFINE n == k + 1
  <2> SUFFICES ASSUME n <= N PROVE n <= Len(flat[n])
    OBVIOUS
  <2>1. n \in 1 .. N /\ n - 1 = k /\ k \in 0 .. N /\ k <= N
    BY <1>1
  <2>2. k <= Len(flat[k])
    BY <1>3, <2>1
  <2> HIDE DEF n
  <2>3. Len(flat[n]) = Len(flat[k]) + Len(seqs[n]) /\ Len(flat[k]) \in Nat
    BY <2>1 DEF Laid
  <2>4. Len(seqs[n]) >= 1 /\ Len(seqs[n]) \in Nat
    BY <1>1, <2>1
  <2> DEFINE a == Len(flat[k])
             b == Len(seqs[n])
  <2>5. a \in Nat /\ b \in Nat /\ b >= 1 /\ k <= a /\ n = k + 1 /\ Len(flat[n]) = a + b
    BY <2>2, <2>3, <2>4 DEF n
  <2> HIDE DEF a, b
  <2> QED BY ONLY <2>5, k \in Nat
<1> HIDE DEF I
<1>4. Nat \subseteq I
  BY <1>2, <1>3, SetInduction
<1>5. N <= Len(flat[N])
  BY <1>1, <1>4 DEF I
<1>6. N \in 0 .. N
  BY <1>1
<1> QED BY <1>5, <1>6 DEF Laid

\* Characters with their terminating 0.
Words(chars) ==
  /\ chars \in Seq(Character) /\ Len(chars) > 0 /\ chars[Len(chars)] = 0
  /\ \A k \in 1 .. Len(chars) - 1 : chars[k] # 0

Octets(chars) == [k \in DOMAIN chars |-> Utf8Encode(chars[k])]
Wides(chars) == [k \in DOMAIN chars |-> Utf16Encode(chars[k])]
Natives(chars) == [k \in DOMAIN chars |-> Native(chars[k])]

LEMMA WordsAre ==
  ASSUME NEW chars, Words(chars)
  PROVE  /\ Len(chars) \in Nat /\ Len(chars) >= 1 /\ DOMAIN chars = 1 .. Len(chars)
         /\ \A k \in 1 .. Len(chars) :
              /\ chars[k] \in Character /\ chars[k] \in Nat /\ chars[k] <= MaxCodePoint
              /\ chars[k] = 0 <=> k = Len(chars)
<1>1. Len(chars) \in Nat /\ DOMAIN chars = 1 .. Len(chars) /\ \A k \in 1 .. Len(chars) : chars[k] \in Character
  BY LenProperties, ElementOfSeq DEF Words
<1>2. Len(chars) >= 1
  BY <1>1 DEF Words
<1>3. \A k \in 1 .. Len(chars) : chars[k] \in Nat /\ chars[k] <= MaxCodePoint
  BY <1>1 DEF Character
<1>4. ASSUME NEW k \in 1 .. Len(chars) PROVE chars[k] = 0 <=> k = Len(chars)
  <2>1. CASE k = Len(chars)
    BY <2>1 DEF Words
  <2>2. CASE k # Len(chars)
    <3> DEFINE N == Len(chars)
    <3>1. N \in Nat /\ k \in 1 .. N /\ k # N
      BY <1>1, <2>2
    <3> HIDE DEF N
    <3>2. k \in 1 .. N - 1
      BY ONLY <3>1
    <3> QED BY <2>2, <3>2 DEF Words, N
  <2> QED BY <2>1, <2>2
<1> QED BY <1>1, <1>2, <1>3, <1>4

LEMMA OctetsAre ==
  ASSUME NEW chars, Words(chars)
  PROVE  /\ Octets(chars) \in Seq(Seq(Byte)) /\ Len(Octets(chars)) = Len(chars)
         /\ \A k \in 1 .. Len(chars) :
              /\ Octets(chars)[k] = Utf8Encode(chars[k])
              /\ Len(Octets(chars)[k]) \in Nat /\ Len(Octets(chars)[k]) >= 1
<1>1. Len(chars) \in Nat /\ DOMAIN chars = 1 .. Len(chars)
  BY WordsAre
<1>2. ASSUME NEW k \in 1 .. Len(chars)
      PROVE  /\ Utf8Encode(chars[k]) \in Seq(Byte)
             /\ Len(Utf8Encode(chars[k])) \in Nat /\ Len(Utf8Encode(chars[k])) >= 1
  <2>1. chars[k] \in Nat /\ chars[k] <= MaxCodePoint
    BY WordsAre
  <2> QED BY <2>1, Utf8EncodedSeq
<1> DEFINE T == Seq(Byte)
           E(k) == Utf8Encode(chars[k])
<1>3. \A k \in 1 .. Len(chars) : E(k) \in T
  BY <1>2
<1>4. Octets(chars) = [k \in 1 .. Len(chars) |-> E(k)]
  BY <1>1 DEF Octets
<1> HIDE DEF T, E
<1>5. /\ Octets(chars) \in Seq(T) /\ Len(Octets(chars)) = Len(chars)
      /\ \A k \in 1 .. Len(chars) : Octets(chars)[k] = E(k)
  BY <1>1, <1>3, <1>4
<1> QED BY <1>2, <1>5 DEF T, E

LEMMA WidesAre ==
  ASSUME NEW chars, Len(chars) \in Nat, DOMAIN chars = 1 .. Len(chars),
         \A k \in 1 .. Len(chars) : chars[k] \in Nat /\ chars[k] <= MaxCodePoint
  PROVE  /\ Wides(chars) \in Seq(Seq(Nat)) /\ Len(Wides(chars)) = Len(chars)
         /\ \A k \in 1 .. Len(chars) :
              /\ Wides(chars)[k] = Utf16Encode(chars[k])
              /\ Wides(chars)[k] # <<>>
              /\ Len(Wides(chars)[k]) \in Nat /\ Len(Wides(chars)[k]) >= 1
<1>1. ASSUME NEW k \in 1 .. Len(chars)
      PROVE  /\ Utf16Encode(chars[k]) \in Seq(Nat) /\ Utf16Encode(chars[k]) # <<>>
             /\ Len(Utf16Encode(chars[k])) \in Nat /\ Len(Utf16Encode(chars[k])) >= 1
  <2> DEFINE c == chars[k]
  <2>1. c \in Nat /\ c <= MaxCodePoint
    OBVIOUS
  <2> HIDE DEF c
  <2>2. Utf16Encode(c) \in Seq(Nat)
    BY ONLY <2>1, Utf16EncodedSeq
  <2>3. Utf16Encode(c) = <<>> <=> c > MaxCodePoint
    BY ONLY <2>1, Utf16EncodedSeq
  <2>4. ~(c > MaxCodePoint)
    BY <2>1 DEF MaxCodePoint
  <2> DEFINE u == Utf16Encode(c)
  <2>5. u \in Seq(Nat) /\ u # <<>>
    BY ONLY <2>2, <2>3, <2>4
  <2> HIDE DEF u
  <2>6. Len(u) \in Nat /\ Len(u) >= 1
    BY ONLY <2>5, LenProperties, EmptySeq
  <2> QED BY <2>5, <2>6 DEF c, u
<1> DEFINE T == Seq(Nat)
           E(k) == Utf16Encode(chars[k])
<1>2. \A k \in 1 .. Len(chars) : E(k) \in T
  BY <1>1
<1>3. Wides(chars) = [k \in 1 .. Len(chars) |-> E(k)]
  BY DEF Wides
<1> HIDE DEF T, E
<1>4. /\ Wides(chars) \in Seq(T) /\ Len(Wides(chars)) = Len(chars)
      /\ \A k \in 1 .. Len(chars) : Wides(chars)[k] = E(k)
  BY <1>2, <1>3
<1> QED BY <1>1, <1>4 DEF T, E

LEMMA NativesAre ==
  ASSUME NEW chars, Words(chars)
  PROVE  /\ Len(Natives(chars)) = Len(chars) /\ DOMAIN Natives(chars) = 1 .. Len(chars)
         /\ Natives(chars) \in Seq(Character)
         /\ \A k \in 1 .. Len(chars) :
              /\ Natives(chars)[k] = Native(chars[k])
              /\ Natives(chars)[k] \in Nat /\ Natives(chars)[k] <= MaxCodePoint
         /\ Words(Natives(chars))
<1>1. Len(chars) \in Nat /\ DOMAIN chars = 1 .. Len(chars) /\ Len(chars) >= 1
  BY WordsAre
<1>2. ASSUME NEW c \in Character
      PROVE  Native(c) \in Character /\ Native(c) \in Nat /\ Native(c) <= MaxCodePoint /\ (Native(c) = 0 <=> c = 0)
  BY DEF Character, Native, Slash, Backslash, MaxCodePoint
<1>3. \A k \in 1 .. Len(chars) : chars[k] \in Character /\ (chars[k] = 0 <=> k = Len(chars))
  BY WordsAre
<1> DEFINE E(k) == Native(chars[k])
<1>4. \A k \in 1 .. Len(chars) :
        E(k) \in Character /\ E(k) \in Nat /\ E(k) <= MaxCodePoint /\ (E(k) = 0 <=> k = Len(chars))
  BY <1>2, <1>3
<1>5. Natives(chars) = [k \in 1 .. Len(chars) |-> E(k)]
  BY <1>1 DEF Natives
<1> HIDE DEF E
<1> DEFINE N == Len(chars)
           f == Natives(chars)
<1> HIDE DEF N, f
<1>6. f \in Seq(Character) /\ Len(f) = N /\ DOMAIN f = 1 .. N /\ \A k \in 1 .. N : f[k] = E(k)
  <2>1. N \in Nat /\ f = [k \in 1 .. N |-> E(k)] /\ \A k \in 1 .. N : E(k) \in Character
    BY <1>1, <1>4, <1>5 DEF N, f
  <2>2. DOMAIN f = 1 .. N /\ \A k \in 1 .. N : f[k] = E(k)
    BY ONLY <2>1
  <2>3. f \in Seq(Character) /\ Len(f) = N
    BY ONLY <2>1
  <2> QED BY <2>2, <2>3
<1>7. Words(f)
  <2>1. N \in 1 .. N /\ (\A k \in 1 .. N - 1 : k \in 1 .. N /\ k # N) /\ N > 0
    <3>1. N \in Nat /\ N >= 1
      BY <1>1 DEF N
    <3> QED BY ONLY <3>1
  <2>2. \A k \in 1 .. N : f[k] = 0 <=> k = N
    BY <1>4, <1>6 DEF N
  <2>3. f[N] = 0 /\ \A k \in 1 .. N - 1 : f[k] # 0
    BY <2>1, <2>2
  <2> QED BY <1>6, <2>1, <2>3 DEF Words
<1>8. \A k \in 1 .. N : f[k] = Native(chars[k]) /\ f[k] \in Nat /\ f[k] <= MaxCodePoint
  BY <1>4, <1>6 DEF N, E
<1> QED BY <1>6, <1>7, <1>8 DEF f, N

\* The bytes of a text are a string of C.
LEMMA TextString ==
  ASSUME NEW chars, Words(chars), NEW flat, Laid(flat, Octets(chars), Byte)
  PROVE  /\ CString(Utf8(chars)) /\ Len(chars) <= Len(Utf8(chars)) /\ Len(Utf8(chars)) \in Nat
         /\ Utf8(chars) = FlattenSeq(Octets(chars))
<1> DEFINE N == Len(chars)
           s == FlattenSeq(Octets(chars))
<1>1. N \in Nat /\ N >= 1 /\ \A k \in 1 .. N : chars[k] \in Nat /\ chars[k] <= MaxCodePoint /\ (chars[k] = 0 <=> k = N)
  BY WordsAre
<1>2. /\ Octets(chars) \in Seq(Seq(Byte)) /\ Len(Octets(chars)) = N
      /\ \A k \in 1 .. N : Octets(chars)[k] = Utf8Encode(chars[k]) /\ Len(Octets(chars)[k]) >= 1
  BY OctetsAre
<1>3. Utf8(chars) = s
  BY DEF Utf8, Octets
<1>4. N <= Len(s) /\ Len(s) \in Nat
  BY <1>2, LaidLong
<1> HIDE DEF N, s
<1>5. N \in 1 .. N
  BY <1>1
<1>6. Octets(chars)[N] = <<0>>
  <2>1. chars[N] = 0
    BY <1>1, <1>5
  <2>2. Utf8Encode(0) = <<0>>
    BY DEF Utf8Encode
  <2> QED BY <1>2, <1>5, <2>1, <2>2
<1>7. /\ flat[N] = s /\ flat[N] \in Seq(Byte) /\ Len(flat[N]) = Len(flat[N - 1]) + Len(Octets(chars)[N])
      /\ Len(flat[N - 1]) \in Nat
      /\ Stands(s, Len(flat[N - 1]) + 1, Octets(chars)[N])
  <2>1. N \in 0 .. N /\ N - 1 \in 0 .. N
    BY <1>1
  <2> QED BY <1>2, <1>5, <2>1 DEF Laid, s
<1>8. s[Len(s)] = 0
  <2> DEFINE e == <<0>>
             a == Len(flat[N - 1])
             n == a + 1
  <2>1. Len(e) = 1 /\ e[1] = 0
    OBVIOUS
  <2>2. Stands(s, a + 1, e) /\ a \in Nat /\ Len(s) = a + Len(e)
    BY <1>6, <1>7
  <2> HIDE DEF e, a
  <2>3. Len(s) = n /\ n \in Nat /\ n + 1 = a + 1 + 1 /\ 1 \in 1 .. Len(e)
    BY <2>1, <2>2
  <2> HIDE DEF n
  <2>4. s[n] = e[1]
    BY <2>2, <2>3 DEF Stands
  <2> QED BY <2>1, <2>3, <2>4
<1>9. CString(s)
  <2> DEFINE M == Len(s)
  <2>1. M \in Nat /\ N <= M /\ N >= 1
    BY <1>1, <1>4
  <2> HIDE DEF M
  <2>2. M > 0
    BY ONLY <2>1, <1>1
  <2> QED BY <1>7, <1>8, <2>2 DEF CString, M
<1> QED BY ONLY <1>3, <1>4, <1>9 DEF N, s

\* utf8to16 turns a text into its units, with the separators of Windows.
LEMMA Utf8to16Converts ==
  ASSUME NEW chars, Words(chars)
  PROVE  /\ CString(Utf8(chars))
         /\ Utf8to16(Utf8(chars)).out = Utf16(Natives(chars))
         /\ Utf8to16(Utf8(chars)).error = FALSE
<1> DEFINE N == Len(chars)
           nat == Natives(chars)
           oct == Octets(chars)
           wide == Wides(nat)
           s == Utf8(chars)
           turn == [st \in Locals |-> Utf8to16Turn(s, st)]
<1>1. /\ N \in Nat /\ N >= 1
      /\ \A k \in 1 .. N : chars[k] \in Nat /\ chars[k] <= MaxCodePoint /\ (chars[k] = 0 <=> k = N)
  BY WordsAre
<1>2. /\ oct \in Seq(Seq(Byte)) /\ Len(oct) = N
      /\ \A k \in 1 .. N : oct[k] = Utf8Encode(chars[k]) /\ Len(oct[k]) \in Nat /\ Len(oct[k]) >= 1
  BY OctetsAre
<1>3. /\ Len(nat) = N /\ DOMAIN nat = 1 .. N
      /\ \A k \in 1 .. N : nat[k] = Native(chars[k]) /\ nat[k] \in Nat /\ nat[k] <= MaxCodePoint
  BY NativesAre
<1>4. /\ wide \in Seq(Seq(Nat)) /\ Len(wide) = N
      /\ \A k \in 1 .. N : wide[k] = Utf16Encode(nat[k]) /\ wide[k] # <<>>
  BY <1>1, <1>3, WidesAre
<1>5. PICK f8 : Laid(f8, oct, Byte)
  BY <1>1, <1>2, LaidOut
<1>6. PICK f16 : Laid(f16, wide, Nat)
  BY <1>1, <1>4, LaidOut
<1>7. CString(s) /\ N <= Len(s) /\ Len(s) \in Nat /\ s = FlattenSeq(oct)
  BY <1>5, TextString
<1>8. Utf16(nat) = FlattenSeq(wide)
  BY DEF Utf16, Wides
<1> HIDE DEF N, nat, oct, wide, s, turn
<1> DEFINE At(k, st) == /\ st \in Locals /\ st.at = Len(f8[k]) + 1 /\ st.out = f16[k]
                        /\ st.error = FALSE /\ (st.done = TRUE <=> k = N)
           S == [k \in Nat |-> {st \in Locals : At(k, st)}]
<1>9. Begin \in S[0]
  <2>1. Len(f8[0]) = 0 /\ f16[0] = <<>>
    BY <1>5, <1>6 DEF Laid
  <2> QED BY <1>1, <2>1, BeginIs
<1>10. ASSUME NEW k \in Nat, k < N, NEW st \in S[k] PROVE turn[st] \in S[k + 1]
  <2> DEFINE n == k + 1
             i == Len(f8[k]) + 1
             c == chars[n]
             d == Utf8Decode(s, i)
             u == Utf16Encode(Native(c))
             new == Utf8to16Turn(s, st)
  <2>1. n \in 1 .. N /\ n - 1 = k /\ k \in 0 .. N /\ n \in Nat
    BY <1>1, <1>10
  <2>2. At(k, st)
    BY <1>10
  <2>3. st \in Locals /\ st.at = i /\ st.out = f16[k] /\ st.error = FALSE /\ st.done = FALSE
    BY <1>10, <2>2, LocalsFields
  <2>4. c \in Nat /\ c <= MaxCodePoint /\ (c = 0 <=> n = N) /\ oct[n] = Utf8Encode(c) /\ wide[n] = u
        /\ u # <<>> /\ Len(oct[n]) \in Nat /\ Len(oct[n]) >= 1
    BY <1>1, <1>2, <1>3, <1>4, <2>1
  <2> HIDE DEF n, c, u
  <2>5. /\ Stands(s, i, oct[n]) /\ Len(f8[n]) = Len(f8[k]) + Len(oct[n]) /\ Len(f8[k]) \in Nat
    BY <1>2, <1>5, <1>7, <2>1 DEF Laid
  <2>6. f16[n] = Behind(f16[k], u)
    BY <1>4, <1>6, <2>1, <2>4 DEF Laid
  <2>7. d = [len |-> Len(oct[n]), codepoint |-> c]
    <3>1. i \in Nat
      BY <2>5
    <3> HIDE DEF i
    <3> QED BY <2>4, <2>5, <3>1, Utf8Decodes
  <2>8. d.len = Len(oct[n]) /\ d.codepoint = c
    BY <2>7
  <2> HIDE DEF d, i
  <2>9. Units(st, d, u, new)
    <3>1. /\ Utf8Decode(s, st.at) = d /\ Utf16Encode(Native(Utf8Decode(s, st.at).codepoint)) = u
      BY <2>3, <2>8 DEF d, u
    <3>2. Utf8Decode(s, st.at).len \in Nat /\ Utf8Decode(s, st.at).codepoint \in Nat
      BY <2>4, <2>8, <3>1
    <3>3. Units(st, Utf8Decode(s, st.at), Utf16Encode(Native(Utf8Decode(s, st.at).codepoint)), new)
      BY <2>3, <3>2, Utf8to16Turned
    <3> QED BY <3>1, <3>3
  <2> HIDE DEF new
  <2>10. /\ new \in Locals /\ new.at = st.at + d.len /\ new.out = st.out \o u
         /\ new.error = st.error /\ new.done = (d.codepoint = 0)
    <3>1. d.len # 0
      BY <2>4, <2>8
    <3> QED BY <2>4, <2>9, <3>1, Zenon DEF Units
  <2>11. new.at = Len(f8[n]) + 1
    <3> DEFINE a == Len(f8[k])
               b == Len(oct[n])
               m == Len(f8[n])
    <3>1. new.at = a + 1 + b /\ m = a + b /\ a \in Nat /\ b \in Nat
      BY <2>3, <2>4, <2>5, <2>8, <2>10 DEF i
    <3> HIDE DEF a, b, m
    <3>2. new.at = m + 1
      BY ONLY <3>1
    <3> QED BY <3>2 DEF m
  <2>12. new.out = f16[n]
    <3>1. new.out = Behind(f16[k], u)
      BY <2>3, <2>10 DEF Behind
    <3> QED BY <2>6, <3>1
  <2>13. new.done = TRUE <=> n = N
    BY <2>4, <2>8, <2>10
  <2>14. At(n, new)
    BY <2>3, <2>10, <2>11, <2>12, <2>13
  <2>15. turn[st] = new
    BY <2>3 DEF turn, new
  <2> QED BY <2>1, <2>10, <2>14, <2>15 DEF n
<1>11. ASSUME NEW st \in S[N] PROVE turn[st] = st
  <2>1. st \in Locals /\ st.done = TRUE
    BY <1>1
  <2>2. Utf8to16Turn(s, st) = st
    BY <2>1, Zenon DEF Utf8to16Turn
  <2> QED BY <2>1, <2>2 DEF turn
<1>12. Iterate(turn, Begin, Len(s)) \in S[N]
  <2> HIDE DEF S
  <2> QED BY <1>1, <1>7, <1>9, <1>10, <1>11, IterateReaches
<1>13. Utf8to16(s) = Iterate(turn, Begin, Len(s))
  BY Zenon DEF Utf8to16, turn
<1>14. Utf8to16(s).out = f16[N] /\ Utf8to16(s).error = FALSE
  BY <1>1, <1>12, <1>13
<1>15. f16[N] = FlattenSeq(wide)
  BY <1>4, <1>6 DEF Laid
<1> QED BY <1>7, <1>8, <1>14, <1>15 DEF s, nat

\* A turn that takes in the character d and counts the bytes b.
Tallies(st, d, b, new) ==
  d.len # 0 =>
    /\ new \in Locals /\ new.at = st.at + d.len /\ new.out = st.out /\ new.len = st.len + Len(b)
    /\ new.error = st.error /\ new.done = (d.codepoint = 0)

LEMMA Utf16to8LenTurned ==
  ASSUME NEW s, NEW st \in Locals, st.done = FALSE, Utf16Decode(s, st.at).len \in Nat,
         Len(Utf8Encode(Utf16Decode(s, st.at).codepoint)) \in Nat
  PROVE  Tallies(st, Utf16Decode(s, st.at), Utf8Encode(Utf16Decode(s, st.at).codepoint), Utf16to8LenTurn(s, st))
<1> DEFINE d == Utf16Decode(s, st.at)
           b == Utf8Encode(d.codepoint)
           new == Utf16to8LenTurn(s, st)
<1>1. Len(b) \in Nat /\ d.len \in Nat
  OBVIOUS
<1> HIDE DEF d, b, new
<1>2. ASSUME d.len # 0
      PROVE  /\ new \in Locals /\ new.at = st.at + d.len /\ new.out = st.out /\ new.len = st.len + Len(b)
             /\ new.error = st.error /\ new.done = (d.codepoint = 0)
  <2> DEFINE at == st.at + d.len
             len == st.len + Len(b)
             done == d.codepoint = 0
  <2>1. at \in Nat /\ len \in Nat /\ st.out \in Seq(Nat)
    BY <1>1, LocalsFields
  <2>2. done \in BOOLEAN
    OBVIOUS
  <2>3. new = [st EXCEPT !.at = at, !.len = len, !.done = done]
    BY <1>2, Zenon DEF Utf16to8LenTurn, d, b, new
  <2> HIDE DEF at, len, done
  <2>4. /\ new \in Locals /\ new.at = at /\ new.out = st.out /\ new.len = len
        /\ new.error = st.error /\ new.done = done
    BY ONLY st \in Locals, <2>1, <2>2, <2>3, Zenon DEF Locals
  <2> QED BY <2>4, Zenon DEF at, len, done
<1> QED BY <1>2, Zenon DEF Tallies, d, b, new

\* utf16to8len counts the bytes of a text in UTF-8.
LEMMA Utf16to8LenCounts ==
  ASSUME NEW chars, Words(chars)
  PROVE  Utf16to8Len(Utf16(chars)).len = Len(Utf8(chars))
<1> DEFINE N == Len(chars)
           oct == Octets(chars)
           wide == Wides(chars)
           s == Utf16(chars)
           turn == [st \in Locals |-> Utf16to8LenTurn(s, st)]
<1>1. /\ N \in Nat /\ N >= 1 /\ DOMAIN chars = 1 .. N
      /\ \A k \in 1 .. N : chars[k] \in Character /\ chars[k] \in Nat /\ chars[k] <= MaxCodePoint /\ (chars[k] = 0 <=> k = N)
  BY WordsAre
<1>2. /\ oct \in Seq(Seq(Byte)) /\ Len(oct) = N
      /\ \A k \in 1 .. N : oct[k] = Utf8Encode(chars[k]) /\ Len(oct[k]) \in Nat /\ Len(oct[k]) >= 1
  BY OctetsAre
<1>3. /\ wide \in Seq(Seq(Nat)) /\ Len(wide) = N
      /\ \A k \in 1 .. N : wide[k] = Utf16Encode(chars[k]) /\ Len(wide[k]) \in Nat /\ Len(wide[k]) >= 1
  BY <1>1, WidesAre
<1>4. PICK f8 : Laid(f8, oct, Byte)
  <2> HIDE DEF oct, N
  <2>1. oct \in Seq(Seq(Byte)) /\ Len(oct) # 0
    BY <1>1, <1>2
  <2> QED BY ONLY <2>1, LaidOut
<1>5. PICK f16 : Laid(f16, wide, Nat)
  <2> HIDE DEF wide, N
  <2>1. wide \in Seq(Seq(Nat)) /\ Len(wide) # 0
    BY <1>1, <1>3
  <2> QED BY ONLY <2>1, LaidOut
<1>6. s = FlattenSeq(wide)
  BY DEF Utf16, Wides
<1>7. N <= Len(s) /\ Len(s) \in Nat
  BY <1>3, <1>5, <1>6, LaidLong
<1>8. Utf8(chars) = FlattenSeq(oct)
  BY DEF Utf8, Octets
<1> HIDE DEF N, oct, wide, s, turn
<1> DEFINE At(k, st) == /\ st \in Locals /\ st.at = Len(f16[k]) + 1 /\ st.len = Len(f8[k])
                        /\ (st.done = TRUE <=> k = N)
           S == [k \in Nat |-> {st \in Locals : At(k, st)}]
<1>9. Begin \in S[0]
  <2>1. Len(f8[0]) = 0 /\ Len(f16[0]) = 0
    BY <1>4, <1>5 DEF Laid
  <2> QED BY <1>1, <2>1, BeginIs
<1>10. ASSUME NEW k \in Nat, k < N, NEW st \in S[k] PROVE turn[st] \in S[k + 1]
  <2> DEFINE n == k + 1
             i == Len(f16[k]) + 1
             c == chars[n]
             d == Utf16Decode(s, i)
             new == Utf16to8LenTurn(s, st)
  <2>1. n \in 1 .. N /\ n - 1 = k /\ k \in 0 .. N /\ n \in Nat
    BY <1>1, <1>10
  <2>2. At(k, st)
    BY <1>10
  <2>3. st \in Locals /\ st.at = i /\ st.len = Len(f8[k]) /\ st.done = FALSE
    BY <1>10, <2>2, LocalsFields
  <2>4. /\ c \in Character /\ (c = 0 <=> n = N) /\ oct[n] = Utf8Encode(c) /\ wide[n] = Utf16Encode(c)
        /\ Len(oct[n]) \in Nat /\ Len(wide[n]) \in Nat /\ Len(wide[n]) >= 1
    BY <1>1, <1>2, <1>3, <2>1
  <2> HIDE DEF n, c
  <2>5. /\ Stands(s, i, wide[n]) /\ Len(f16[n]) = Len(f16[k]) + Len(wide[n]) /\ Len(f16[k]) \in Nat
    BY <1>3, <1>5, <1>6, <2>1 DEF Laid
  <2>6. Len(f8[n]) = Len(f8[k]) + Len(oct[n])
    BY <1>2, <1>4, <2>1 DEF Laid
  <2>7. d = [len |-> Len(wide[n]), codepoint |-> c]
    <3>1. i \in Nat
      BY <2>5
    <3> HIDE DEF i
    <3> QED BY <1>7, <2>4, <2>5, <3>1, Utf16Decodes
  <2>8. d.len = Len(wide[n]) /\ d.codepoint = c
    BY <2>7
  <2> HIDE DEF d, i
  <2>9. Tallies(st, d, oct[n], new)
    <3>1. Utf16Decode(s, st.at) = d /\ Utf8Encode(Utf16Decode(s, st.at).codepoint) = oct[n]
      BY <2>3, <2>4, <2>8 DEF d
    <3>2. Utf16Decode(s, st.at).len \in Nat /\ Len(Utf8Encode(Utf16Decode(s, st.at).codepoint)) \in Nat
      BY <2>4, <2>8, <3>1
    <3>3. Tallies(st, Utf16Decode(s, st.at), Utf8Encode(Utf16Decode(s, st.at).codepoint), new)
      BY <2>3, <3>2, Utf16to8LenTurned
    <3> QED BY <3>1, <3>3
  <2> HIDE DEF new
  <2>10. /\ new \in Locals /\ new.at = st.at + d.len /\ new.len = st.len + Len(oct[n])
         /\ new.done = (d.codepoint = 0)
    <3>1. d.len # 0
      BY <2>4, <2>8
    <3> QED BY <2>9, <3>1, Zenon DEF Tallies
  <2>11. new.at = Len(f16[n]) + 1
    <3> DEFINE a == Len(f16[k])
               b == Len(wide[n])
               m == Len(f16[n])
    <3>1. new.at = a + 1 + b /\ m = a + b /\ a \in Nat /\ b \in Nat
      BY <2>3, <2>4, <2>5, <2>8, <2>10 DEF i
    <3> HIDE DEF a, b, m
    <3>2. new.at = m + 1
      BY ONLY <3>1
    <3> QED BY <3>2 DEF m
  <2>12. new.len = Len(f8[n])
    BY <2>3, <2>6, <2>10
  <2>13. new.done = TRUE <=> n = N
    BY <2>4, <2>8, <2>10
  <2>14. At(n, new)
    BY <2>10, <2>11, <2>12, <2>13
  <2>15. turn[st] = new
    BY <2>3 DEF turn, new
  <2> QED BY <2>1, <2>10, <2>14, <2>15 DEF n
<1>11. ASSUME NEW st \in S[N] PROVE turn[st] = st
  <2>1. st \in Locals /\ st.done = TRUE
    BY <1>1
  <2>2. Utf16to8LenTurn(s, st) = st
    BY <2>1, Zenon DEF Utf16to8LenTurn
  <2> QED BY <2>1, <2>2 DEF turn
<1>12. Iterate(turn, Begin, Len(s)) \in S[N]
  <2> HIDE DEF S
  <2> QED BY <1>1, <1>7, <1>9, <1>10, <1>11, IterateReaches
<1>13. Utf16to8Len(s) = Iterate(turn, Begin, Len(s))
  BY Zenon DEF Utf16to8Len, turn
<1>14. Utf16to8Len(s).len = Len(f8[N])
  BY <1>1, <1>12, <1>13
<1>15. f8[N] = FlattenSeq(oct)
  BY <1>2, <1>4 DEF Laid
<1> QED BY <1>8, <1>14, <1>15 DEF s

LEMMA Singles ==
  ASSUME NEW T, NEW chars \in Seq(T), Len(chars) >= 1, NEW seqs \in Seq(Seq(T)), Len(seqs) = Len(chars),
         \A k \in 1 .. Len(chars) : seqs[k] = <<chars[k]>>
  PROVE  FlattenSeq(seqs) = chars
<1> DEFINE N == Len(chars)
           s == FlattenSeq(seqs)
<1>1. N \in Nat /\ Len(seqs) # 0
  BY LenProperties
<1>2. PICK flat : Laid(flat, seqs, T)
  BY <1>1, LaidOut
<1>3. ASSUME NEW c PROVE Len(<<c>>) = 1 /\ <<c>>[1] = c
  OBVIOUS
<1> HIDE DEF s
<1> DEFINE I == {k \in Nat : k <= N => Len(flat[k]) = k}
<1>4. 0 \in I
  BY <1>2 DEF Laid
<1>5. ASSUME NEW k \in Nat, k \in I PROVE k + 1 \in I
  <2> DEFINE n == k + 1
  <2> SUFFICES ASSUME n <= N PROVE Len(flat[n]) = n
    OBVIOUS
  <2>1. n \in 1 .. N /\ n - 1 = k /\ Len(flat[k]) = k
    BY <1>1, <1>5
  <2> HIDE DEF n
  <2>2. Len(flat[n]) = Len(flat[k]) + Len(seqs[n])
    BY <2>1, <1>2 DEF Laid
  <2>3. Len(seqs[n]) = 1
    BY <1>3, <2>1
  <2> QED BY <2>1, <2>2, <2>3 DEF n
<1> HIDE DEF I
<1>6. Nat \subseteq I
  BY <1>4, <1>5, SetInduction
<1>7. \A k \in 0 .. N : Len(flat[k]) = k
  BY <1>1, <1>6 DEF I
<1>8. s \in Seq(T) /\ Len(s) = N
  <2>1. N \in 0 .. N
    BY <1>1
  <2>2. flat[N] = s /\ flat[N] \in Seq(T)
    BY <1>2, <2>1 DEF Laid, s
  <2> QED BY <1>7, <2>1, <2>2
<1>9. ASSUME NEW k \in 1 .. N PROVE s[k] = chars[k]
  <2> DEFINE i == Len(flat[k - 1]) + 1
             e == seqs[k]
  <2>1. k - 1 \in 0 .. N /\ k \in Nat
    BY <1>1
  <2>2. i = k
    <3> DEFINE a == Len(flat[k - 1])
    <3>1. a = k - 1
      BY <1>7, <2>1
    <3> HIDE DEF a
    <3>2. a + 1 = k
      BY <2>1, <3>1
    <3> QED BY <3>2 DEF a
  <2>3. Stands(s, i, e)
    BY <1>2 DEF Laid, s
  <2>4. Len(e) = 1 /\ e[1] = chars[k]
    BY <1>3
  <2> HIDE DEF e, i
  <2>5. 1 \in 1 .. Len(e) /\ k + 1 = i + 1
    BY <2>2, <2>4
  <2>6. s[k] = e[1]
    BY <2>1, <2>3, <2>5 DEF Stands
  <2> QED BY <2>4, <2>6
<1> QED BY <1>8, <1>9, SeqEqual DEF s

\* ASCII is the same in UTF-8, in UTF-16 and as code points.
LEMMA AsciiSame ==
  ASSUME NEW chars, Words(chars), Ascii(chars)
  PROVE  Utf8(chars) = chars /\ Utf16(chars) = chars
<1> DEFINE N == Len(chars)
<1>1. /\ N \in Nat /\ N >= 1 /\ DOMAIN chars = 1 .. N
      /\ \A k \in 1 .. N : chars[k] \in Nat /\ chars[k] <= MaxCodePoint /\ chars[k] < 128
  BY WordsAre DEF Ascii
<1>2. chars \in Seq(Nat) /\ chars \in Seq(Byte)
  <2>1. \A k \in 1 .. N : chars[k] \in Nat /\ chars[k] \in Byte
    BY <1>1 DEF Byte
  <2>2. chars = [k \in 1 .. N |-> chars[k]]
    BY LenProperties DEF Words
  <2> HIDE DEF N
  <2> QED BY <1>1, <2>1, <2>2
<1>3. Utf8(chars) = chars
  <2> DEFINE oct == Octets(chars)
  <2>1. /\ oct \in Seq(Seq(Byte)) /\ Len(oct) = N
        /\ \A k \in 1 .. N : oct[k] = Utf8Encode(chars[k])
    BY OctetsAre
  <2>2. \A k \in 1 .. N : oct[k] = <<chars[k]>>
    BY <1>1, <2>1, Utf8EncodedSeq
  <2>3. Utf8(chars) = FlattenSeq(oct)
    BY DEF Utf8, Octets
  <2> HIDE DEF oct
  <2> QED BY <1>1, <1>2, <2>1, <2>2, <2>3, Singles
<1>4. Utf16(chars) = chars
  <2> DEFINE wide == Wides(chars)
  <2>1. /\ wide \in Seq(Seq(Nat)) /\ Len(wide) = N
        /\ \A k \in 1 .. N : wide[k] = Utf16Encode(chars[k])
    BY <1>1, WidesAre
  <2>2. ASSUME NEW k \in 1 .. N PROVE wide[k] = <<chars[k]>>
    <3>1. chars[k] \in Nat /\ chars[k] <= 65535
      BY <1>1
    <3>2. Utf16Encode(chars[k]) = <<chars[k]>>
      BY <3>1, Utf16Encoded
    <3> QED BY <2>1, <3>2
  <2>3. Utf16(chars) = FlattenSeq(wide)
    BY DEF Utf16, Wides
  <2> HIDE DEF wide
  <2> QED BY <1>1, <1>2, <2>1, <2>2, <2>3, Singles
<1> QED BY <1>3, <1>4

\* The bytes of b written behind n bytes.
LEMMA WrittenBehind ==
  ASSUME NEW out \in Seq(Nat), NEW c \in Nat
  PROVE  /\ Written(out, Len(out) + 1, <<c>>) \in Seq(Nat)
         /\ Len(Written(out, Len(out) + 1, <<c>>)) = Len(out) + 1
         /\ \A j \in 1 .. Len(out) : Written(out, Len(out) + 1, <<c>>)[j] = out[j]
         /\ Written(out, Len(out) + 1, <<c>>)[Len(out) + 1] = c
<1> DEFINE n == Len(out)
           b == <<c>>
           w == Written(out, n + 1, b)
<1>1. n \in Nat /\ \A j \in 1 .. n : out[j] \in Nat
  BY LenProperties, ElementOfSeq
<1>2. Len(b) = 1 /\ b[1] = c
  OBVIOUS
<1> HIDE DEF b, n
<1>3. (IF n < n + 1 + Len(b) - 1 THEN n + 1 + Len(b) - 1 ELSE n) = n + 1 /\ n + 1 + Len(b) - 1 = n + 1
  BY <1>1, <1>2
<1>4. w = [k \in 1 .. n + 1 |-> IF k \in n + 1 .. n + 1 THEN b[k - (n + 1) + 1] ELSE out[k]]
  BY <1>3 DEF Written, n
<1>5. \A j \in 1 .. n : w[j] = out[j]
  BY <1>1, <1>4
<1>6. w[n + 1] = c
  <2> DEFINE m == n + 1
  <2>1. m \in 1 .. n + 1 /\ m \in n + 1 .. n + 1 /\ m - (n + 1) + 1 = 1
    BY <1>1
  <2> HIDE DEF m
  <2>2. w[m] = b[1]
    BY <1>4, <2>1
  <2> QED BY <1>2, <2>2 DEF m
<1>7. w \in Seq(Nat) /\ Len(w) = n + 1
  <2>1. ASSUME NEW j \in 1 .. n + 1 PROVE w[j] \in Nat
    <3>1. CASE j = n + 1
      BY <1>6, <3>1
    <3>2. CASE j # n + 1
      <4>1. j \in 1 .. n
        BY <1>1, <3>2
      <4> QED BY <1>1, <1>5, <4>1
    <3> QED BY <3>1, <3>2
  <2>2. DOMAIN w = 1 .. n + 1 /\ w = [j \in 1 .. n + 1 |-> w[j]] /\ n + 1 \in Nat
    BY <1>1, <1>4
  <2> HIDE DEF w
  <2> QED BY <2>1, <2>2
<1> QED BY <1>5, <1>6, <1>7 DEF n, b

\* A turn of utf16to8 on a character of ASCII.
LEMMA Utf16to8Turned ==
  ASSUME NEW s, NEW st \in Locals, st.done = FALSE, ~(st.at > Len(s)), NEW c \in Nat,
         Utf16Decode(s, st.at) = [len |-> 1, codepoint |-> c], Utf8Encode(c) = <<c>>, st.len = Len(st.out)
  PROVE  /\ Utf16to8Turn(s, st) \in Locals /\ Utf16to8Turn(s, st).at = st.at + 1
         /\ Utf16to8Turn(s, st).out = Written(st.out, Len(st.out) + 1, <<c>>)
         /\ Utf16to8Turn(s, st).len = st.len + 1
         /\ Utf16to8Turn(s, st).done = (c = 0)
<1> DEFINE d == Utf16Decode(s, st.at)
           b == Utf8Encode(d.codepoint)
           e == <<c>>
           new == Utf16to8Turn(s, st)
           at == st.at + Len(b)
           out == Written(st.out, st.len + 1, b)
           len == st.len + d.len
           done == d.codepoint = 0
<1>1. d.len = 1 /\ d.codepoint = c /\ b = e /\ Len(e) = 1 /\ d.len # 0
  OBVIOUS
<1>2. st.at \in Nat /\ st.out \in Seq(Nat) /\ st.len \in Nat
  BY LocalsFields
<1> HIDE DEF d, b, e, new
<1>3. new = [st EXCEPT !.at = at, !.out = out, !.len = len, !.done = done]
  BY <1>1, Zenon DEF Utf16to8Turn, new, d, b
<1>4. /\ at = st.at + 1 /\ len = st.len + 1 /\ done = (c = 0)
      /\ out = Written(st.out, Len(st.out) + 1, e)
  BY <1>1
<1>5. at \in Nat /\ len \in Nat /\ done \in BOOLEAN
  BY <1>2, <1>4
<1>6. out \in Seq(Nat)
  BY <1>2, <1>4, WrittenBehind DEF e
<1> HIDE DEF at, out, len, done
<1>7. /\ new \in Locals /\ new.at = at /\ new.out = out /\ new.len = len /\ new.done = done
  BY ONLY st \in Locals, <1>3, <1>5, <1>6, Zenon DEF Locals
<1> QED BY <1>4, <1>7, Zenon DEF new, e

\* utf16to8 is right for ASCII.
LEMMA Utf16to8Ascii ==
  ASSUME NEW chars, Words(chars), Ascii(chars)
  PROVE  Utf16to8(chars).out = chars
<1> DEFINE N == Len(chars)
           turn == [st \in Locals |-> Utf16to8Turn(chars, st)]
<1>1. /\ N \in Nat /\ N >= 1 /\ DOMAIN chars = 1 .. N
      /\ \A k \in 1 .. N : chars[k] \in Nat /\ chars[k] <= MaxCodePoint /\ chars[k] < 128 /\ (chars[k] = 0 <=> k = N)
  BY WordsAre DEF Ascii
<1> HIDE DEF N, turn
<1> DEFINE At(k, st) == /\ st.at = k + 1 /\ st.len = k /\ Len(st.out) = k
                        /\ \A j \in 1 .. k : st.out[j] = chars[j]
                        /\ (st.done = TRUE <=> k = N)
           S == [k \in Nat |-> {st \in Locals : At(k, st)}]
<1>2. Begin \in S[0]
  BY <1>1, BeginIs
<1>3. ASSUME NEW k \in Nat, k < N, NEW st \in S[k] PROVE turn[st] \in S[k + 1]
  <2> DEFINE n == k + 1
             c == chars[n]
             new == Utf16to8Turn(chars, st)
  <2>1. n \in 1 .. N /\ n - 1 = k /\ n \in Nat
    BY <1>1, <1>3
  <2>2. /\ st \in Locals /\ st.at = n /\ st.len = Len(st.out) /\ Len(st.out) = k
        /\ (\A j \in 1 .. k : st.out[j] = chars[j]) /\ st.done = FALSE /\ st.out \in Seq(Nat)
    BY <1>3, LocalsFields
  <2>3. c \in Nat /\ c <= MaxCodePoint /\ c < 128 /\ (c = 0 <=> n = N)
    BY <1>1, <2>1
  <2>4. Utf8Encode(c) = <<c>>
    BY <2>3, Utf8EncodedSeq
  <2>5. Utf16Decode(chars, n) = [len |-> 1, codepoint |-> c]
    <3>1. ~High(chars[n])
      BY <2>3 DEF High
    <3> QED BY <3>1 DEF Utf16Decode
  <2>6. ~(st.at > Len(chars))
    <3>1. ~(n > N)
      BY <1>1, <2>1
    <3> QED BY <2>2, <3>1 DEF N
  <2> HIDE DEF n, c
  <2>7. /\ new \in Locals /\ new.at = st.at + 1
        /\ new.out = Written(st.out, Len(st.out) + 1, <<c>>)
        /\ new.len = st.len + 1 /\ new.done = (c = 0)
    BY <2>2, <2>3, <2>4, <2>5, <2>6, Utf16to8Turned
  <2> HIDE DEF new
  <2> DEFINE w == Written(st.out, Len(st.out) + 1, <<c>>)
  <2>8. w \in Seq(Nat) /\ Len(w) = k + 1 /\ (\A j \in 1 .. k : w[j] = st.out[j]) /\ w[k + 1] = c
    BY <2>2, <2>3, WrittenBehind
  <2> HIDE DEF w
  <2>9. \A j \in 1 .. n : new.out[j] = chars[j]
    <3> SUFFICES ASSUME NEW j \in 1 .. n PROVE w[j] = chars[j]
      BY <2>7 DEF w
    <3>1. CASE j = n
      BY <2>8, <3>1 DEF n, c
    <3>2. CASE j # n
      <4>1. j \in 1 .. k
        BY <3>2 DEF n
      <4> QED BY <2>2, <2>8, <4>1
    <3> QED BY <3>1, <3>2
  <2>10. new.at = n + 1 /\ new.len = n /\ Len(new.out) = n
    BY <2>2, <2>7, <2>8 DEF n, w
  <2>11. new.done = TRUE <=> n = N
    BY <2>3, <2>7
  <2>12. At(n, new)
    BY <2>9, <2>10, <2>11
  <2>13. turn[st] = new
    BY <2>2 DEF turn, new
  <2>14. new \in S[n]
    BY <2>1, <2>7, <2>12
  <2> QED BY <2>13, <2>14 DEF n
<1>4. ASSUME NEW st \in S[N] PROVE turn[st] = st
  <2>1. st \in Locals /\ st.done = TRUE
    BY <1>1
  <2>2. Utf16to8Turn(chars, st) = st
    BY <2>1, Zenon DEF Utf16to8Turn
  <2> QED BY <2>1, <2>2 DEF turn
<1>5. Iterate(turn, Begin, N) \in S[N]
  <2>1. N <= N
    BY <1>1
  <2> HIDE DEF S
  <2> QED BY <1>1, <1>2, <1>3, <1>4, <2>1, IterateReaches
<1>6. Utf16to8(chars) = Iterate(turn, Begin, N)
  BY Zenon DEF Utf16to8, turn, N
<1> DEFINE o == Utf16to8(chars).out
<1>7. Utf16to8(chars) \in Locals /\ Len(o) = N /\ \A j \in 1 .. N : o[j] = chars[j]
  BY <1>1, <1>5, <1>6
<1>8. o \in Seq(Nat)
  BY <1>7, LocalsFields
<1>9. chars \in Seq(Nat)
  <2>1. chars = [k \in 1 .. N |-> chars[k]]
    BY LenProperties DEF Words, N
  <2> QED BY <1>1, <2>1
<1> HIDE DEF o
<1>10. o = chars
  BY <1>1, <1>7, <1>8, <1>9, SeqEqual DEF N
<1> QED BY <1>10 DEF o

\* What fromnativepath and alloc_windows_path leave has room in what they
\* allocate.
LEMMA BackFits ==
  ASSUME NEW chars, Words(chars), Ascii(chars)
  PROVE  /\ Len(FromNativePath(chars)) <= FromNativePathLen(chars)
         /\ Len(AllocWindowsPath(chars)) <= AllocWindowsPathLen(chars)
<1> DEFINE N == Len(chars)
           bytes == Utf16to8(chars).out
           lead == IF Drive(chars) THEN <<Slash>> ELSE <<>>
           slashed == [k \in DOMAIN bytes |-> IF bytes[k] = Backslash THEN Slash ELSE bytes[k]]
           path == lead \o slashed
           end == Len(path) - 1
<1>1. N \in Nat /\ N >= 1 /\ bytes = chars
  BY WordsAre, Utf16to8Ascii
<1>2. Utf16to8Len(chars).len = N
  <2>1. Utf8(chars) = chars /\ Utf16(chars) = chars
    BY AsciiSame
  <2>2. Utf16to8Len(Utf16(chars)).len = Len(Utf8(chars))
    BY Utf16to8LenCounts
  <2> QED BY <2>1, <2>2
<1>3. chars \in Seq(Nat)
  <2>1. chars \in Seq(Character) /\ \A k \in 1 .. Len(chars) : chars[k] \in Nat
    BY WordsAre DEF Words
  <2>2. chars = [k \in 1 .. Len(chars) |-> chars[k]] /\ Len(chars) \in Nat
    BY <2>1, LenProperties
  <2> QED BY <2>1, <2>2
<1>4. slashed \in Seq(Nat) /\ Len(slashed) = N
  <2>1. DOMAIN bytes = 1 .. N
    BY <1>1, <1>3, LenProperties
  <2>2. \A k \in 1 .. N : bytes[k] \in Nat /\ slashed[k] \in Nat
    BY <1>1, <1>3, <2>1, ElementOfSeq DEF Slash
  <2>3. slashed = [k \in 1 .. N |-> slashed[k]]
    BY <2>1
  <2> HIDE DEF slashed, N
  <2> QED BY <1>1, <2>2, <2>3
<1>5. lead \in Seq(Nat) /\ Len(lead) = IF Drive(chars) THEN 1 ELSE 0
  BY DEF Slash
<1> HIDE DEF N, slashed, lead
<1>6. path \in Seq(Nat) /\ Len(path) = Len(lead) + N
  BY <1>4, <1>5, ConcatProperties
<1>7. Len(path) \in Nat /\ FromNativePathLen(chars) = Len(path) + 1
  BY <1>1, <1>2, <1>5, <1>6 DEF FromNativePathLen
<1>8. FromNativePath(chars) = IF end > 0 /\ path[end] = Slash THEN Append(SubSeq(path, 1, end - 1), 0) ELSE path
  BY DEF FromNativePath, slashed, lead
<1> HIDE DEF path
<1>9. Len(FromNativePath(chars)) <= Len(path) + 1
  <2>1. ASSUME end > 0 PROVE Len(Append(SubSeq(path, 1, end - 1), 0)) <= Len(path) + 1
    <3> DEFINE M == Len(path)
               q == SubSeq(path, 1, end - 1)
    <3>1. M \in Nat /\ end = M - 1
      BY <1>7
    <3> HIDE DEF M
    <3>2. 1 \in 1 .. M + 1 /\ end - 1 \in 0 .. M
      BY <2>1, <3>1
    <3>3. q \in Seq(Nat) /\ Len(q) = end - 1
      BY <1>6, <2>1, <3>1, <3>2, SubSeqProperties DEF M
    <3> HIDE DEF q
    <3>4. Len(Append(q, 0)) = Len(q) + 1
      BY <3>3, AppendProperties
    <3>5. Len(Append(q, 0)) <= M + 1
      BY <3>1, <3>3, <3>4
    <3> QED BY <3>5 DEF q, M
  <2>2. Len(path) <= Len(path) + 1
    BY <1>7
  <2> QED BY <1>8, <2>1, <2>2
<1>10. Len(AllocWindowsPath(chars)) <= AllocWindowsPathLen(chars)
  <2> DEFINE p == <<Slash>> \o bytes
             a == [k \in DOMAIN p |-> IF p[k] = Backslash THEN (IF k = Len(p) - 1 THEN 0 ELSE Slash) ELSE p[k]]
  <2>1. <<Slash>> \in Seq(Nat) /\ Len(<<Slash>>) = 1
    BY DEF Slash
  <2>2. p \in Seq(Nat) /\ Len(p) = 1 + N
    BY <1>1, <1>3, <2>1, ConcatProperties DEF N
  <2>3. AllocWindowsPath(chars) = a
    BY DEF AllocWindowsPath
  <2> HIDE DEF p
  <2>4. DOMAIN p = 1 .. Len(p) /\ Len(p) \in Nat
    BY <2>2, LenProperties
  <2>5. Len(a) = Len(p)
    BY <2>4
  <2> QED BY <1>1, <1>2, <2>2, <2>3, <2>5 DEF AllocWindowsPathLen
<1> QED BY <1>7, <1>9, <1>10

\* A path of Windows is the same again after the way there and back.
LEMMA ThereAndBack ==
  ASSUME NEW chars, Words(chars), WindowsPath(chars)
  PROVE  FromNativePath(ToNativePath(chars).out) = chars
<1> DEFINE N == Len(chars)
           t == Tail(chars)
           w == Natives(t)
<1>1. /\ N \in Nat /\ N > 3 /\ DOMAIN chars = 1 .. N /\ chars \in Seq(Character)
      /\ \A k \in 1 .. N : chars[k] \in Nat /\ chars[k] < 128 /\ chars[k] # Backslash /\ (chars[k] = 0 <=> k = N)
      /\ chars[1] = Slash /\ chars[3] = Colon /\ chars[N - 1] # Slash
  BY WordsAre DEF WindowsPath, Ascii, Words
<1>2. /\ t \in Seq(Character) /\ Len(t) = N - 1 /\ \A k \in 1 .. N - 1 : t[k] = chars[k + 1]
  <2>1. chars # <<>>
    <3>1. N \in Nat /\ N > 3
      BY <1>1
    <3>2. Len(<<>>) = 0
      OBVIOUS
    <3>3. N # 0
      <4> HIDE DEF N
      <4> QED BY ONLY <3>1
    <3> QED BY ONLY <3>2, <3>3
  <2> QED BY <1>1, <2>1, HeadTailProperties
<1> HIDE DEF N, t
<1>3. Words(t)
  <2>1. \A k \in 1 .. N - 1 : t[k] = 0 <=> k = N - 1
    BY <1>1, <1>2
  <2>2. N - 1 \in 1 .. N - 1 /\ \A k \in 1 .. N - 1 - 1 : k \in 1 .. N - 1 /\ k # N - 1
    BY <1>1
  <2>3. t[N - 1] = 0 /\ \A k \in 1 .. N - 1 - 1 : t[k] # 0
    BY <2>1, <2>2
  <2> QED BY <1>1, <1>2, <2>3 DEF Words
<1>4. Ascii(t)
  <2>1. DOMAIN t = 1 .. N - 1
    BY <1>2, LenProperties
  <2>2. \A k \in 1 .. N - 1 : t[k] < 128
    BY <1>1, <1>2
  <2> QED BY <2>1, <2>2 DEF Ascii
<1>5. SkipSlash(chars) = t
  BY <1>1 DEF SkipSlash, N, t
<1>6. ToNativePath(chars).out = Utf16(w)
  <2>1. Utf8(t) = t
    BY <1>3, <1>4, AsciiSame
  <2>2. Utf8to16(Utf8(t)).out = Utf16(w)
    BY <1>3, Utf8to16Converts
  <2> QED BY <1>5, <2>1, <2>2 DEF ToNativePath
<1>7. /\ Words(w) /\ Len(w) = N - 1 /\ DOMAIN w = 1 .. N - 1
      /\ \A k \in 1 .. N - 1 : w[k] = Native(t[k])
  BY <1>2, <1>3, NativesAre
<1>8. \A k \in 1 .. N - 1 : t[k] \in Nat /\ t[k] < 128 /\ t[k] # Backslash
  BY <1>1, <1>2
<1> HIDE DEF w
<1>9. Ascii(w)
  <2>1. \A k \in 1 .. N - 1 : w[k] < 128
    BY <1>7, <1>8 DEF Native, Backslash
  <2> QED BY <1>7, <2>1 DEF Ascii
<1>10. Utf16(w) = w /\ Utf16to8(w).out = w
  BY <1>7, <1>9, AsciiSame, Utf16to8Ascii
<1>11. Drive(w)
  <2>1. 2 \in 1 .. N - 1 /\ 2 + 1 = 3
    BY <1>1
  <2>2. w[2] = Colon
    BY <1>1, <1>2, <1>7, <2>1 DEF Native, Colon, Slash
  <2> QED BY <1>1, <1>7, <2>2 DEF Drive
<1> DEFINE slashed == [k \in DOMAIN w |-> IF w[k] = Backslash THEN Slash ELSE w[k]]
           path == <<Slash>> \o slashed
           end == Len(path) - 1
<1>12. slashed = t
  <2>1. \A k \in 1 .. N - 1 : slashed[k] = t[k]
    BY <1>7, <1>8 DEF Native, Backslash, Slash
  <2>2. slashed = [k \in 1 .. N - 1 |-> slashed[k]]
    BY <1>7
  <2>3. t = [k \in 1 .. N - 1 |-> t[k]]
    BY <1>2, LenProperties
  <2> HIDE DEF slashed
  <2> QED BY <2>1, <2>2, <2>3
<1>13. <<Slash>> \o t = chars
  <2> DEFINE p == <<Slash>> \o t
  <2>1. Slash \in Character /\ <<Slash>> \in Seq(Character) /\ Len(<<Slash>>) = 1 /\ <<Slash>>[1] = Slash
    BY DEF Slash, Character, MaxCodePoint
  <2>2. /\ p \in Seq(Character) /\ Len(p) = N
        /\ \A k \in 1 .. N : p[k] = IF k <= 1 THEN <<Slash>>[k] ELSE t[k - 1]
    <3>1. 1 + (N - 1) = N
      BY <1>1
    <3> QED BY <1>1, <1>2, <2>1, <3>1, ConcatProperties
  <2> HIDE DEF p
  <2>3. ASSUME NEW k \in 1 .. N PROVE p[k] = chars[k]
    <3>1. CASE k = 1
      BY <1>1, <2>1, <2>2, <3>1
    <3>2. CASE k # 1
      <4>1. k - 1 \in 1 .. N - 1 /\ k - 1 + 1 = k /\ ~(k <= 1)
        BY <1>1, <3>2
      <4> QED BY <1>2, <2>2, <4>1
    <3> QED BY <3>1, <3>2
  <2>4. p = chars
    BY <1>1, <2>2, <2>3, SeqEqual DEF N
  <2> QED BY <2>4 DEF p
<1>14. FromNativePath(w) = IF end > 0 /\ path[end] = Slash THEN Append(SubSeq(path, 1, end - 1), 0) ELSE path
  BY <1>10, <1>11 DEF FromNativePath
<1>15. path = chars
  BY <1>12, <1>13
<1> HIDE DEF path, slashed
<1>16. FromNativePath(w) = chars
  BY <1>1, <1>14, <1>15 DEF N
<1> QED BY <1>6, <1>10, <1>16

LEMMA Terminated ==
  ASSUME NEW T, NEW t \in Seq(T \ {0}), 0 \in T
  PROVE  /\ Append(t, 0) \in Seq(T) /\ Len(Append(t, 0)) \in Nat /\ Len(Append(t, 0)) > 0
         /\ Append(t, 0)[Len(Append(t, 0))] = 0
         /\ \A k \in 1 .. Len(Append(t, 0)) - 1 : Append(t, 0)[k] # 0
<1> DEFINE a == Append(t, 0)
           n == Len(t)
<1>1. n \in Nat /\ \A k \in 1 .. n : t[k] \in T /\ t[k] # 0
  BY LenProperties, ElementOfSeq
<1>2. t = [k \in 1 .. n |-> t[k]]
  BY LenProperties
<1>3. t \in Seq(T)
  <2> HIDE DEF n
  <2> QED BY <1>1, <1>2
<1>4. /\ a \in Seq(T) /\ Len(a) = n + 1 /\ (\A k \in 1 .. n : a[k] = t[k]) /\ a[n + 1] = 0
  BY <1>3, AppendProperties
<1> HIDE DEF a, n
<1>5. Len(a) \in Nat /\ Len(a) > 0 /\ a[Len(a)] = 0
  BY <1>1, <1>4
<1>6. \A k \in 1 .. Len(a) - 1 : a[k] # 0
  <2>1. Len(a) - 1 = n
    BY <1>1, <1>4
  <2> QED BY <1>1, <1>4, <2>1
<1> QED BY <1>4, <1>5, <1>6 DEF a

LEMMA GivenText ==
  ASSUME NEW t \in Texts
  PROVE  Words(Append(t, 0))
<1>1. t \in Seq(Character \ {0}) /\ 0 \in Character
  BY TextsAssumption DEF Character, MaxCodePoint
<1> QED BY <1>1, Terminated DEF Words

LEMMA GivenBytes ==
  ASSUME NEW t \in Malformed
  PROVE  CString(Append(t, 0))
<1>1. t \in Seq(Byte \ {0}) /\ 0 \in Byte
  BY MalformedAssumption DEF Byte
<1> QED BY <1>1, Terminated DEF CString

LEMMA ConversionsFitIn ==
  ASSUME given.kind = "bytes" => CString(given.bytes), given.kind = "text" => Words(given.chars)
  PROVE  ConversionsFit
<1>1. ASSUME given.kind = "bytes" PROVE SizedRight(given.bytes)
  BY <1>1, SizedRightAlways
<1>2. ASSUME NEW chars, Words(chars)
      PROVE  /\ SizedRight(Utf8(chars))
             /\ Utf8to16(Utf8(chars)).out = Utf16(Natives(chars))
             /\ Utf16to8Len(Utf16(chars)).len = Len(Utf8(chars))
  BY <1>2, Utf8to16Converts, SizedRightAlways, Utf16to8LenCounts
<1>3. ASSUME NEW chars, Words(chars), Ascii(chars)
      PROVE  /\ Utf16to8(Utf16(chars)).out = chars
             /\ Len(FromNativePath(Utf16(chars))) <= FromNativePathLen(Utf16(chars))
             /\ Len(AllocWindowsPath(Utf16(chars))) <= AllocWindowsPathLen(Utf16(chars))
  <2>1. Utf16(chars) = chars
    BY <1>3, AsciiSame
  <2>2. Utf16to8(chars).out = chars
    BY <1>3, Utf16to8Ascii
  <2>3. /\ Len(FromNativePath(chars)) <= FromNativePathLen(chars)
        /\ Len(AllocWindowsPath(chars)) <= AllocWindowsPathLen(chars)
    BY <1>3, BackFits
  <2> QED BY ONLY <2>1, <2>2, <2>3
<1>4. ASSUME NEW chars, Words(chars), WindowsPath(chars)
      PROVE  FromNativePath(ToNativePath(chars).out) = chars
  BY <1>4, ThereAndBack
<1> QED BY ONLY <1>1, <1>2, <1>3, <1>4, given.kind = "text" => Words(given.chars), Zenon DEF ConversionsFit, Natives

\* The conversions of a path to Windows fill the memory allocated for them and
\* never pass it, whatever the bytes are, and they keep the characters of a text
\* of any length; the way back keeps to its memory for ASCII (xlibc/unicode.c,
\* xlibc/fs.c), and a path of ASCII is the same after the way there and back.
THEOREM ConversionsFitHolds == TextSpec => []ConversionsFit
<1> DEFINE Inv == /\ given.kind = "bytes" => CString(given.bytes)
                  /\ given.kind = "text" => Words(given.chars)
<1>1. TextInit => Inv
  BY DEF TextInit, Nothing
<1>2. Inv /\ [Give]_textVars => Inv'
  <2>1. Inv /\ UNCHANGED textVars => Inv'
    BY DEF textVars
  <2>2. ASSUME Give PROVE Inv'
    <3> DEFINE End(t) == Append(t, 0)
    <3> HIDE DEF End
    <3>1. ASSUME given'.kind = "bytes" PROVE CString(given'.bytes)
      <4>1. PICK b \in Malformed : given' = [kind |-> "bytes", bytes |-> End(b)]
        BY <2>2, <3>1 DEF Give, End
      <4>2. given'.bytes = End(b)
        BY <4>1
      <4> QED BY <4>2, GivenBytes DEF End
    <3>2. ASSUME given'.kind = "text" PROVE Words(given'.chars)
      <4>1. PICK t \in Texts : given' = [kind |-> "text", chars |-> End(t)]
        BY <2>2, <3>2 DEF Give, End
      <4>2. given'.chars = End(t)
        BY <4>1
      <4> QED BY <4>2, GivenText DEF End
    <3> QED BY <3>1, <3>2
  <2> QED BY <2>1, <2>2
<1>3. Inv => ConversionsFit
  BY ConversionsFitIn
<1> QED
  BY <1>1, <1>2, <1>3, PTL DEF TextSpec
----------------------------------------------------------------------------
(* Command lines *)

\* The unit x is at the positions of e behind `from' and up to `to', a backslash before it
\* if it is escaped.
Placed(e, x, from, to) ==
  /\ to <= Len(e)
  /\ Escaped(x) => to = from + 2 /\ e[from + 1] = Backslash /\ e[from + 2] = x
  /\ ~Escaped(x) => to = from + 1 /\ e[from + 1] = x

\* The units u are in e, escaped, the n-th up to pos[n].
Spread(e, u, pos) ==
  /\ pos \in [0 .. Len(u) -> Nat] /\ pos[0] = 0 /\ pos[Len(u)] = Len(e)
  /\ \A n \in 0 .. Len(u), m \in 1 .. Len(u) : m = n + 1 => Placed(e, u[m], pos[n], pos[m])

Escapes(e, u) ==
  /\ e \in Seq(Nat) /\ u \in Seq(Nat)
  /\ \E pos : Spread(e, u, pos)

EscapedUnit(x) == IF Escaped(x) THEN <<Backslash, x>> ELSE <<x>>

LEMMA EscapesNothing == Escapes(<<>>, <<>>)
<1> DEFINE pos == [n \in 0 .. 0 |-> 0]
           u == <<>>
<1>1. u \in Seq(Nat) /\ Len(u) = 0
  OBVIOUS
<1>2. pos \in [0 .. 0 -> Nat] /\ pos[0] = 0
  OBVIOUS
<1> HIDE DEF pos, u
<1>3. Spread(u, u, pos)
  BY <1>1, <1>2 DEF Spread
<1> QED BY <1>1, <1>3 DEF Escapes, u

\* What is in a sequence stays there when more comes behind it.
LEMMA Placement ==
  ASSUME NEW e \in Seq(Nat), NEW s \in Seq(Nat), NEW x, NEW n \in Nat, NEW m, Placed(e, x, n, m)
  PROVE  Placed(e \o s, x, n, m)
<1> DEFINE f == e \o s
<1>1. Len(e) \in Nat /\ Len(s) \in Nat /\ Len(f) = Len(e) + Len(s)
  OBVIOUS
<1>2. \A k \in 1 .. Len(e) : f[k] = e[k]
  OBVIOUS
<1> HIDE DEF f
<1>3. CASE Escaped(x)
  <2>1. m <= Len(e) /\ m = n + 2 /\ n + 1 \in 1 .. Len(e) /\ n + 2 \in 1 .. Len(e)
    BY <1>1, <1>3 DEF Placed
  <2> QED BY <1>1, <1>2, <1>3, <2>1 DEF Placed
<1>4. CASE ~Escaped(x)
  <2>1. m <= Len(e) /\ m = n + 1 /\ n + 1 \in 1 .. Len(e)
    BY <1>1, <1>4 DEF Placed
  <2> QED BY <1>1, <1>2, <1>4, <2>1 DEF Placed
<1> QED BY <1>3, <1>4 DEF f

LEMMA EscapesOne ==
  ASSUME NEW e, NEW u, Escapes(e, u), NEW x, x \in Nat
  PROVE  Escapes(e \o EscapedUnit(x), u \o <<x>>)
<1> DEFINE s == EscapedUnit(x)
           v == <<x>>
           f == e \o s
           w == u \o v
           N == Len(u)
           L == Len(e)
<1>1. PICK pos : Spread(e, u, pos)
  BY DEF Escapes
<1>2. e \in Seq(Nat) /\ u \in Seq(Nat)
  BY DEF Escapes
<1>3. s \in Seq(Nat) /\ v \in Seq(Nat) /\ Len(v) = 1 /\ v[1] = x
  BY DEF EscapedUnit, Backslash
<1>4. /\ Escaped(x) => Len(s) = 2 /\ s[1] = Backslash /\ s[2] = x
      /\ ~Escaped(x) => Len(s) = 1 /\ s[1] = x
  BY DEF EscapedUnit
<1> HIDE DEF s, v
<1>5. /\ f \in Seq(Nat) /\ Len(f) = L + Len(s) /\ L \in Nat
      /\ \A k \in 1 .. Len(s) : f[L + k] = s[k]
  BY <1>2, <1>3
<1>6. /\ w \in Seq(Nat) /\ Len(w) = N + 1 /\ N \in Nat /\ w[N + 1] = x
      /\ \A k \in 1 .. N : w[k] = u[k]
  <2>1. u \in Seq(Nat) /\ v \in Seq(Nat) /\ Len(v) = 1 /\ v[1] = x
    BY <1>2, <1>3
  <2>2. w \in Seq(Nat) /\ Len(w) = Len(u) + Len(v) /\ Len(u) \in Nat
    BY ONLY <2>1, ConcatProperties, LenProperties
  <2>3. /\ \A k \in 1 .. Len(u) : w[k] = u[k]
        /\ \A k \in 1 .. Len(v) : w[Len(u) + k] = v[k]
    BY ONLY <2>1, ConcatProperties
  <2>4. 1 \in 1 .. Len(v)
    BY ONLY <2>1
  <2>5. w[Len(u) + 1] = x
    BY ONLY <2>1, <2>3, <2>4
  <2> QED BY ONLY <2>1, <2>2, <2>3, <2>5
<1> DEFINE at(n) == IF n <= N THEN pos[n] ELSE Len(f)
           new == [n \in 0 .. N + 1 |-> at(n)]
<1>7. /\ pos \in [0 .. N -> Nat] /\ pos[0] = 0 /\ pos[N] = L
      /\ \A n \in 0 .. N, m \in 1 .. N : m = n + 1 => Placed(e, u[m], pos[n], pos[m])
  BY <1>1 DEF Spread
<1>8. Placed(f, x, L, Len(f))
  <2> DEFINE M == Len(f)
  <2>1. M = L + Len(s) /\ M \in Nat
    BY <1>4, <1>5
  <2> HIDE DEF M, f
  <2>2. CASE Escaped(x)
    <3>1. Len(s) = 2 /\ s[1] = Backslash /\ s[2] = x
      BY ONLY <1>4, <2>2, Zenon
    <3>2. 1 \in 1 .. Len(s) /\ 2 \in 1 .. Len(s) /\ M = L + 2
      BY ONLY <3>1, <2>1
    <3>3. f[L + 1] = Backslash /\ f[L + 2] = x
      BY ONLY <1>5, <3>1, <3>2
    <3> QED BY <2>2, <3>2, <3>3, <1>5, <2>1 DEF Placed, M
  <2>3. CASE ~Escaped(x)
    <3>1. Len(s) = 1 /\ s[1] = x
      BY ONLY <1>4, <2>3, Zenon
    <3>2. 1 \in 1 .. Len(s) /\ M = L + 1
      BY ONLY <3>1, <2>1
    <3>3. f[L + 1] = x
      BY ONLY <1>5, <3>1, <3>2
    <3> QED BY <2>3, <3>2, <3>3, <1>5, <2>1 DEF Placed, M
  <2> QED BY <2>2, <2>3 DEF M
<1>9. \A k \in 1 .. N, n \in Nat : \A m : Placed(e, u[k], n, m) => Placed(f, w[k], n, m)
  BY <1>2, <1>3, <1>6, Placement
<1>10. Len(f) \in Nat
  BY <1>5
<1> HIDE DEF f, w
<1>11. /\ new \in [0 .. N + 1 -> Nat] /\ \A n \in 0 .. N + 1 : new[n] = at(n)
       /\ \A n \in 0 .. N : at(n) = pos[n] /\ at(n) \in Nat
       /\ at(N + 1) = Len(f)
  <2> HIDE DEF N
  <2>1. N \in Nat /\ ~(N + 1 <= N) /\ \A n \in 0 .. N : n <= N
    BY ONLY <1>6
  <2>2. (\A n \in 0 .. N : at(n) = pos[n] /\ at(n) \in Nat) /\ at(N + 1) = Len(f)
    BY ONLY <2>1, <1>7
  <2>3. \A n \in 0 .. N + 1 : at(n) \in Nat
    <3>1. \A n \in 0 .. N + 1 : n \in 0 .. N \/ n = N + 1
      BY ONLY <2>1
    <3> HIDE DEF at
    <3> QED BY ONLY <1>10, <2>2, <3>1
  <2> HIDE DEF at
  <2> QED BY ONLY <2>2, <2>3
<1> HIDE DEF at, new, N, L
<1>12. /\ 0 \in 0 .. N /\ N \in 0 .. N /\ N + 1 \in 0 .. N + 1 /\ (\A n \in 0 .. N : n \in 0 .. N + 1)
  BY <1>6
<1>13. new[0] = 0 /\ new[N + 1] = Len(f)
  BY <1>7, <1>11, <1>12
<1>14. ASSUME NEW n \in 0 .. N + 1, NEW m \in 1 .. N + 1, m = n + 1
       PROVE  Placed(f, w[m], new[n], new[m])
  <2>1. CASE m = N + 1
    <3>1. n = N
      BY <1>6, <1>14, <2>1
    <3>2. new[n] = L /\ new[m] = Len(f) /\ w[m] = x
      BY <1>6, <1>7, <1>11, <1>12, <1>13, <2>1, <3>1
    <3> QED BY <1>8, <3>2
  <2>2. CASE m # N + 1
    <3>1. m \in 1 .. N /\ n \in 0 .. N /\ m \in 0 .. N
      BY <1>6, <1>14, <2>2
    <3>2. new[n] = pos[n] /\ new[m] = pos[m] /\ pos[n] \in Nat
      BY <1>11, <1>12, <3>1
    <3>3. Placed(e, u[m], pos[n], pos[m])
      BY <1>7, <1>14, <3>1
    <3> QED BY <1>9, <3>1, <3>2, <3>3
  <2> QED BY <2>1, <2>2
<1>15. Spread(f, w, new)
  BY <1>6, <1>11, <1>13, <1>14 DEF Spread
<1> QED BY <1>5, <1>6, <1>15 DEF Escapes, f, w, s, v

LEMMA LaidEmpty ==
  ASSUME NEW T, NEW seqs, seqs \in Seq(Seq(T)), Len(seqs) = 0
  PROVE  \E flat : Laid(flat, seqs, T)
<1> DEFINE flat == [k \in 0 .. 0 |-> <<>>]
<1>1. flat \in [0 .. Len(seqs) -> Seq(T)] /\ flat[0] = <<>>
  OBVIOUS
<1>2. FlattenSeq(seqs) = flat[Len(seqs)]
  <2>1. FlattenSeq(seqs) = seqs
    BY DEF FlattenSeq
  <2>2. seqs = <<>>
    BY EmptySeq
  <2> QED BY <1>1, <2>1, <2>2
<1>3. 1 .. Len(seqs) = {}
  OBVIOUS
<1> HIDE DEF flat
<1>4. FlatOf(flat, seqs, T)
  BY <1>1, <1>2, <1>3 DEF FlatOf
<1> QED BY <1>4, FlatPlaces

DoubledUnit(x) == IF x = Backslash THEN <<Backslash, Backslash>> ELSE <<x>>

LEMMA DoubledUnitIs ==
  ASSUME NEW x \in Nat
  PROVE  /\ DoubledUnit(x) \in Seq(Nat)
         /\ x = Backslash => /\ Len(DoubledUnit(x)) = 2
                             /\ DoubledUnit(x)[1] = x /\ DoubledUnit(x)[2] = x
         /\ x # Backslash => Len(DoubledUnit(x)) = 1 /\ DoubledUnit(x)[1] = x
BY DEF DoubledUnit, Backslash

\* Without quotes and zeros, escaping doubles the backslashes and adds no other unit.
LEMMA EscapesTwice ==
  ASSUME NEW e, NEW u, Escapes(e, u), \A i \in 1 .. Len(u) : u[i] # Quote /\ u[i] # 0
  PROVE  e = Twice(u) /\ \A i \in 1 .. Len(e) : e[i] # Quote /\ e[i] # 0
<1> DEFINE N == Len(u)
           s == [k \in 1 .. N |-> DoubledUnit(u[k])]
           t == FlattenSeq(s)
<1>1. PICK pos : Spread(e, u, pos)
  BY DEF Escapes
<1>2. e \in Seq(Nat) /\ u \in Seq(Nat) /\ N \in Nat /\ Len(e) \in Nat
  BY LenProperties DEF Escapes
<1>3. \A k \in 1 .. N : u[k] \in Nat
  BY <1>2, ElementOfSeq
<1>4. Twice(u) = t
  <2>1. DOMAIN u = 1 .. N
    BY <1>2, LenProperties
  <2> QED BY <2>1, Zenon DEF Twice, DoubledUnit
<1>5. s \in Seq(Seq(Nat)) /\ Len(s) = N /\ \A k \in 1 .. N : s[k] = DoubledUnit(u[k])
  <2> DEFINE T == Seq(Nat)
  <2>1. \A k \in 1 .. N : DoubledUnit(u[k]) \in T
    BY <1>3, DoubledUnitIs
  <2> HIDE DEF T
  <2>2. s \in Seq(T) /\ Len(s) = N
    BY <1>2, <2>1
  <2> QED BY <2>2 DEF T
<1> HIDE DEF s
<1>6. PICK flat : Laid(flat, s, Nat)
  <2>1. CASE Len(s) = 0
    BY <1>5, <2>1, LaidEmpty
  <2>2. CASE Len(s) # 0
    BY <1>5, <2>2, LaidOut
  <2> QED BY <2>1, <2>2
<1> HIDE DEF t
<1>7. /\ \A k \in 0 .. N : flat[k] \in Seq(Nat) /\ Len(flat[k]) \in Nat
      /\ Len(flat[0]) = 0 /\ flat[N] = t
      /\ \A k \in 1 .. N : /\ Len(flat[k]) = Len(flat[k - 1]) + Len(s[k])
                           /\ Stands(t, Len(flat[k - 1]) + 1, s[k])
  BY <1>5, <1>6 DEF Laid, t
<1>8. /\ pos[0] = 0 /\ pos[N] = Len(e)
      /\ \A n \in 0 .. N, m \in 1 .. N : m = n + 1 => Placed(e, u[m], pos[n], pos[m])
  BY <1>1 DEF Spread
<1> DEFINE Plain(i) == e[i] = t[i] /\ e[i] # Quote /\ e[i] # 0
           Same(k) == pos[k] = Len(flat[k]) /\ \A i \in 1 .. pos[k] : Plain(i)
           I == {k \in Nat : k <= N => Same(k)}
<1>9. 0 \in I
  BY <1>7, <1>8
<1>10. ASSUME NEW k \in Nat, k \in I PROVE k + 1 \in I
  <2> DEFINE n == k + 1
             x == u[n]
             c == Len(flat[k])
  <2> SUFFICES ASSUME n <= N PROVE Same(n)
    OBVIOUS
  <2>1. n \in 1 .. N /\ k \in 0 .. N /\ n - 1 = k /\ n \in 0 .. N
    BY <1>2
  <2>2. pos[k] = c /\ c \in Nat /\ \A i \in 1 .. c : Plain(i)
    BY <1>7, <1>10, <2>1
  <2>3. Placed(e, x, c, pos[n])
    BY <1>8, <2>1, <2>2
  <2>4. Len(flat[n]) = c + Len(s[n]) /\ Stands(t, c + 1, s[n])
    BY <1>7, <2>1
  <2>5. x \in Nat /\ x # Quote /\ x # 0 /\ s[n] = DoubledUnit(x)
    BY <1>3, <1>5, <2>1
  <2> HIDE DEF n, x, c, Plain
  <2>6. \A q \in 1 .. Len(s[n]), m \in Nat : m = c + q => t[m] = s[n][q]
    <3> SUFFICES ASSUME NEW q \in 1 .. Len(s[n]), NEW m \in Nat, m = c + q PROVE t[m] = s[n][q]
      OBVIOUS
    <3>1. m + 1 = c + 1 + q
      BY <2>2
    <3> QED BY <2>4, <3>1 DEF Stands
  <2>7. CASE x = Backslash
    <3>1. Len(s[n]) = 2 /\ s[n][1] = x /\ s[n][2] = x
      BY <2>5, <2>7, DoubledUnitIs
    <3>2. pos[n] = c + 2 /\ e[c + 1] = x /\ e[c + 2] = x
      BY <2>3, <2>7 DEF Placed, Escaped
    <3>3. c + 1 \in Nat /\ c + 2 \in Nat /\ 1 \in 1 .. 2 /\ 2 \in 1 .. 2
      BY <2>2
    <3>4. t[c + 1] = x /\ t[c + 2] = x
      BY <2>6, <3>1, <3>3
    <3>5. Plain(c + 1) /\ Plain(c + 2)
      BY <2>5, <3>2, <3>4 DEF Plain
    <3>6. \A i \in 1 .. c + 2 : i \in 1 .. c \/ i = c + 1 \/ i = c + 2
      BY <2>2
    <3>7. \A i \in 1 .. c + 2 : Plain(i)
      BY ONLY <2>2, <3>5, <3>6
    <3> QED BY <2>4, <3>1, <3>2, <3>7
  <2>8. CASE x # Backslash
    <3>1. Len(s[n]) = 1 /\ s[n][1] = x
      BY <2>5, <2>8, DoubledUnitIs
    <3>2. pos[n] = c + 1 /\ e[c + 1] = x
      BY <2>3, <2>5, <2>8 DEF Placed, Escaped
    <3>3. c + 1 \in Nat /\ 1 \in 1 .. 1
      BY <2>2
    <3>4. t[c + 1] = x
      BY <2>6, <3>1, <3>3
    <3>5. Plain(c + 1)
      BY <2>5, <3>2, <3>4 DEF Plain
    <3>6. \A i \in 1 .. c + 1 : i \in 1 .. c \/ i = c + 1
      BY <2>2
    <3>7. \A i \in 1 .. c + 1 : Plain(i)
      BY ONLY <2>2, <3>5, <3>6
    <3> QED BY <2>4, <3>1, <3>2, <3>7
  <2> QED BY <2>7, <2>8
<1> HIDE DEF I
<1>11. Nat \subseteq I
  BY <1>9, <1>10, SetInduction
<1>12. Same(N)
  BY <1>2, <1>11 DEF I
<1>13. N \in 0 .. N
  BY <1>2
<1>14. Len(e) = Len(t) /\ t \in Seq(Nat) /\ \A i \in 1 .. Len(e) : Plain(i)
  BY <1>7, <1>8, <1>12, <1>13
<1>15. e = t
  BY ONLY <1>2, <1>14, SeqEqual
<1> QED BY <1>4, <1>14, <1>15

\* Each backslash is before another one or a quote, or at the end.
Runs(u) ==
  \A n \in 1 .. Len(u), m \in 1 .. Len(u) : m = n + 1 /\ u[n] = Backslash => Escaped(u[m])

\* u are the units of the first k characters of t, e is what the loop has made of them.
Rendered(t, k, e, u) ==
  /\ Escapes(e, u)
  /\ \A n \in 1 .. Len(u) : u[n] # 0
  /\ (\A n \in 1 .. Len(t) : t[n] # Quote) => \A n \in 1 .. Len(u) : u[n] # Quote
  /\ RunsEndInQuotes(t) => Runs(u)
  /\ RunsEndInQuotes(t) /\ Len(u) > 0 /\ u[Len(u)] = Backslash => k \in 1 .. Len(t) /\ t[k] = Backslash

LEMMA RenderedNothing ==
  ASSUME NEW t
  PROVE  Rendered(t, 0, <<>>, <<>>)
<1> DEFINE u == <<>>
<1>1. Len(u) = 0
  OBVIOUS
<1>2. Escapes(u, u)
  BY EscapesNothing
<1> HIDE DEF u
<1> QED BY <1>1, <1>2 DEF Rendered, Runs, u

LEMMA PushIs ==
  ASSUME NEW u, u \in Seq(Nat), NEW x, x \in Nat
  PROVE  /\ u \o <<x>> \in Seq(Nat) /\ Len(u) \in Nat /\ Len(u \o <<x>>) = Len(u) + 1
         /\ (u \o <<x>>)[Len(u) + 1] = x
         /\ \A k \in 1 .. Len(u) : (u \o <<x>>)[k] = u[k]
<1> DEFINE v == <<x>>
           w == u \o v
<1>1. v \in Seq(Nat) /\ Len(v) = 1 /\ v[1] = x
  OBVIOUS
<1> HIDE DEF v
<1>2. w \in Seq(Nat) /\ Len(w) = Len(u) + Len(v) /\ Len(u) \in Nat
  BY ONLY u \in Seq(Nat), <1>1, ConcatProperties, LenProperties
<1>3. /\ \A k \in 1 .. Len(u) : w[k] = u[k]
      /\ \A k \in 1 .. Len(v) : w[Len(u) + k] = v[k]
  BY ONLY u \in Seq(Nat), <1>1, ConcatProperties
<1> QED BY <1>1, <1>2, <1>3 DEF v

\* One more unit, of the character behind the first j or of the k-th.
LEMMA RenderedOne ==
  ASSUME NEW t, NEW j, NEW k, NEW e, NEW u, Rendered(t, j, e, u), NEW x, x \in Nat, x # 0,
         Len(t) \in Nat, k \in 1 .. Len(t), Escaped(x) => x = t[k],
         RunsEndInQuotes(t) /\ j \in 1 .. Len(t) /\ t[j] = Backslash => Escaped(x)
  PROVE  Rendered(t, k, e \o EscapedUnit(x), u \o <<x>>)
<1> DEFINE w == u \o <<x>>
           N == Len(u)
           M == Len(w)
<1>1. e \in Seq(Nat) /\ u \in Seq(Nat) /\ Escapes(e, u)
  BY DEF Rendered, Escapes
<1>2. Escapes(e \o EscapedUnit(x), w)
  BY <1>1, EscapesOne
<1>3. N \in Nat /\ M = N + 1 /\ w[M] = x /\ \A n \in 1 .. N : w[n] = u[n]
  BY <1>1, PushIs
<1> HIDE DEF w, N, M
<1>4. /\ (\A n \in 1 .. M : n \in 1 .. N \/ n = M)
      /\ (\A n \in 1 .. M, m \in 1 .. M : m = n + 1 => n \in 1 .. N /\ (m \in 1 .. N \/ (m = M /\ n = N /\ N > 0)))
  <2>1. N \in Nat /\ M = N + 1
    BY <1>3
  <2>2. ASSUME NEW n \in 1 .. M PROVE n \in 1 .. N \/ n = M
    BY ONLY <2>1
  <2>3. ASSUME NEW n \in 1 .. M, NEW m \in 1 .. M, m = n + 1
        PROVE  n \in 1 .. N /\ (m \in 1 .. N \/ (m = M /\ n = N /\ N > 0))
    <3>1. n \in Nat /\ n >= 1 /\ n <= N + 1 /\ n + 1 <= N + 1 /\ N \in Nat /\ m = n + 1 /\ M = N + 1
      BY ONLY <2>1, <2>3
    <3>2. n \in 1 .. N /\ N > 0
      BY ONLY <3>1
    <3>3. CASE n = N
      BY ONLY <3>1, <3>2, <3>3
    <3>4. CASE n # N
      <4>1. m \in 1 .. N
        BY ONLY <3>1, <3>2, <3>4
      <4> QED BY ONLY <3>2, <4>1
    <3> QED BY ONLY <3>3, <3>4
  <2> QED BY ONLY <2>2, <2>3, Zenon
<1>5. \A n \in 1 .. M : w[n] # 0
  <2>1. \A n \in 1 .. N : u[n] # 0
    BY DEF Rendered, N
  <2> QED BY <1>3, <1>4, <2>1
<1>6. ASSUME \A n \in 1 .. Len(t) : t[n] # Quote
      PROVE  \A n \in 1 .. M : w[n] # Quote
  <2>1. \A n \in 1 .. N : u[n] # Quote
    BY <1>6 DEF Rendered, N
  <2>2. x # Quote
    BY <1>6 DEF Escaped
  <2> QED BY ONLY <1>3, <1>4, <2>1, <2>2, Zenon
<1>7. ASSUME RunsEndInQuotes(t)
      PROVE  Runs(w)
  <2>1. \A n \in 1 .. N, m \in 1 .. N : m = n + 1 /\ u[n] = Backslash => Escaped(u[m])
    BY <1>7 DEF Rendered, Runs, N
  <2>2. N > 0 /\ u[N] = Backslash => Escaped(x)
    BY <1>7 DEF Rendered, N
  <2>3. ASSUME NEW n \in 1 .. M, NEW m \in 1 .. M, m = n + 1, w[n] = Backslash
        PROVE  Escaped(w[m])
    <3>1. n \in 1 .. N /\ u[n] = Backslash
      BY <1>3, <1>4, <2>3
    <3>2. CASE m \in 1 .. N
      BY <1>3, <2>1, <2>3, <3>1, <3>2
    <3>3. CASE m = M /\ n = N /\ N > 0
      BY <1>3, <2>2, <3>1, <3>3
    <3> QED BY <1>4, <2>3, <3>2, <3>3
  <2> QED BY <2>3 DEF Runs, M
<1>8. w[M] = Backslash => k \in 1 .. Len(t) /\ t[k] = Backslash
  BY <1>3 DEF Escaped
<1> QED BY <1>2, <1>5, <1>6, <1>7, <1>8 DEF Rendered, M, w

LEMMA TwoOfOne ==
  ASSUME NEW a \in Nat, NEW b \in Nat
  PROVE  <<a>> \o <<b>> = <<a, b>>
<1> DEFINE x == <<a>>
           y == <<b>>
           z == x \o y
           w == <<a, b>>
<1>1. x \in Seq(Nat) /\ y \in Seq(Nat) /\ Len(x) = 1 /\ Len(y) = 1 /\ x[1] = a /\ y[1] = b
  OBVIOUS
<1>2. w \in Seq(Nat) /\ Len(w) = 2 /\ w[1] = a /\ w[2] = b
  OBVIOUS
<1> HIDE DEF x, y, w
<1>3. z \in Seq(Nat) /\ Len(z) = 2 /\ z[1] = a /\ z[2] = b
  <2>1. z \in Seq(Nat) /\ Len(z) = Len(x) + Len(y)
    BY ONLY <1>1, ConcatProperties
  <2>2. \A k \in 1 .. Len(x) + Len(y) : z[k] = IF k <= Len(x) THEN x[k] ELSE y[k - Len(x)]
    BY ONLY <1>1, ConcatProperties
  <2>3. /\ 1 \in 1 .. Len(x) + Len(y) /\ 1 <= Len(x)
        /\ 2 \in 1 .. Len(x) + Len(y) /\ ~(2 <= Len(x)) /\ 2 - Len(x) = 1 /\ Len(x) + Len(y) = 2
    BY ONLY <1>1
  <2>4. z[1] = x[1]
    BY ONLY <2>2, <2>3
  <2>5. z[2] = y[1]
    BY ONLY <2>2, <2>3
  <2> QED BY ONLY <1>1, <2>1, <2>3, <2>4, <2>5
<1> HIDE DEF z
<1>4. z = w
  <2>1. \A k \in 1 .. 2 : k = 1 \/ k = 2
    OBVIOUS
  <2>2. \A k \in 1 .. Len(z) : z[k] = w[k]
    BY <1>2, <1>3, <2>1
  <2> QED BY <1>2, <1>3, <2>2, SeqEqual
<1> QED BY <1>4 DEF x, y, z, w

\* What the loops of wincmd and wincmdlen make of one character.
Piece(c) == (IF Escaped(c) THEN <<Backslash>> ELSE <<>>) \o Utf16Encode(c)

LEMMA PieceIs ==
  ASSUME NEW c, c \in Nat
  PROVE  /\ c <= 65535 => Piece(c) = EscapedUnit(c) /\ Utf16Encode(c) = <<c>>
         /\ ~(c <= 65535) /\ c <= MaxCodePoint =>
              \E h \in Nat, l \in Nat :
                /\ 55296 <= h /\ 56320 <= l
                /\ Piece(c) = <<h, l>> /\ Utf16Encode(c) = <<h, l>>
<1>1. ASSUME c <= 65535 PROVE Piece(c) = EscapedUnit(c) /\ Utf16Encode(c) = <<c>>
  <2>1. Utf16Encode(c) = <<c>>
    BY <1>1 DEF Utf16Encode
  <2>2. <<>> \o <<c>> = <<c>>
    OBVIOUS
  <2>3. <<Backslash>> \o <<c>> = <<Backslash, c>>
    BY TwoOfOne DEF Backslash
  <2> QED BY <2>1, <2>2, <2>3 DEF Piece, EscapedUnit
<1>2. ASSUME ~(c <= 65535), c <= MaxCodePoint
      PROVE  \E h \in Nat, l \in Nat :
                /\ 55296 <= h /\ 56320 <= l
                /\ Piece(c) = <<h, l>> /\ Utf16Encode(c) = <<h, l>>
  <2> DEFINE h == 55296 + ((c - 65536) \div 1024)
             l == 56320 + ((c - 65536) % 1024)
  <2>1. h \in Nat /\ l \in Nat /\ 55296 <= h /\ 56320 <= l
    BY <1>2
  <2>2. Utf16Encode(c) = <<h, l>>
    BY <1>2 DEF Utf16Encode
  <2>3. ~Escaped(c)
    BY <1>2 DEF Escaped, Backslash, Quote
  <2> HIDE DEF h, l
  <2>4. <<>> \o <<h, l>> = <<h, l>>
    BY <2>1
  <2>5. Piece(c) = <<h, l>>
    BY <2>2, <2>3, <2>4 DEF Piece
  <2> QED BY <2>1, <2>2, <2>5
<1> QED BY <1>1, <1>2

LEMMA RenderedChar ==
  ASSUME NEW t, NEW j, NEW k, NEW e, NEW u, Rendered(t, j, e, u), NEW c, c \in Character, c # 0,
         Len(t) \in Nat, k \in 1 .. Len(t), j \in Nat, k = j + 1, c = t[k], DOMAIN t = 1 .. Len(t)
  PROVE  Rendered(t, k, e \o Piece(c), u \o Utf16Encode(c))
<1>1. c \in Nat /\ c <= MaxCodePoint
  BY DEF Character
<1>2. ASSUME RunsEndInQuotes(t), j \in 1 .. Len(t), t[j] = Backslash PROVE Escaped(c)
  <2>1. j # Len(t) /\ j + 1 = k
    BY ONLY Len(t) \in Nat, k \in 1 .. Len(t), j \in Nat, k = j + 1
  <2>2. t[j + 1] \in {Backslash, Quote}
    BY <1>2, <2>1 DEF RunsEndInQuotes
  <2> QED BY <2>1, <2>2 DEF Escaped
<1>3. CASE c <= 65535
  <2>1. Rendered(t, k, e \o EscapedUnit(c), u \o <<c>>)
    BY <1>1, <1>2, RenderedOne
  <2> QED BY <1>1, <1>3, <2>1, PieceIs
<1>4. CASE ~(c <= 65535)
  <2>1. PICK h \in Nat, l \in Nat :
          /\ 55296 <= h /\ 56320 <= l /\ Piece(c) = <<h, l>> /\ Utf16Encode(c) = <<h, l>>
    BY <1>1, <1>4, PieceIs
  <2>2. ~Escaped(c) /\ ~Escaped(h) /\ ~Escaped(l) /\ h # 0 /\ l # 0
    BY <1>1, <1>4, <2>1 DEF Escaped, Backslash, Quote
  <2>3. e \in Seq(Nat) /\ u \in Seq(Nat)
    BY DEF Rendered, Escapes
  <2>4. Rendered(t, k, e \o EscapedUnit(h), u \o <<h>>)
    BY <1>2, <2>2, RenderedOne
  <2>5. t[k] # Backslash
    BY <2>2 DEF Escaped
  <2> DEFINE e1 == e \o EscapedUnit(h)
             u1 == u \o <<h>>
  <2>6. Rendered(t, k, e1 \o EscapedUnit(l), u1 \o <<l>>)
    <3> HIDE DEF e1, u1
    <3>1. Rendered(t, k, e1, u1)
      BY <2>4 DEF e1, u1
    <3> QED BY <2>2, <2>5, <3>1, RenderedOne
  <2>7. ASSUME NEW s, s \in Seq(Nat) PROVE (s \o <<h>>) \o <<l>> = s \o <<h, l>>
    <3>1. <<h>> \o <<l>> = <<h, l>>
      BY TwoOfOne
    <3>2. <<h>> \in Seq(Nat) /\ <<l>> \in Seq(Nat)
      OBVIOUS
    <3>3. (s \o <<h>>) \o <<l>> = s \o (<<h>> \o <<l>>)
      BY ONLY <2>7, <3>2, ConcatAssociative
    <3> QED BY ONLY <3>1, <3>3, Zenon
  <2>8. EscapedUnit(h) = <<h>> /\ EscapedUnit(l) = <<l>>
    BY <2>2 DEF EscapedUnit
  <2>9. e1 \o EscapedUnit(l) = e \o <<h, l>> /\ u1 \o <<l>> = u \o <<h, l>>
    <3>1. e1 = e \o <<h>>
      BY ONLY <2>8, Zenon
    <3>2. e1 \o EscapedUnit(l) = (e \o <<h>>) \o <<l>>
      BY ONLY <2>8, <3>1, Zenon
    <3> QED BY ONLY <2>3, <2>7, <3>2, Zenon
  <2> HIDE DEF e1, u1
  <2>10. Piece(c) = <<h, l>> /\ Utf16Encode(c) = <<h, l>>
    BY ONLY <2>1
  <2>11. e \o Piece(c) = e \o <<h, l>> /\ u \o Utf16Encode(c) = u \o <<h, l>>
    BY ONLY <2>10, Zenon
  <2> QED BY ONLY <2>6, <2>9, <2>11, Zenon
<1> QED BY <1>3, <1>4

\* The first byte tells whether a character is 0, a quote or a backslash.
LEMMA FirstByte ==
  ASSUME NEW c, c \in Nat, c <= MaxCodePoint
  PROVE  /\ Utf8Encode(c)[1] = 0 <=> c = 0
         /\ Escaped(Utf8Encode(c)[1]) <=> Escaped(c)
<1>1. PICK o \in Nat, l \in Nat, m \in Nat, r \in Nat : Grouped(c, o, l, m, r, Utf8Encode(c))
  BY Utf8Encoded
<1>2. CASE c < 128
  <2>1. Utf8Encode(c) = <<c>>
    BY <1>2, Utf8EncodedSeq
  <2> QED BY <2>1
<1>3. CASE ~(c < 128)
  <2>1. \E b \in Nat : b >= 192 /\ Utf8Encode(c)[1] = b
    BY <1>1, <1>3 DEF Grouped
  <2>2. PICK b \in Nat : b >= 192 /\ Utf8Encode(c)[1] = b
    BY <2>1
  <2>3. ~Escaped(b) /\ ~Escaped(c) /\ b # 0 /\ c # 0
    BY <1>3, <2>2 DEF Escaped, Backslash, Quote
  <2> QED BY <2>2, <2>3
<1> QED BY <1>2, <1>3

\* The loop over the bytes s of the text t is at at[k] when k characters are done, which
\* are the units f[k].
Scans(t, s, at, f) ==
  /\ at[0] = 1 /\ f[0] = <<>> /\ f[Len(t)] = Utf16(t) /\ s[at[Len(t)]] = 0
  /\ \A k \in 0 .. Len(t) : at[k] \in Nat
  /\ \A k \in 0 .. Len(t), n \in 1 .. Len(t) : n = k + 1 =>
       /\ Utf8Decode(s, at[k]).codepoint = t[n] /\ Utf8Decode(s, at[k]).len \in Nat
       /\ at[n] = at[k] + Utf8Decode(s, at[k]).len
       /\ s[at[k]] # 0 /\ (Escaped(s[at[k]]) <=> Escaped(t[n]))
       /\ f[n] = Behind(f[k], Utf16Encode(t[n]))

LEMMA TextIs ==
  ASSUME NEW t, t \in Seq(Character \ {0})
  PROVE  /\ Words(Append(t, 0)) /\ Len(t) \in Nat /\ DOMAIN t = 1 .. Len(t) /\ Len(Append(t, 0)) = Len(t) + 1
         /\ \A k \in 1 .. Len(t) :
              t[k] \in Character /\ t[k] # 0 /\ t[k] \in Nat /\ t[k] <= MaxCodePoint /\ Append(t, 0)[k] = t[k]
         /\ Append(t, 0)[Len(t) + 1] = 0
<1>1. 0 \in Character /\ \A c \in Character : c \in Nat /\ c <= MaxCodePoint
  BY DEF Character, MaxCodePoint
<1>2. Words(Append(t, 0))
  BY <1>1, Terminated DEF Words
<1>3. /\ Len(t) \in Nat /\ DOMAIN t = 1 .. Len(t)
      /\ \A k \in 1 .. Len(t) : t[k] \in Character \ {0}
  BY LenProperties, ElementOfSeq
<1>4. /\ Len(Append(t, 0)) = Len(t) + 1 /\ (\A k \in 1 .. Len(t) : Append(t, 0)[k] = t[k])
      /\ Append(t, 0)[Len(t) + 1] = 0
  <2>1. t \in Seq(Character)
    <3>1. t = [k \in 1 .. Len(t) |-> t[k]]
      BY LenProperties
    <3> DEFINE n == Len(t)
    <3>2. n \in Nat /\ (\A k \in 1 .. n : t[k] \in Character) /\ t = [k \in 1 .. n |-> t[k]]
      BY <1>3, <3>1
    <3> HIDE DEF n
    <3> QED BY <3>2
  <2> QED BY <1>1, <2>1, AppendProperties
<1> QED BY <1>1, <1>2, <1>3, <1>4

LEMMA ScansText ==
  ASSUME NEW t, t \in Seq(Character \ {0})
  PROVE  /\ \E at, f : Scans(t, Utf8(Append(t, 0)), at, f)
         /\ CString(Utf8(Append(t, 0))) /\ Len(Utf8(Append(t, 0))) \in Nat /\ Len(t) <= Len(Utf8(Append(t, 0)))
<1> DEFINE chars == Append(t, 0)
           N == Len(t)
           oct == Octets(chars)
           wide == Wides(t)
           s == Utf8(chars)
<1>1. /\ Words(chars) /\ N \in Nat /\ DOMAIN t = 1 .. N /\ Len(chars) = N + 1
      /\ (\A k \in 1 .. N : t[k] # 0 /\ t[k] \in Nat /\ t[k] <= MaxCodePoint /\ chars[k] = t[k])
      /\ chars[N + 1] = 0
  BY TextIs
<1>2. /\ oct \in Seq(Seq(Byte)) /\ Len(oct) = N + 1
      /\ \A k \in 1 .. N + 1 : oct[k] = Utf8Encode(chars[k]) /\ Len(oct[k]) \in Nat /\ Len(oct[k]) >= 1
  <2>1. Words(chars) /\ Len(chars) = N + 1
    BY <1>1
  <2> HIDE DEF chars, N
  <2> QED BY <2>1, OctetsAre
<1>3. /\ wide \in Seq(Seq(Nat)) /\ Len(wide) = N
      /\ \A k \in 1 .. N : wide[k] = Utf16Encode(t[k])
  BY <1>1, WidesAre
<1>4. PICK f8 : Laid(f8, oct, Byte)
  <2>1. Len(oct) # 0
    BY <1>1, <1>2
  <2> QED BY <1>2, <2>1, LaidOut
<1>5. PICK f16 : Laid(f16, wide, Nat)
  BY <1>3, LaidOut, LaidEmpty
<1>6. CString(s) /\ N + 1 <= Len(s) /\ Len(s) \in Nat /\ s = FlattenSeq(oct)
  <2>1. Words(chars) /\ Len(chars) = N + 1
    BY <1>1
  <2> HIDE DEF chars, N
  <2> QED BY <1>4, <2>1, TextString
<1>7. Utf16(t) = FlattenSeq(wide)
  BY DEF Utf16, Wides
<1> HIDE DEF chars, N, oct, wide, s
<1> DEFINE At(k) == Len(f8[k]) + 1
           at == [k \in 0 .. N |-> At(k)]
<1>8. \A k \in 0 .. N : at[k] = Len(f8[k]) + 1 /\ at[k] \in Nat
  <2>1. \A k \in 0 .. N + 1 : Len(f8[k]) \in Nat
    BY <1>2, <1>4 DEF Laid
  <2>2. \A k \in 0 .. N : k \in 0 .. N + 1
    BY <1>1
  <2> QED BY <2>1, <2>2
<1> HIDE DEF at
<1>9. ASSUME NEW k \in 0 .. N, NEW n \in 1 .. N + 1, n = k + 1
      PROVE  /\ Utf8Decode(s, at[k]) = [len |-> Len(oct[n]), codepoint |-> chars[n]]
             /\ s[at[k]] = Utf8Encode(chars[n])[1]
             /\ Len(f8[n]) + 1 = at[k] + Len(oct[n])
             /\ Len(oct[n]) \in Nat
             /\ chars[n] \in Nat /\ chars[n] <= MaxCodePoint
  <2> DEFINE i == at[k]
             c == chars[n]
             w == Len(oct[n])
             a == Len(f8[k])
             b == Len(f8[n])
  <2>1. n - 1 = k
    BY <1>9
  <2>2. Len(oct) = N + 1
    BY <1>2
  <2>3. Stands(s, a + 1, oct[n]) /\ b = a + w /\ a \in Nat
    <3>1. /\ \A j \in 0 .. N + 1 : Len(f8[j]) \in Nat
          /\ \A j \in 1 .. N + 1 :
               /\ Len(f8[j]) = Len(f8[j - 1]) + Len(oct[j])
               /\ Stands(s, Len(f8[j - 1]) + 1, oct[j])
      BY ONLY <2>2, <1>4, <1>6, Zenon DEF Laid
    <3>2. k \in 0 .. N + 1
      BY <1>1
    <3> QED BY ONLY <2>1, <3>1, <3>2, n \in 1 .. N + 1
  <2>4. i = a + 1 /\ i \in Nat
    BY <1>8
  <2>5. c \in Nat /\ c <= MaxCodePoint
    <3>1. CASE n = N + 1
      BY <1>1, <3>1 DEF MaxCodePoint
    <3>2. CASE n # N + 1
      <4>1. n \in 1 .. N
        BY <1>1, <3>2
      <4> QED BY <1>1, <4>1
    <3> QED BY <3>1, <3>2
  <2>6. oct[n] = Utf8Encode(c) /\ w \in Nat /\ w >= 1
    BY <1>2
  <2> HIDE DEF i, c, w, a, b
  <2>7. Stands(s, i, Utf8Encode(c))
    BY <2>3, <2>4, <2>6
  <2>8. Utf8Decode(s, i) = [len |-> w, codepoint |-> c]
    BY <2>4, <2>5, <2>6, <2>7, Utf8Decodes DEF w
  <2>9. s[i] = Utf8Encode(c)[1]
    <3>1. Len(Utf8Encode(c)) \in Nat /\ Len(Utf8Encode(c)) >= 1
      BY <2>5, Utf8EncodedSeq
    <3>2. 1 \in 1 .. Len(Utf8Encode(c)) /\ i + 1 = i + 1
      BY ONLY <3>1
    <3> QED BY <2>4, <2>7, <3>2 DEF Stands
  <2>10. b + 1 = i + w
    BY ONLY <2>3, <2>4, <2>6
  <2> QED BY <2>5, <2>6, <2>8, <2>9, <2>10 DEF i, c, w, b
<1>10. at[0] = 1 /\ f16[0] = <<>> /\ f16[N] = Utf16(t)
  <2>1. 0 \in 0 .. N /\ Len(f8[0]) = 0
    BY <1>1, <1>4 DEF Laid
  <2>2. at[0] = 1
    BY <1>8, <2>1
  <2>3. f16[0] = <<>> /\ f16[Len(wide)] = FlattenSeq(wide)
    BY ONLY <1>5, Zenon DEF Laid
  <2> QED BY ONLY <1>3, <1>7, <2>2, <2>3
<1>11. s[at[N]] = 0
  <2> DEFINE n == N + 1
  <2>1. N \in 0 .. N /\ n \in 1 .. N + 1 /\ n = N + 1
    BY <1>1
  <2> HIDE DEF n
  <2>2. s[at[N]] = Utf8Encode(chars[n])[1] /\ chars[n] = 0
    BY <1>1, <1>9, <2>1
  <2> QED BY <1>9, <2>1, <2>2, FirstByte
<1>12. ASSUME NEW k \in 0 .. N, NEW n \in 1 .. N, n = k + 1
       PROVE  /\ Utf8Decode(s, at[k]).codepoint = t[n] /\ Utf8Decode(s, at[k]).len \in Nat
              /\ at[n] = at[k] + Utf8Decode(s, at[k]).len
              /\ s[at[k]] # 0 /\ (Escaped(s[at[k]]) <=> Escaped(t[n]))
              /\ f16[n] = Behind(f16[k], Utf16Encode(t[n]))
  <2>1. n \in 1 .. N + 1 /\ n \in 0 .. N /\ n - 1 = k
    BY <1>1, <1>12
  <2>2. chars[n] = t[n] /\ t[n] # 0
    BY <1>1
  <2>3. /\ Utf8Decode(s, at[k]) = [len |-> Len(oct[n]), codepoint |-> t[n]]
        /\ s[at[k]] = Utf8Encode(t[n])[1]
        /\ Len(f8[n]) + 1 = at[k] + Len(oct[n])
        /\ Len(oct[n]) \in Nat
        /\ t[n] \in Nat /\ t[n] <= MaxCodePoint
    BY <1>9, <1>12, <2>1, <2>2
  <2>4. at[n] = at[k] + Len(oct[n])
    BY <1>8, <2>1, <2>3
  <2>5. s[at[k]] # 0 /\ (Escaped(s[at[k]]) <=> Escaped(t[n]))
    BY <2>2, <2>3, FirstByte
  <2>6. f16[n] = Behind(f16[k], Utf16Encode(t[n]))
    BY <1>3, <1>5, <2>1 DEF Laid
  <2> QED BY <2>3, <2>4, <2>5, <2>6
<1>13. Scans(t, s, at, f16)
  BY <1>8, <1>10, <1>11, <1>12 DEF Scans, N
<1>14. Len(t) <= Len(s)
  <2>1. N <= Len(s)
    BY <1>1, <1>6
  <2> QED BY <2>1 DEF N
<1> QED BY <1>6, <1>13, <1>14 DEF s, chars

\* A turn of wincmd takes in a character and puts out its piece, a turn of wincmdlen counts it.
Took(st, d, new) == new \in Locals /\ new.at = st.at + d.len

LEMMA PieceSeq ==
  ASSUME NEW c, c \in Nat
  PROVE  /\ Utf16Encode(c) \in Seq(Nat) /\ Piece(c) \in Seq(Nat)
         /\ Len(Piece(c)) = (IF Escaped(c) THEN 1 ELSE 0) + Len(Utf16Encode(c))
         /\ Len(Piece(c)) \in Nat /\ Len(Utf16Encode(c)) \in Nat
<1> DEFINE b == IF Escaped(c) THEN <<Backslash>> ELSE <<>>
           u == Utf16Encode(c)
           p == b \o u
<1>1. u \in Seq(Nat)
  BY Utf16EncodedSeq
<1>2. b \in Seq(Nat)
  BY DEF Backslash
<1>3. Len(b) = IF Escaped(c) THEN 1 ELSE 0
  OBVIOUS
<1>4. Piece(c) = p
  BY DEF Piece
<1> HIDE DEF b, u
<1>5. p \in Seq(Nat) /\ Len(p) = Len(b) + Len(u)
  BY <1>1, <1>2, ConcatProperties
<1>6. Len(u) \in Nat /\ Len(p) \in Nat
  BY <1>1, <1>5, LenProperties
<1> QED BY <1>1, <1>3, <1>4, <1>5, <1>6 DEF u

LEMMA EscapeTurned ==
  ASSUME NEW arg, NEW st, st \in Locals, arg[st.at] # 0, Utf8Decode(arg, st.at).len \in Nat,
         NEW c, c \in Nat, Utf8Decode(arg, st.at).codepoint = c, Escaped(arg[st.at]) <=> Escaped(c)
  PROVE  /\ Took(st, Utf8Decode(arg, st.at), EscapeTurn(arg, st))
         /\ EscapeTurn(arg, st).out = Behind(st.out, Piece(c))
<1> DEFINE d == Utf8Decode(arg, st.at)
           b == IF Escaped(arg[st.at]) THEN <<Backslash>> ELSE <<>>
           new == EscapeTurn(arg, st)
           at == st.at + d.len
           out == (st.out \o b) \o Utf16Encode(d.codepoint)
<1>1. new = [st EXCEPT !.at = at, !.out = out]
  BY Zenon DEF EscapeTurn
<1>2. out = st.out \o Piece(c)
  <2> DEFINE b2 == IF Escaped(c) THEN <<Backslash>> ELSE <<>>
             u == Utf16Encode(c)
             p == b2 \o u
  <2>1. b = b2
    BY ONLY Escaped(arg[st.at]) <=> Escaped(c), Zenon
  <2> DEFINE o == st.out
  <2>2. b2 \in Seq(Nat) /\ u \in Seq(Nat) /\ o \in Seq(Nat)
    <3>1. b2 \in Seq(Nat)
      BY DEF Backslash
    <3>2. u \in Seq(Nat)
      BY PieceSeq
    <3>3. o \in Seq(Nat)
      BY LocalsFields
    <3> QED BY ONLY <3>1, <3>2, <3>3, Zenon
  <2>3. Piece(c) = p
    BY DEF Piece
  <2> HIDE DEF b2, u, o
  <2>4. (o \o b2) \o u = o \o (b2 \o u)
    BY ONLY <2>2, ConcatAssociative
  <2>5. out = (o \o b2) \o u
    <3> HIDE DEF b
    <3> QED BY ONLY <2>1, Utf8Decode(arg, st.at).codepoint = c, Zenon DEF u, o
  <2> HIDE DEF out
  <2> QED BY ONLY <2>3, <2>4, <2>5, Zenon DEF o
<1>3. st.out \o Piece(c) \in Seq(Nat)
  <2>1. st.out \in Seq(Nat) /\ Piece(c) \in Seq(Nat)
    BY PieceSeq, LocalsFields
  <2> QED BY ONLY <2>1, ConcatProperties
<1>4. at \in Nat /\ out \in Seq(Nat)
  <2>1. st.at \in Nat
    BY LocalsFields
  <2> HIDE DEF out
  <2> QED BY <1>2, <1>3, <2>1
<1> HIDE DEF at, out, new
<1>5. new \in Locals /\ new.at = at /\ new.out = out
  BY ONLY st \in Locals, <1>1, <1>4, Zenon DEF Locals
<1> QED BY <1>2, <1>5, Zenon DEF Took, Behind, at, new

LEMMA CountTurned ==
  ASSUME NEW arg, NEW st, st \in Locals, arg[st.at] # 0, Utf8Decode(arg, st.at).len \in Nat,
         NEW c, c \in Nat, Utf8Decode(arg, st.at).codepoint = c, Escaped(arg[st.at]) <=> Escaped(c)
  PROVE  /\ Took(st, Utf8Decode(arg, st.at), CountTurn(arg, st))
         /\ CountTurn(arg, st).len = st.len + Len(Piece(c))
<1> DEFINE d == Utf8Decode(arg, st.at)
           b == IF Escaped(arg[st.at]) THEN 1 ELSE 0
           new == CountTurn(arg, st)
           at == st.at + d.len
           len == (st.len + b) + Len(Utf16Encode(d.codepoint))
<1>1. new = [st EXCEPT !.at = at, !.len = len]
  BY Zenon DEF CountTurn
<1>2. len = st.len + Len(Piece(c)) /\ at \in Nat /\ len \in Nat
  <2> DEFINE n == Len(Utf16Encode(c))
             m == Len(Piece(c))
             b2 == IF Escaped(c) THEN 1 ELSE 0
  <2>1. b = b2
    BY ONLY Escaped(arg[st.at]) <=> Escaped(c), Zenon
  <2>2. n \in Nat /\ m \in Nat /\ m = b2 + n /\ b2 \in Nat
    BY PieceSeq
  <2>3. st.at \in Nat /\ st.len \in Nat
    BY LocalsFields
  <2>4. len = (st.len + b2) + n
    <3> HIDE DEF b, b2
    <3> QED BY ONLY <2>1, Utf8Decode(arg, st.at).codepoint = c, Zenon
  <2>5. d.len \in Nat
    OBVIOUS
  <2> HIDE DEF n, m, b2, b, len, d
  <2>6. at \in Nat
    BY ONLY <2>3, <2>5 DEF at
  <2>7. len = st.len + m /\ len \in Nat
    BY ONLY <2>2, <2>3, <2>4
  <2> QED BY ONLY <2>6, <2>7 DEF m
<1> HIDE DEF at, len, new
<1>3. new \in Locals /\ new.at = at /\ new.len = len
  BY ONLY st \in Locals, <1>1, <1>2, Zenon DEF Locals
<1> QED BY <1>2, <1>3, Zenon DEF Took, at, new

\* The escape loop and the loop that counts, where k characters of t are done.
Escaping(t, at, f, k, st) == st \in Locals /\ st.at = at[k] /\ Rendered(t, k, st.out, f[k])

LEMMA EscapeStep ==
  ASSUME NEW t, t \in Seq(Character \ {0}), NEW s, NEW at, NEW f, Scans(t, s, at, f),
         NEW k, k \in 0 .. Len(t), NEW n, n \in 1 .. Len(t), n = k + 1,
         NEW st, Escaping(t, at, f, k, st)
  PROVE  /\ Escaping(t, at, f, n, EscapeTurn(s, st))
         /\ \A st2 \in Locals : st2.at = st.at /\ st2.len = Len(st.out) =>
              /\ CountTurn(s, st2) \in Locals /\ CountTurn(s, st2).at = EscapeTurn(s, st).at
              /\ CountTurn(s, st2).len = Len(EscapeTurn(s, st).out)
<1> DEFINE d == Utf8Decode(s, st.at)
           c == t[n]
           u == Utf16Encode(c)
           p == Piece(c)
           new == EscapeTurn(s, st)
<1>1. c \in Character /\ c # 0 /\ c \in Nat /\ Len(t) \in Nat /\ DOMAIN t = 1 .. Len(t)
  BY TextIs
<1>2. /\ d.codepoint = c /\ d.len \in Nat /\ at[n] = st.at + d.len
      /\ s[st.at] # 0 /\ (Escaped(s[st.at]) <=> Escaped(c))
      /\ f[n] = Behind(f[k], u) /\ st \in Locals
  <2> DEFINE i == at[k]
  <2>1. st.at = i /\ st \in Locals
    BY DEF Escaping
  <2>2. /\ Utf8Decode(s, i).codepoint = t[n] /\ Utf8Decode(s, i).len \in Nat
        /\ at[n] = i + Utf8Decode(s, i).len
        /\ s[i] # 0 /\ (Escaped(s[i]) <=> Escaped(t[n]))
        /\ f[n] = Behind(f[k], Utf16Encode(t[n]))
    BY ONLY Scans(t, s, at, f), k \in 0 .. Len(t), n \in 1 .. Len(t), n = k + 1, Zenon DEF Scans
  <2> HIDE DEF i
  <2> QED BY ONLY <2>1, <2>2, Zenon
<1> HIDE DEF c, d, u, p, new
<1>3. Took(st, d, new) /\ new.out = st.out \o p
  <2>1. Utf8Decode(s, st.at).len \in Nat /\ Utf8Decode(s, st.at).codepoint = c
    BY ONLY <1>2, Zenon DEF d
  <2>2. Took(st, Utf8Decode(s, st.at), EscapeTurn(s, st)) /\ EscapeTurn(s, st).out = Behind(st.out, Piece(c))
    <3>1. st \in Locals /\ s[st.at] # 0 /\ c \in Nat /\ (Escaped(s[st.at]) <=> Escaped(c))
      BY ONLY <1>1, <1>2, Zenon
    <3> QED BY ONLY <2>1, <3>1, EscapeTurned
  <2> QED BY ONLY <2>2, Zenon DEF d, new, p, Behind
<1>4. new \in Locals /\ new.at = at[n]
  BY <1>2, <1>3 DEF Took
<1>5. Rendered(t, n, new.out, f[n])
  <2>1. Rendered(t, k, st.out, f[k])
    BY DEF Escaping
  <2>2. Rendered(t, n, st.out \o p, f[k] \o u)
    <3>1. k \in Nat
      OBVIOUS
    <3> QED BY <1>1, <2>1, <3>1, RenderedChar DEF p, u, c
  <2>3. f[n] = f[k] \o u
    BY ONLY <1>2, Zenon DEF Behind
  <2> QED BY ONLY <1>3, <2>2, <2>3, Zenon
<1>6. ASSUME NEW st2 \in Locals, st2.at = st.at, st2.len = Len(st.out)
      PROVE  /\ CountTurn(s, st2) \in Locals /\ CountTurn(s, st2).at = new.at
             /\ CountTurn(s, st2).len = Len(new.out)
  <2> DEFINE m == CountTurn(s, st2)
  <2>1. Utf8Decode(s, st2.at) = d /\ s[st2.at] # 0 /\ (Escaped(s[st2.at]) <=> Escaped(c))
    BY ONLY <1>2, <1>6, Zenon DEF d
  <2>2. Took(st2, d, m) /\ m.len = st2.len + Len(p)
    <3>1. Utf8Decode(s, st2.at).len \in Nat /\ Utf8Decode(s, st2.at).codepoint = c
      BY ONLY <1>2, <2>1, Zenon
    <3>2. Took(st2, Utf8Decode(s, st2.at), m) /\ m.len = st2.len + Len(p)
      BY <1>1, <2>1, <3>1, CountTurned DEF p
    <3> QED BY ONLY <2>1, <3>2, Zenon
  <2>3. Len(new.out) = Len(st.out) + Len(p)
    <3> DEFINE o == st.out
               q == o \o p
    <3>1. o \in Seq(Nat) /\ p \in Seq(Nat)
      BY <1>1, <1>2, LocalsFields, PieceSeq DEF p
    <3>2. new.out = q
      BY <1>3
    <3> HIDE DEF o
    <3>3. Len(q) = Len(o) + Len(p)
      BY ONLY <3>1, ConcatProperties
    <3> HIDE DEF q
    <3> QED BY ONLY <3>2, <3>3, Zenon DEF o
  <2>4. m \in Locals /\ m.at = st2.at + d.len
    BY <2>2 DEF Took
  <2> HIDE DEF m
  <2>5. m.at = new.at
    BY <1>2, <1>4, <1>6, <2>4
  <2> QED BY <1>6, <2>2, <2>3, <2>4, <2>5 DEF m
<1> QED BY <1>4, <1>5, <1>6 DEF Escaping, new

\* wincmd escapes the units of the argument, and wincmdlen counts what it writes.
LEMMA EscapeRenders ==
  ASSUME NEW t, t \in Seq(Character \ {0})
  PROVE  /\ Rendered(t, Len(t), Escape(Utf8(Append(t, 0))), Utf16(t))
         /\ Counted(Utf8(Append(t, 0))) = Len(Escape(Utf8(Append(t, 0))))
<1> DEFINE s == Utf8(Append(t, 0))
           N == Len(t)
           turn == [st \in Locals |-> EscapeTurn(s, st)]
           turn2 == [st \in Locals |-> CountTurn(s, st)]
<1>1. PICK at, f : Scans(t, s, at, f)
  BY ScansText
<1>2. N \in Nat /\ Len(s) \in Nat /\ N <= Len(s)
  BY ScansText, TextIs
<1> HIDE DEF s, N, turn, turn2
<1> DEFINE S == [k \in Nat |-> {st \in Locals : Escaping(t, at, f, k, st)}]
           T == {p \in Locals \X Locals :
                   \E k \in 0 .. N : Escaping(t, at, f, k, p[1]) /\ p[2].at = at[k] /\ p[2].len = Len(p[1].out)}
<1>3. /\ at[0] = 1 /\ f[0] = <<>> /\ f[N] = Utf16(t) /\ s[at[N]] = 0
  BY <1>1, Zenon DEF Scans, N
<1>4. Escaping(t, at, f, 0, Begin) /\ Begin \in Locals
  <2>1. Rendered(t, 0, Begin.out, f[0])
    BY <1>3, RenderedNothing, BeginIs
  <2> QED BY <1>3, <2>1, BeginIs DEF Escaping
<1>5. \A k \in Nat : k < N => k \in 0 .. N /\ k + 1 \in 1 .. N /\ k + 1 \in 0 .. N
  BY <1>2
<1>6. ASSUME NEW k \in Nat, k < N, NEW st \in S[k] PROVE turn[st] \in S[k + 1]
  <2> DEFINE n == k + 1
  <2>1. k \in 0 .. Len(t) /\ n \in 1 .. Len(t) /\ n \in Nat
    BY <1>5, <1>6 DEF N
  <2>2. st \in Locals /\ Escaping(t, at, f, k, st)
    BY <1>6
  <2>3. Escaping(t, at, f, n, EscapeTurn(s, st))
    BY <1>1, <2>1, <2>2, EscapeStep
  <2>4. turn[st] = EscapeTurn(s, st)
    BY <2>2 DEF turn
  <2> HIDE DEF n
  <2>5. turn[st] \in S[n]
    BY <2>1, <2>3, <2>4 DEF Escaping
  <2> QED BY <2>5 DEF n
<1>7. ASSUME NEW st \in Locals, st.at = at[N]
      PROVE  turn[st] = st /\ turn2[st] = st
  <2>1. s[st.at] = 0
    BY <1>3, <1>7
  <2>2. EscapeTurn(s, st) = st /\ CountTurn(s, st) = st
    BY <2>1, Zenon DEF EscapeTurn, CountTurn
  <2> QED BY <2>2 DEF turn, turn2
<1>8. \A st \in S[N] : turn[st] = st
  BY <1>2, <1>7 DEF Escaping
<1> DEFINE e == Iterate(turn, Begin, Len(s))
           e2 == Iterate(turn2, Begin, Len(s))
<1>9. e \in S[N]
  <2>1. Begin \in S[0]
    BY <1>4
  <2> HIDE DEF S
  <2> QED BY <1>2, <1>6, <1>8, <2>1, IterateReaches
<1>10. <<e, e2>> \in T
  <2>1. <<Begin, Begin>> \in T
    <3>1. Begin.at = at[0] /\ Begin.len = Len(Begin.out) /\ 0 \in 0 .. N
      BY <1>2, <1>3, BeginIs
    <3> QED BY <1>4, <3>1
  <2>2. ASSUME NEW a, NEW b, <<a, b>> \in T PROVE <<turn[a], turn2[b]>> \in T
    <3>1. a \in Locals /\ b \in Locals
      BY <2>2
    <3>2. PICK k \in 0 .. N : Escaping(t, at, f, k, a) /\ b.at = at[k] /\ b.len = Len(a.out)
      BY <2>2
    <3>3. CASE k = N
      <4>1. turn[a] = a /\ turn2[b] = b
        BY <1>7, <3>1, <3>2, <3>3 DEF Escaping
      <4> QED BY <2>2, <4>1
    <3>4. CASE k # N
      <4> DEFINE n == k + 1
                 x == EscapeTurn(s, a)
                 y == CountTurn(s, b)
      <4>1. k \in 0 .. Len(t) /\ n \in 1 .. Len(t) /\ n \in 0 .. N
        BY <1>2, <3>4 DEF N
      <4>2. a.at = at[k]
        BY <3>2 DEF Escaping
      <4> HIDE DEF x, y
      <4>3. Escaping(t, at, f, n, x) /\ y \in Locals /\ y.at = x.at /\ y.len = Len(x.out)
        BY <1>1, <3>1, <3>2, <4>1, <4>2, EscapeStep DEF x, y
      <4>4. turn[a] = x /\ turn2[b] = y
        BY <3>1 DEF turn, turn2, x, y
      <4> HIDE DEF n
      <4>5. x \in Locals /\ y.at = at[n]
        BY <4>3 DEF Escaping
      <4> QED BY <4>1, <4>3, <4>4, <4>5
    <3> QED BY <3>3, <3>4
  <2> HIDE DEF T
  <2> QED BY <1>2, <2>1, <2>2, IteratePair
<1>11. Escape(s) = e.out /\ Counted(s) = e2.len
  BY Zenon DEF Escape, Counted, turn, turn2
<1> HIDE DEF e, e2
<1>12. Rendered(t, N, e.out, f[N])
  BY <1>2, <1>9 DEF Escaping
<1>13. e2.len = Len(e.out)
  BY <1>10
<1> QED BY <1>3, <1>11, <1>12, <1>13 DEF N, s

\* The argument e, escaped, between quotes behind the first b units of the line.
Block(line, b, e, last) ==
  /\ line[b + 1] = Quote
  /\ \A i \in 1 .. Len(e) : line[b + 1 + i] = e[i]
  /\ line[b + 2 + Len(e)] = Quote /\ line[b + 3 + Len(e)] = last

\* The n-th of the arguments E ends at o[n].
Lined(E, line, o) ==
  /\ Len(E) \in Nat /\ Len(E) >= 1
  /\ line \in Seq(Nat) /\ Len(line) = o[Len(E)] /\ o[0] = 0
  /\ \A k \in 0 .. Len(E) : o[k] \in Nat /\ o[k] <= Len(line)
  /\ \A j \in 0 .. Len(E), k \in 1 .. Len(E) : k = j + 1 =>
       /\ o[k] = o[j] + Len(E[k]) + 3 /\ Len(E[k]) \in Nat
       /\ Block(line, o[j], E[k], IF k = Len(E) THEN 0 ELSE Space)

Framed(e) == <<Quote>> \o e \o <<Quote, Space>>

LEMMA FramedIs ==
  ASSUME NEW e, e \in Seq(Nat)
  PROVE  /\ Framed(e) \in Seq(Nat) /\ Len(e) \in Nat /\ Len(Framed(e)) = Len(e) + 3
         /\ Framed(e)[1] = Quote /\ \A i \in 1 .. Len(e) : Framed(e)[i + 1] = e[i]
         /\ Framed(e)[Len(e) + 2] = Quote /\ Framed(e)[Len(e) + 3] = Space
<1> DEFINE a == <<Quote>>
           b == <<Quote, Space>>
           x == a \o e
           y == x \o b
           L == Len(e)
<1>1. a \in Seq(Nat) /\ Len(a) = 1 /\ a[1] = Quote
  BY DEF Quote
<1>2. b \in Seq(Nat) /\ Len(b) = 2 /\ b[1] = Quote /\ b[2] = Space
  BY DEF Quote, Space
<1>3. L \in Nat
  BY LenProperties
<1> HIDE DEF a, b
<1>4. /\ x \in Seq(Nat) /\ Len(x) = Len(a) + Len(e)
      /\ \A i \in 1 .. Len(a) + Len(e) : x[i] = IF i <= Len(a) THEN a[i] ELSE e[i - Len(a)]
  BY ONLY e \in Seq(Nat), <1>1, ConcatProperties
<1> HIDE DEF x
<1>5. /\ y \in Seq(Nat) /\ Len(y) = Len(x) + Len(b)
      /\ \A i \in 1 .. Len(x) + Len(b) : y[i] = IF i <= Len(x) THEN x[i] ELSE b[i - Len(x)]
  <2>1. x \in Seq(Nat) /\ b \in Seq(Nat)
    BY <1>2, <1>4
  <2> QED BY ONLY <2>1, ConcatProperties
<1> HIDE DEF y, L
<1>6. Len(x) = L + 1 /\ Len(y) = L + 3 /\ Len(a) = 1 /\ Len(b) = 2 /\ Len(e) = L
  BY <1>1, <1>2, <1>3, <1>4, <1>5 DEF L
<1>7. /\ \A i \in 1 .. L + 1 : x[i] = IF i <= 1 THEN a[i] ELSE e[i - 1]
      /\ \A i \in 1 .. L + 3 : y[i] = IF i <= L + 1 THEN x[i] ELSE b[i - (L + 1)]
  <2>1. Len(a) + Len(e) = L + 1 /\ Len(x) + Len(b) = L + 3
    BY <1>3, <1>6
  <2> QED BY ONLY <1>4, <1>5, <1>6, <2>1, Zenon
<1>8. y[1] = Quote
  <2>1. 1 \in 1 .. L + 1 /\ 1 \in 1 .. L + 3 /\ 1 <= L + 1 /\ 1 <= 1
    BY ONLY <1>3
  <2> QED BY ONLY <1>1, <1>7, <2>1
<1>9. ASSUME NEW i \in 1 .. L PROVE y[i + 1] = e[i]
  <2> DEFINE j == i + 1
  <2>1. j \in 1 .. L + 1 /\ j \in 1 .. L + 3 /\ j <= L + 1 /\ ~(j <= 1) /\ j - 1 = i
    BY ONLY <1>3
  <2> HIDE DEF j
  <2>2. y[j] = e[i]
    BY ONLY <1>7, <2>1
  <2> QED BY <2>2 DEF j
<1>10. y[L + 2] = Quote /\ y[L + 3] = Space
  <2>1. ASSUME NEW j \in 1 .. L + 3, ~(j <= L + 1) PROVE y[j] = b[j - (L + 1)]
    BY ONLY <1>7, <2>1
  <2> DEFINE j == L + 2
             k == L + 3
  <2>2. /\ j \in 1 .. L + 3 /\ ~(j <= L + 1) /\ j - (L + 1) = 1
        /\ k \in 1 .. L + 3 /\ ~(k <= L + 1) /\ k - (L + 1) = 2
    BY ONLY <1>3
  <2> HIDE DEF j, k
  <2>3. y[j] = b[j - (L + 1)] /\ y[k] = b[k - (L + 1)]
    BY ONLY <2>1, <2>2
  <2>4. y[j] = b[1]
    BY ONLY <2>2, <2>3
  <2>5. y[k] = b[2]
    BY ONLY <2>2, <2>3
  <2> QED BY <1>2, <2>4, <2>5 DEF j, k
<1>11. Framed(e) = y
  BY DEF Framed, x, y, a, b
<1> QED BY ONLY <1>3, <1>5, <1>6, <1>8, <1>9, <1>10, <1>11 DEF L

\* The line wincmd makes of escaped arguments.
LineOf(E) ==
  LET line == FlattenSeq([k \in DOMAIN E |-> Framed(E[k])])
  IN [line EXCEPT ![Len(line)] = 0]

LEMMA LineIsLined ==
  ASSUME NEW E, E \in Seq(Seq(Nat)), Len(E) # 0
  PROVE  \E o : Lined(E, LineOf(E), o)
<1> DEFINE n == Len(E)
           Q == [k \in DOMAIN E |-> Framed(E[k])]
           all == FlattenSeq(Q)
           L == Len(all)
           line == [all EXCEPT ![L] = 0]
<1>1. n \in Nat /\ n >= 1 /\ DOMAIN E = 1 .. n /\ \A k \in 1 .. n : E[k] \in Seq(Nat)
  BY LenProperties, ElementOfSeq
<1>2. \A k \in 1 .. n : Framed(E[k]) \in Seq(Nat)
  BY <1>1, FramedIs
<1>3. Q \in Seq(Seq(Nat)) /\ Len(Q) = n /\ \A k \in 1 .. n : Q[k] = Framed(E[k])
  <2> DEFINE F(k) == Framed(E[k])
             T == Seq(Nat)
  <2>1. \A k \in 1 .. n : F(k) \in T
    BY <1>2
  <2> HIDE DEF F, T, n
  <2>2. Q = [k \in 1 .. n |-> F(k)]
    BY <1>1 DEF F
  <2> HIDE DEF Q
  <2>3. Q \in Seq(T) /\ Len(Q) = n /\ \A k \in 1 .. n : Q[k] = F(k)
    BY <1>1, <2>1, <2>2
  <2> QED BY <2>3 DEF F, T
<1>4. LineOf(E) = line
  BY DEF LineOf
<1> HIDE DEF n, Q
<1>5. PICK flat : Laid(flat, Q, Nat)
  BY <1>1, <1>3, LaidOut
<1> DEFINE o == [k \in 0 .. n |-> Len(flat[k])]
<1>6. /\ \A k \in 0 .. n : flat[k] \in Seq(Nat) /\ Len(flat[k]) \in Nat
      /\ Len(flat[0]) = 0 /\ flat[n] = all
      /\ \A k \in 1 .. n :
           /\ Len(flat[k]) = Len(flat[k - 1]) + Len(Q[k]) /\ Len(Q[k]) \in Nat
           /\ Stands(all, Len(flat[k - 1]) + 1, Q[k])
  BY ONLY <1>3, <1>5, Zenon DEF Laid
<1>7. all \in Seq(Nat) /\ L \in Nat /\ 0 \in 0 .. n /\ n \in 0 .. n
  <2>1. 0 \in 0 .. n /\ n \in 0 .. n
    BY <1>1
  <2>2. all \in Seq(Nat) /\ Len(all) \in Nat
    BY <1>6, <2>1
  <2> QED BY <2>1, <2>2
<1> HIDE DEF all
<1>8. line \in Seq(Nat) /\ Len(line) = L /\ \A p \in 1 .. L : line[p] = IF p = L THEN 0 ELSE all[p]
  <2> DEFINE C(p) == IF p = L THEN 0 ELSE all[p]
  <2>1. DOMAIN all = 1 .. L /\ \A p \in 1 .. L : all[p] \in Nat
    BY <1>7, LenProperties, ElementOfSeq
  <2>2. line = [p \in 1 .. L |-> C(p)]
    BY <2>1
  <2>3. \A p \in 1 .. L : C(p) \in Nat
    BY <2>1
  <2> HIDE DEF C, L
  <2> HIDE DEF line
  <2>4. L \in Nat
    BY <1>7
  <2>5. line \in Seq(Nat) /\ Len(line) = L
    BY ONLY <2>2, <2>3, <2>4
  <2>6. \A p \in 1 .. L : line[p] = C(p)
    BY ONLY <2>2
  <2> QED BY <2>5, <2>6 DEF C, L
<1> HIDE DEF line, L
<1>9. /\ \A k \in 0 .. n : o[k] = Len(flat[k]) /\ o[k] \in Nat
      /\ o[0] = 0 /\ o[n] = L
  BY <1>6, <1>7 DEF L
<1> HIDE DEF o
<1>10. ASSUME NEW j \in 0 .. n, NEW k \in 1 .. n, k = j + 1
       PROVE  /\ o[k] = o[j] + Len(E[k]) + 3 /\ Len(E[k]) \in Nat
              /\ all[o[j] + 1] = Quote
              /\ \A i \in 1 .. Len(E[k]) : all[o[j] + 1 + i] = E[k][i]
              /\ all[o[j] + 2 + Len(E[k])] = Quote /\ all[o[j] + 3 + Len(E[k])] = Space
              /\ o[k] <= L
  <2> DEFINE e == E[k]
             q == Framed(e)
             b == o[j]
             M == Len(e)
  <2>1. k - 1 = j /\ k \in 0 .. n
    BY <1>1, <1>10
  <2>2. e \in Seq(Nat)
    BY <1>1
  <2> HIDE DEF e
  <2>3. /\ q \in Seq(Nat) /\ M \in Nat /\ Len(q) = M + 3
        /\ q[1] = Quote /\ (\A i \in 1 .. M : q[i + 1] = e[i]) /\ q[M + 2] = Quote /\ q[M + 3] = Space
    BY <2>2, FramedIs
  <2>4. Q[k] = q
    BY <1>3 DEF e
  <2>5. b = Len(flat[j]) /\ b \in Nat /\ o[k] = Len(flat[k]) /\ o[k] \in Nat
    BY <1>9, <2>1
  <2>6. M \in Nat /\ b \in Nat /\ Len(q) = M + 3
    BY <2>3, <2>5
  <2> HIDE DEF q, b, M
  <2>7. o[k] = b + Len(q) /\ Stands(all, b + 1, q)
    BY ONLY <1>6, <2>1, <2>4, <2>5, k \in 1 .. n
  <2>8. \A i \in 1 .. M + 3 : b + i <= L /\ all[b + i] = q[i]
    <3> SUFFICES ASSUME NEW i \in 1 .. M + 3 PROVE b + i <= L /\ all[b + i] = q[i]
      OBVIOUS
    <3> DEFINE p == b + i
    <3>1. i \in 1 .. Len(q) /\ p \in Nat /\ p + 1 = b + 1 + i
      BY <2>3, <2>5
    <3> HIDE DEF p
    <3>2. p <= Len(all) /\ all[p] = q[i]
      BY ONLY <2>7, <3>1 DEF Stands
    <3> QED BY <3>2 DEF p, L
  <2>9. /\ 1 \in 1 .. M + 3 /\ M + 2 \in 1 .. M + 3 /\ M + 3 \in 1 .. M + 3
        /\ b + (M + 2) = b + 2 + M /\ b + (M + 3) = b + 3 + M /\ b + M + 3 = b + (M + 3)
    BY ONLY <2>6
  <2>10. all[b + 1] = Quote /\ all[b + 2 + M] = Quote /\ all[b + 3 + M] = Space /\ b + (M + 3) <= L
    BY ONLY <2>3, <2>8, <2>9
  <2>11. ASSUME NEW i \in 1 .. M PROVE all[b + 1 + i] = e[i]
    <3>1. i + 1 \in 1 .. M + 3 /\ b + (i + 1) = b + 1 + i
      BY ONLY <2>6
    <3> QED BY ONLY <2>3, <2>8, <3>1
  <2>12. o[k] = b + M + 3
    BY ONLY <2>7, <2>6
  <2> QED BY <2>3, <2>9, <2>10, <2>11, <2>12 DEF e, b, M
<1>11. \A k \in 0 .. n : o[k] <= L
  <2> SUFFICES ASSUME NEW k \in 0 .. n PROVE o[k] <= L
    OBVIOUS
  <2>1. CASE k = 0
    BY <1>7, <1>9, <2>1
  <2>2. CASE k # 0
    <3> DEFINE j == k - 1
    <3>1. j \in 0 .. n /\ k \in 1 .. n /\ k = j + 1
      BY <1>1, <2>2
    <3> HIDE DEF j
    <3> QED BY <1>10, <3>1
  <2> QED BY <2>1, <2>2
<1>12. ASSUME NEW j \in 0 .. n, NEW k \in 1 .. n, k = j + 1
       PROVE  Block(line, o[j], E[k], IF k = n THEN 0 ELSE Space)
  <2> DEFINE e == E[k]
             b == o[j]
             M == Len(e)
             c == o[k]
  <2>1. /\ c = b + M + 3 /\ M \in Nat /\ b \in Nat
        /\ all[b + 1] = Quote
        /\ \A i \in 1 .. M : all[b + 1 + i] = e[i]
        /\ all[b + 2 + M] = Quote /\ all[b + 3 + M] = Space
        /\ c <= L
    BY <1>9, <1>10, <1>12
  <2>2. k = n => c = L
    BY <1>9
  <2>3. k # n => c < L
    <3> SUFFICES ASSUME k # n PROVE c < L
      OBVIOUS
    <3> DEFINE m == k + 1
    <3>1. k \in 0 .. n /\ m \in 1 .. n /\ m = k + 1
      BY <1>1
    <3> HIDE DEF m
    <3>2. o[m] = o[k] + Len(E[m]) + 3 /\ Len(E[m]) \in Nat /\ o[m] <= L
      BY <1>10, <3>1
    <3>3. o[k] \in Nat /\ o[m] \in Nat
      <4>1. m \in 0 .. n
        BY <3>1
      <4> QED BY <1>9, <3>1, <4>1
    <3> QED BY ONLY <3>2, <3>3, <1>7 DEF c
  <2> HIDE DEF e, b, M, c
  <2>4. \A i \in 1 .. M + 2 : b + i \in 1 .. L /\ b + i # L
    BY ONLY <2>1, <1>7
  <2>5. \A i \in 1 .. M + 2 : line[b + i] = all[b + i]
    BY ONLY <1>8, <2>4
  <2>6. line[b + 1] = Quote /\ line[b + 2 + M] = Quote
    <3>1. 1 \in 1 .. M + 2 /\ M + 2 \in 1 .. M + 2 /\ b + (M + 2) = b + 2 + M
      BY ONLY <2>1
    <3> QED BY ONLY <2>1, <2>5, <3>1
  <2>7. ASSUME NEW i \in 1 .. M PROVE line[b + 1 + i] = e[i]
    <3>1. i + 1 \in 1 .. M + 2 /\ b + (i + 1) = b + 1 + i
      BY ONLY <2>1
    <3> QED BY ONLY <2>1, <2>5, <3>1
  <2>8. line[b + 3 + M] = IF k = n THEN 0 ELSE Space
    <3>1. b + 3 + M = c /\ c \in 1 .. L
      BY ONLY <2>1, <1>7
    <3>2. CASE k = n
      BY ONLY <1>8, <2>2, <3>1, <3>2
    <3>3. CASE k # n
      <4>1. c # L
        BY ONLY <1>7, <2>3, <3>1, <3>3
      <4> QED BY ONLY <1>8, <2>1, <3>1, <3>3, <4>1
    <3> QED BY <3>2, <3>3
  <2> QED BY ONLY <2>6, <2>7, <2>8 DEF Block, e, b, M
<1>13. Lined(E, line, o)
  <2>1. \A j \in 0 .. n, k \in 1 .. n : k = j + 1 => o[k] = o[j] + Len(E[k]) + 3 /\ Len(E[k]) \in Nat
    BY <1>10
  <2>2. Len(line) = L
    BY <1>8
  <2> QED BY ONLY <1>1, <1>8, <1>9, <1>11, <1>12, <2>1, <2>2 DEF Lined, n
<1> QED BY <1>4, <1>13

LEMMA WinCmdLenIs ==
  ASSUME NEW a, Len(a) \in Nat, NEW o, o[0] = 0,
         \A k \in 1 .. Len(a) : o[k] = o[k - 1] + Counted(a[k]) + 3
  PROVE  WinCmdLen(a) = 2 * o[Len(a)]
<1> DEFINE n == Len(a)
           E(m, k) == IF k = 0 THEN 0 ELSE m[k - 1] + Counted(a[k]) + 3
           A(m) == [k \in 0 .. n |-> E(m, k)]
           sum == CHOOSE m : m = A(m)
           g == [k \in 0 .. n |-> o[k]]
<1>1. WinCmdLen(a) = 2 * sum[n]
  BY DEF WinCmdLen
<1>2. g = A(g)
  <2>1. \A k \in 0 .. n : g[k] = E(g, k)
    <3> SUFFICES ASSUME NEW k \in 0 .. n, k # 0 PROVE g[k] = g[k - 1] + Counted(a[k]) + 3
      OBVIOUS
    <3>1. k \in 1 .. n /\ k - 1 \in 0 .. n
      OBVIOUS
    <3> QED BY <3>1
  <2>2. g = [k \in 0 .. n |-> g[k]]
    OBVIOUS
  <2> HIDE DEF E, g
  <2> QED BY <2>1, <2>2
<1>3. sum = A(sum)
  <2> HIDE DEF A
  <2> QED BY <1>2
<1> HIDE DEF sum
<1>4. \A k \in 0 .. n : sum[k] = E(sum, k)
  <2> HIDE DEF E
  <2> QED BY <1>3
<1> HIDE DEF A
<1> DEFINE I == {k \in Nat : k <= n => sum[k] = o[k]}
<1>5. 0 \in I
  <2>1. 0 \in 0 .. n
    OBVIOUS
  <2> QED BY <1>4, <2>1
<1>6. ASSUME NEW k \in Nat, k \in I PROVE k + 1 \in I
  <2> DEFINE m == k + 1
  <2> SUFFICES ASSUME m <= n PROVE sum[m] = o[m]
    OBVIOUS
  <2>1. m \in 0 .. n /\ m \in 1 .. n /\ m # 0 /\ m - 1 = k
    OBVIOUS
  <2>2. sum[k] = o[k]
    BY <1>6
  <2> HIDE DEF m
  <2>3. sum[m] = sum[k] + Counted(a[m]) + 3
    BY <1>4, <2>1
  <2>4. o[m] = o[k] + Counted(a[m]) + 3
    BY <2>1
  <2> QED BY <2>2, <2>3, <2>4
<1> HIDE DEF I
<1>7. Nat \subseteq I
  BY <1>5, <1>6, SetInduction
<1> QED BY <1>1, <1>7 DEF I

\* The line for the arguments, in the memory that wincmdlen asks for.
LEMMA WinCmdLined ==
  ASSUME NEW args, args \in Seq(Seq(Character \ {0})), Len(args) # 0
  PROVE  \E E, o :
           /\ Lined(E, WinCmd(Argv(args)), o) /\ Len(E) = Len(args)
           /\ 2 * Len(WinCmd(Argv(args))) = WinCmdLen(Argv(args))
           /\ \A k \in 1 .. Len(args) : Rendered(args[k], Len(args[k]), E[k], Utf16(args[k]))
<1> DEFINE n == Len(args)
           a == Argv(args)
           E == [k \in DOMAIN a |-> Escape(a[k])]
           line == WinCmd(a)
<1>1. n \in Nat /\ n >= 1 /\ DOMAIN args = 1 .. n /\ \A k \in 1 .. n : args[k] \in Seq(Character \ {0})
  BY LenProperties, ElementOfSeq
<1>2. a = [k \in 1 .. n |-> Utf8(Append(args[k], 0))]
  BY <1>1 DEF Argv
<1>3. DOMAIN a = 1 .. n /\ Len(a) = n /\ \A k \in 1 .. n : a[k] = Utf8(Append(args[k], 0))
  BY <1>1, <1>2
<1> HIDE DEF a, n
<1>4. \A k \in 1 .. n : /\ Rendered(args[k], Len(args[k]), Escape(a[k]), Utf16(args[k]))
                        /\ Counted(a[k]) = Len(Escape(a[k]))
  BY <1>1, <1>3, EscapeRenders
<1>5. \A k \in 1 .. n : Escape(a[k]) \in Seq(Nat)
  BY <1>4 DEF Rendered, Escapes
<1>6. E \in Seq(Seq(Nat)) /\ Len(E) = n /\ DOMAIN E = DOMAIN a /\ \A k \in 1 .. n : E[k] = Escape(a[k])
  <2> DEFINE F(k) == Escape(a[k])
             T == Seq(Nat)
  <2>1. \A k \in 1 .. n : F(k) \in T
    BY <1>5
  <2> HIDE DEF F, T
  <2>2. E = [k \in 1 .. n |-> F(k)]
    BY <1>3 DEF F
  <2> HIDE DEF E
  <2>3. E \in Seq(T) /\ Len(E) = n /\ DOMAIN E = 1 .. n /\ \A k \in 1 .. n : E[k] = F(k)
    BY <1>1, <2>1, <2>2
  <2> QED BY <1>3, <2>3 DEF F, T
<1>7. line = LineOf(E)
  <2>1. [k \in DOMAIN a |-> <<Quote>> \o Escape(a[k]) \o <<Quote, Space>>] = [k \in DOMAIN E |-> Framed(E[k])]
    <3>1. \A k \in DOMAIN a : <<Quote>> \o Escape(a[k]) \o <<Quote, Space>> = Framed(E[k])
      BY <1>3, <1>6, Zenon DEF Framed
    <3> HIDE DEF E
    <3> QED BY <1>6, <3>1, Zenon
  <2> HIDE DEF E
  <2> QED BY <2>1, Zenon DEF WinCmd, LineOf
<1> HIDE DEF E, line
<1>8. PICK o : Lined(E, line, o)
  BY <1>1, <1>6, <1>7, LineIsLined
<1>9. WinCmdLen(a) = 2 * o[n]
  <2>1. \A j \in 0 .. n, k \in 1 .. n : k = j + 1 => o[k] = o[j] + Len(E[k]) + 3
    BY <1>6, <1>8 DEF Lined
  <2>2. ASSUME NEW k \in 1 .. n PROVE o[k] = o[k - 1] + Counted(a[k]) + 3
    <3> DEFINE j == k - 1
    <3>1. j \in 0 .. n /\ k = j + 1
      BY <1>1
    <3> HIDE DEF j
    <3>2. o[k] = o[j] + Len(E[k]) + 3
      BY <2>1, <3>1
    <3>3. Counted(a[k]) = Len(E[k])
      BY <1>4, <1>6
    <3> QED BY <3>2, <3>3 DEF j
  <2>3. o[0] = 0
    BY <1>8 DEF Lined
  <2> QED BY <1>1, <1>3, <2>2, <2>3, WinCmdLenIs
<1>10. Len(line) = o[n]
  BY <1>6, <1>8 DEF Lined
<1>11. \A k \in 1 .. n : Rendered(args[k], Len(args[k]), E[k], Utf16(args[k]))
  BY <1>4, <1>6
<1> QED BY <1>6, <1>8, <1>9, <1>10, <1>11 DEF n, line, a

\* The r units from p up to f are backslashes, the next one is not.
Stretch(line, p, r, f) ==
  /\ Len(line) \in Nat /\ line[Len(line)] # Backslash
  /\ p \in 1 .. Len(line) /\ r \in Nat /\ f \in 1 .. Len(line) /\ f = p + r
  /\ \A q \in p .. f : line[q] = Backslash <=> q # f

\* Run counts the backslashes from p on.
LEMMA RunIs ==
  ASSUME NEW line, NEW p, NEW r, NEW f, Stretch(line, p, r, f)
  PROVE  Run(line, p) = r
<1> DEFINE N == Len(line)
<1>1. /\ N \in Nat /\ line[N] # Backslash /\ p \in 1 .. N /\ r \in Nat /\ f \in 1 .. N /\ f = p + r
      /\ \A q \in p .. f : line[q] = Backslash <=> q # f
  BY DEF Stretch
<1> USE <1>1
<1> DEFINE E(m, q) == IF line[q] = Backslash THEN 1 + m[q + 1] ELSE 0
           A(m) == [q \in p .. N |-> E(m, q)]
           length == CHOOSE m : m = A(m)
           D(q) == {s \in q .. N : line[s] # Backslash}
           Stop(q, s) == s \in D(q) /\ \A t \in D(q) : s <= t
           stop(q) == CHOOSE s : Stop(q, s)
           g == [q \in p .. N |-> stop(q) - q]
<1>2. Run(line, p) = length[p]
  BY DEF Run
<1>3. ASSUME NEW q \in p .. N PROVE Stop(q, stop(q))
  <2>1. D(q) \in SUBSET Nat /\ N \in D(q)
    OBVIOUS
  <2> HIDE DEF D
  <2>2. \E s \in D(q) : \A t \in D(q) : s <= t
    BY <2>1, Least
  <2> QED BY <2>2
<1>4. g = A(g)
  <2>1. ASSUME NEW q \in p .. N PROVE stop(q) - q = E(g, q)
    <3>1. Stop(q, stop(q))
      BY <1>3
    <3> HIDE DEF stop
    <3>2. CASE line[q] # Backslash
      <4>1. q \in D(q)
        BY <3>2
      <4>2. stop(q) = q
        BY <3>1, <4>1
      <4> QED BY <3>2, <4>2
    <3>3. CASE line[q] = Backslash
      <4> DEFINE n == q + 1
      <4>1. n \in p .. N /\ q \in Nat /\ n \in Nat
        BY <3>3
      <4>2. D(n) = D(q)
        BY <3>3
      <4> HIDE DEF n
      <4>3. Stop(n, stop(n))
        BY <1>3, <4>1 DEF stop
      <4>4. stop(n) = stop(q) /\ stop(q) \in Nat
        <5>1. stop(n) \in D(q) /\ stop(q) \in D(q) /\ stop(n) <= stop(q) /\ stop(q) <= stop(n)
          BY <3>1, <4>2, <4>3
        <5> QED BY <5>1
      <4>5. g[n] = stop(q) - n
        BY <4>1, <4>4
      <4> HIDE DEF g
      <4> QED BY <3>3, <4>1, <4>4, <4>5 DEF n
    <3> QED BY <3>2, <3>3
  <2>2. \A q \in p .. N : g[q] = E(g, q)
    <3> HIDE DEF E, stop
    <3> QED BY <2>1
  <2>3. g = [q \in p .. N |-> g[q]]
    OBVIOUS
  <2> HIDE DEF E, g
  <2> QED BY <2>2, <2>3
<1>5. length = A(length)
  <2> HIDE DEF A
  <2> QED BY <1>4
<1> HIDE DEF length
<1>6. \A q \in p .. N : length[q] = E(length, q)
  <2> HIDE DEF E
  <2> QED BY <1>5
<1> DEFINE I == {i \in Nat : i <= r => length[f - i] = i}
<1>7. 0 \in I
  <2>1. f \in p .. N /\ f \in p .. f /\ f - 0 = f
    OBVIOUS
  <2>2. length[f] = 0
    BY <1>6, <2>1
  <2> QED BY <2>1, <2>2
<1>8. ASSUME NEW i \in Nat, i \in I PROVE i + 1 \in I
  <2> SUFFICES ASSUME i + 1 <= r PROVE length[f - (i + 1)] = i + 1
    OBVIOUS
  <2> DEFINE q == f - (i + 1)
  <2>1. q \in p .. N /\ q \in p .. f /\ q # f /\ q + 1 = f - i
    OBVIOUS
  <2>2. length[f - i] = i
    BY <1>8
  <2> HIDE DEF q
  <2>3. line[q] = Backslash
    BY <2>1
  <2>4. length[q] = 1 + length[q + 1]
    BY <1>6, <2>1, <2>3
  <2> QED BY <2>1, <2>2, <2>4 DEF q
<1> HIDE DEF I
<1>9. Nat \subseteq I
  BY <1>7, <1>8, SetInduction
<1>10. f - r = p
  OBVIOUS
<1> QED BY <1>2, <1>9, <1>10 DEF I

\* Behind the j-th unit there are m backslashes, and then no other.
Follows(u, j, m) ==
  /\ j + m <= Len(u) /\ \A n \in j + 1 .. j + m : u[n] = Backslash
  /\ \A n \in 1 .. Len(u) : n = j + m + 1 => u[n] # Backslash

LEMMA FollowsSome ==
  ASSUME NEW u, Len(u) \in Nat, NEW j \in 0 .. Len(u)
  PROVE  \E m \in Nat : Follows(u, j, m)
<1> DEFINE D == {m \in Nat : j + m <= Len(u) /\ (j + m = Len(u) \/ u[j + m + 1] # Backslash)}
<1>1. D \in SUBSET Nat /\ Len(u) - j \in D
  OBVIOUS
<1> HIDE DEF D
<1>2. PICK m \in D : \A k \in D : m <= k
  BY <1>1, Least
<1>3. m \in Nat /\ j + m <= Len(u) /\ \A n \in 1 .. Len(u) : n = j + m + 1 => u[n] # Backslash
  BY <1>2 DEF D
<1>4. ASSUME NEW n \in j + 1 .. j + m PROVE u[n] = Backslash
  <2> DEFINE k == n - 1 - j
  <2>1. k \in Nat /\ k < m /\ j + k < Len(u) /\ j + k + 1 = n
    BY <1>3
  <2> HIDE DEF k
  <2>2. k \notin D
    <3>1. ~(m <= k)
      BY <1>3, <2>1
    <3> QED BY <1>2, <3>1
  <2> QED BY <2>1, <2>2 DEF D
<1> QED BY <1>3, <1>4 DEF Follows

\* Escaped, they are twice as many.
LEMMA Doubled ==
  ASSUME NEW e, NEW u, NEW pos, Len(u) \in Nat, Len(e) \in Nat, Spread(e, u, pos),
         NEW j \in 0 .. Len(u), NEW m \in Nat, Follows(u, j, m)
  PROVE  /\ pos[j + m] = pos[j] + 2 * m /\ pos[j] \in Nat /\ pos[j + m] <= Len(e)
         /\ \A q \in 1 .. 2 * m : e[pos[j] + q] = Backslash
<1> DEFINE K(i) == /\ pos[j + i] = pos[j] + 2 * i /\ pos[j + i] <= Len(e)
                   /\ \A q \in 1 .. 2 * i : e[pos[j] + q] = Backslash
           I == {i \in Nat : i <= m => K(i)}
<1>1. \A n \in 0 .. Len(u) : pos[n] \in Nat /\ pos[n] <= Len(e)
  <2> SUFFICES ASSUME NEW n \in 0 .. Len(u) PROVE pos[n] \in Nat /\ pos[n] <= Len(e)
    OBVIOUS
  <2>1. pos[n] \in Nat
    BY DEF Spread
  <2>2. CASE n = 0
    BY <2>2 DEF Spread
  <2>3. CASE n # 0
    <3> DEFINE k == n - 1
    <3>1. k \in 0 .. Len(u) /\ n = k + 1 /\ n \in 1 .. Len(u)
      BY <2>3
    <3> HIDE DEF k
    <3>2. Placed(e, u[n], pos[k], pos[n])
      BY <3>1 DEF Spread
    <3> QED BY <2>1, <3>2 DEF Placed
  <2> QED BY <2>2, <2>3
<1>2. j + m <= Len(u)
  BY DEF Follows
<1>3. 0 \in I
  <2>1. j + 0 = j
    OBVIOUS
  <2> QED BY <1>1, <2>1
<1>4. ASSUME NEW i \in Nat, i \in I PROVE i + 1 \in I
  <2> SUFFICES ASSUME i + 1 <= m PROVE K(i + 1)
    OBVIOUS
  <2> DEFINE n == j + i
             k == j + (i + 1)
  <2>1. n \in 0 .. Len(u) /\ k \in 1 .. Len(u) /\ k = n + 1 /\ k \in j + 1 .. j + m /\ k \in 0 .. Len(u)
    BY <1>2
  <2>2. pos[n] = pos[j] + 2 * i /\ \A q \in 1 .. 2 * i : e[pos[j] + q] = Backslash
    BY <1>4
  <2> HIDE DEF n, k
  <2>3. Escaped(u[k]) /\ u[k] = Backslash
    BY <2>1 DEF Follows, Escaped
  <2>4. Placed(e, u[k], pos[n], pos[k])
    BY <2>1 DEF Spread
  <2>5. pos[k] = pos[n] + 2 /\ pos[k] <= Len(e) /\ e[pos[n] + 1] = Backslash /\ e[pos[n] + 2] = Backslash
    BY <2>3, <2>4 DEF Placed
  <2>6. pos[j] \in Nat
    BY <1>1
  <2>7. \A q \in 1 .. 2 * (i + 1) : q \in 1 .. 2 * i \/ pos[j] + q = pos[n] + 1 \/ pos[j] + q = pos[n] + 2
    <3>1. pos[n] = pos[j] + 2 * i
      BY <2>2
    <3> QED BY ONLY <2>6, <3>1, i \in Nat
  <2>8. \A q \in 1 .. 2 * (i + 1) : e[pos[j] + q] = Backslash
    BY <2>2, <2>5, <2>7
  <2>9. pos[k] = pos[j] + 2 * (i + 1)
    BY <2>2, <2>5, <2>6
  <2> QED BY <2>5, <2>8, <2>9 DEF k
<1> HIDE DEF I
<1>5. Nat \subseteq I
  BY <1>3, <1>4, SetInduction
<1>6. K(m)
  BY <1>5 DEF I
<1> QED BY <1>1, <1>6

\* The argument e, which is the units u escaped, is in the line behind its first b units.
InBlock(line, b, e, u, pos) ==
  /\ Len(line) \in Nat /\ line[Len(line)] # Backslash
  /\ b \in Nat /\ Len(e) \in Nat /\ b + 3 + Len(e) <= Len(line) /\ \E last : Block(line, b, e, last)
  /\ Spread(e, u, pos) /\ Len(u) \in Nat

\* The run of backslashes that the parser finds behind the j-th unit: the escaped ones,
\* and the one before a quote.
RunFound(line, s, u, pos, j, m) ==
  /\ pos[j] \in Nat /\ s \in 1 .. Len(line)
  /\ j + m = Len(u) =>
       Run(line, s) = 2 * m /\ line[s + 2 * m] = Quote /\ pos[j + m] = pos[j] + 2 * m
  /\ \A n \in 1 .. Len(u) : n = j + m + 1 =>
       /\ u[n] = Quote =>
            Run(line, s) = 2 * m + 1 /\ line[s + (2 * m + 1)] = Quote /\ pos[n] = pos[j] + (2 * m + 2)
       /\ u[n] # Quote =>
            /\ Run(line, s) = 2 * m /\ line[s + 2 * m] = u[n]
            /\ pos[j + m] = pos[j] + 2 * m /\ pos[n] = pos[j] + (2 * m + 1)
  /\ Run(line, s) > 0 => line[s] = Backslash

LEMMA RunInBlock ==
  ASSUME NEW line, NEW b, NEW e, NEW u, NEW pos, InBlock(line, b, e, u, pos),
         NEW j \in 0 .. Len(u), NEW m \in Nat, Follows(u, j, m)
  PROVE  \A s : s = b + 2 + pos[j] => RunFound(line, s, u, pos, j, m)
<1> SUFFICES ASSUME NEW s, s = b + 2 + pos[j] PROVE RunFound(line, s, u, pos, j, m)
  OBVIOUS
<1> DEFINE N == Len(line)
<1>1. /\ N \in Nat /\ line[N] # Backslash /\ b \in Nat /\ Len(e) \in Nat /\ b + 3 + Len(e) <= N
      /\ Spread(e, u, pos) /\ Len(u) \in Nat
  BY DEF InBlock
<1> USE <1>1
<1>2. PICK last : Block(line, b, e, last)
  BY DEF InBlock
<1> DEFINE c == pos[j]
           M == Len(e)
           d == c + 2 * m
<1>3. /\ pos[j + m] = d /\ c \in Nat /\ d \in Nat /\ d <= M /\ c <= d
      /\ \A q \in 1 .. 2 * m : e[c + q] = Backslash
  <2>1. /\ pos[j + m] = pos[j] + 2 * m /\ pos[j] \in Nat /\ pos[j + m] <= Len(e)
        /\ \A q \in 1 .. 2 * m : e[pos[j] + q] = Backslash
    BY Doubled
  <2> QED BY <2>1
<1>4. \A i \in 1 .. M : line[b + 1 + i] = e[i]
  BY <1>2 DEF Block
<1>5. line[b + 2 + M] = Quote
  BY <1>2 DEF Block
<1>6. M \in Nat /\ b + 3 + M <= N /\ s = b + 2 + c
  OBVIOUS
<1>7. c \in Nat /\ d \in Nat /\ d <= M /\ m \in Nat /\ M \in Nat /\ s = b + 2 + c /\ b \in Nat
  BY <1>3, <1>6
<1> HIDE DEF c, M
<1>8. s \in 1 .. N
  BY <1>3, <1>6
<1>9. ASSUME NEW r \in Nat, c + r <= M, \A q \in 1 .. r : e[c + q] = Backslash, line[s + r] # Backslash
      PROVE  Run(line, s) = r /\ (r > 0 => line[s] = Backslash)
  <2> DEFINE f == s + r
  <2>1. f \in 1 .. N /\ s \in 1 .. N
    BY <1>3, <1>6, <1>9
  <2>2. ASSUME NEW q \in s .. f, q # f PROVE line[q] = Backslash
    <3> DEFINE i == q + 1 - s
    <3>1. c \in Nat /\ b \in Nat /\ M \in Nat /\ s = b + 2 + c /\ c + r <= M
      BY <1>3, <1>6, <1>9
    <3>2. i \in 1 .. r /\ c + i \in 1 .. M /\ b + 1 + (c + i) = q
      BY ONLY <2>2, <3>1, r \in Nat
    <3> HIDE DEF i
    <3>3. e[c + i] = Backslash
      BY <1>9, <3>2
    <3> QED BY <1>4, <3>2, <3>3
  <2>3. line[f] # Backslash
    BY <1>9
  <2>4. r > 0 => line[s] = Backslash
    <3>1. r > 0 => s \in s .. f /\ s # f
      BY <2>1
    <3> QED BY <2>2, <3>1
  <2>5. f = s + r
    OBVIOUS
  <2> HIDE DEF f
  <2>6. \A q \in s .. f : line[q] = Backslash <=> q # f
    BY <2>2, <2>3
  <2>7. Run(line, s) = r
    BY <2>1, <2>6, <2>5, RunIs DEF Stretch
  <2> QED BY <2>4, <2>7
<1>10. ASSUME j + m = Len(u)
      PROVE  Run(line, s) = 2 * m /\ line[s + 2 * m] = Quote /\ (2 * m > 0 => line[s] = Backslash)
  <2>1. d = M
    BY <1>3, <1>10 DEF Spread, M
  <2>2. s + 2 * m = b + 2 + M
    <3>1. c + 2 * m = M
      BY ONLY <2>1 DEF d
    <3> QED BY ONLY <1>7, <3>1
  <2>3. line[s + 2 * m] = Quote
    BY <1>5, <2>2
  <2>4. line[s + 2 * m] # Backslash /\ 2 * m \in Nat
    BY <2>3 DEF Quote, Backslash
  <2>5. c + 2 * m <= M
    BY <1>3
  <2> QED BY <1>3, <1>9, <2>3, <2>4, <2>5
<1>11. ASSUME NEW n \in 1 .. Len(u), n = j + m + 1, u[n] = Quote
      PROVE  /\ Run(line, s) = 2 * m + 1 /\ line[s + (2 * m + 1)] = Quote /\ pos[n] = c + (2 * m + 2)
             /\ line[s] = Backslash
  <2> DEFINE r == 2 * m + 1
  <2>1. Placed(e, u[n], d, pos[n])
    <3> DEFINE k == j + m
    <3>1. k \in 0 .. Len(u) /\ n = k + 1
      BY <1>11
    <3> HIDE DEF k
    <3>2. Placed(e, u[n], pos[k], pos[n])
      BY <3>1 DEF Spread
    <3> QED BY <1>3, <3>2 DEF k
  <2>2. pos[n] = d + 2 /\ pos[n] <= M /\ e[d + 1] = Backslash /\ e[d + 2] = Quote
    BY <1>11, <2>1 DEF Placed, Escaped, M
  <2>3. r \in Nat /\ r > 0 /\ c + r = d + 1 /\ c + r <= M /\ pos[n] = c + (2 * m + 2)
    <3>1. pos[n] = d + 2 /\ pos[n] <= M
      BY <2>2
    <3> QED BY ONLY <1>7, <3>1
  <2>4. \A q \in 1 .. r : q \in 1 .. 2 * m \/ c + q = d + 1
    BY ONLY <1>7
  <2>5. s + r = b + 1 + (d + 2) /\ d + 2 \in 1 .. M
    <3>1. pos[n] = d + 2 /\ pos[n] <= M
      BY <2>2
    <3> QED BY ONLY <1>7, <3>1
  <2> HIDE DEF r, d
  <2>6. \A q \in 1 .. r : e[c + q] = Backslash
    BY <1>3, <2>2, <2>4
  <2>7. line[s + r] = Quote
    BY <1>4, <2>2, <2>5
  <2>8. line[s + r] # Backslash
    BY <2>7 DEF Quote, Backslash
  <2>9. Run(line, s) = r /\ line[s] = Backslash
    BY <1>9, <2>3, <2>6, <2>8
  <2> QED BY <2>3, <2>7, <2>9 DEF r
<1>12. ASSUME NEW n \in 1 .. Len(u), n = j + m + 1, u[n] # Quote
      PROVE  /\ Run(line, s) = 2 * m /\ line[s + 2 * m] = u[n] /\ pos[n] = c + (2 * m + 1)
             /\ (2 * m > 0 => line[s] = Backslash)
  <2>1. Placed(e, u[n], d, pos[n])
    <3> DEFINE k == j + m
    <3>1. k \in 0 .. Len(u) /\ n = k + 1
      BY <1>12
    <3> HIDE DEF k
    <3>2. Placed(e, u[n], pos[k], pos[n])
      BY <3>1 DEF Spread
    <3> QED BY <1>3, <3>2 DEF k
  <2>2. u[n] # Backslash
    BY <1>12 DEF Follows
  <2>3. pos[n] = d + 1 /\ pos[n] <= M /\ e[d + 1] = u[n]
    BY <1>12, <2>1, <2>2 DEF Placed, Escaped, M
  <2>4. s + 2 * m = b + 1 + (d + 1) /\ d + 1 \in 1 .. M
    <3>1. pos[n] = d + 1 /\ pos[n] <= M
      BY <2>3
    <3> QED BY ONLY <1>7, <3>1
  <2>5. line[s + 2 * m] = u[n]
    BY <1>4, <2>3, <2>4
  <2>6. line[s + 2 * m] # Backslash /\ 2 * m \in Nat
    BY <2>2, <2>5
  <2>7. c + 2 * m <= M /\ pos[n] = c + (2 * m + 1)
    BY <1>3, <2>3
  <2> QED BY <1>3, <1>9, <2>5, <2>6, <2>7
<1>13. Run(line, s) > 0 => line[s] = Backslash
  <2>1. CASE j + m = Len(u)
    BY <1>10, <2>1
  <2>2. CASE j + m # Len(u)
    <3> DEFINE n == j + m + 1
    <3>1. n \in 1 .. Len(u)
      BY <2>2 DEF Follows
    <3> HIDE DEF n
    <3>2. CASE u[n] = Quote
      BY <1>11, <3>1, <3>2 DEF n
    <3>3. CASE u[n] # Quote
      BY <1>12, <3>1, <3>3 DEF n
    <3> QED BY <3>2, <3>3
  <2> QED BY <2>1, <2>2
<1>14. pos[j + m] = c + 2 * m
  BY <1>3
<1> QED BY <1>3, <1>8, <1>10, <1>11, <1>12, <1>13, <1>14 DEF c, RunFound

\* An argument read up to its j-th unit is what was given so far, unless backslashes in it
\* are before another unit.
Carries(arg, u, j) ==
  /\ arg \in Seq(Nat)
  /\ Runs(u) => Len(arg) = j /\ \A i \in 1 .. j : arg[i] = u[i]

\* The units piece are in u behind the j-th.
Prolongs(piece, u, j, n) ==
  /\ piece \in Seq(Nat) /\ n = j + Len(piece) /\ \A i \in 1 .. Len(piece) : u[j + i] = piece[i]

LEMMA CarriesPiece ==
  ASSUME NEW arg, NEW u, NEW j \in Nat, Carries(arg, u, j), NEW piece, NEW n, Prolongs(piece, u, j, n)
  PROVE  Carries(Behind(arg, piece), u, n)
<1> DEFINE a == Behind(arg, piece)
           L == Len(arg)
           P == Len(piece)
<1>1. arg \in Seq(Nat) /\ piece \in Seq(Nat)
  BY DEF Carries, Prolongs
<1>2. L \in Nat /\ P \in Nat
  BY <1>1, LenProperties
<1>3. /\ a \in Seq(Nat) /\ Len(a) = L + P
      /\ \A i \in 1 .. L + P : a[i] = IF i <= L THEN arg[i] ELSE piece[i - L]
  BY ONLY <1>1, ConcatProperties DEF Behind
<1> HIDE DEF a, L, P
<1>4. ASSUME Runs(u) PROVE Len(a) = n /\ \A i \in 1 .. n : a[i] = u[i]
  <2>1. L = j /\ \A i \in 1 .. j : arg[i] = u[i]
    BY <1>4 DEF Carries, L
  <2>2. n = j + P /\ \A i \in 1 .. P : u[j + i] = piece[i]
    BY DEF Prolongs, P
  <2>3. ASSUME NEW i \in 1 .. n PROVE a[i] = u[i]
    <3>1. CASE i <= j
      <4>1. i \in 1 .. L + P /\ i <= L /\ i \in 1 .. j
        BY <1>2, <2>1, <2>2, <3>1
      <4> QED BY ONLY <1>3, <2>1, <4>1
    <3>2. CASE ~(i <= j)
      <4> DEFINE k == i - j
      <4>1. i \in 1 .. L + P /\ ~(i <= L) /\ i - L = k /\ k \in 1 .. P /\ j + k = i
        BY <1>2, <2>1, <2>2, <3>2
      <4> HIDE DEF k
      <4>2. a[i] = piece[k]
        BY ONLY <1>3, <4>1
      <4> QED BY ONLY <2>2, <4>1, <4>2
    <3> QED BY <3>1, <3>2
  <2> QED BY <1>3, <2>1, <2>2, <2>3
<1> QED BY <1>3, <1>4 DEF Carries, a

\* A run that nothing escaped follows is not one to carry.
LEMMA CarriesAny ==
  ASSUME NEW arg, NEW u, NEW j, Carries(arg, u, j), NEW piece, piece \in Seq(Nat), ~Runs(u), NEW n
  PROVE  Carries(Behind(arg, piece), u, n)
<1>1. arg \in Seq(Nat)
  BY DEF Carries
<1>2. Behind(arg, piece) \in Seq(Nat)
  BY ONLY <1>1, piece \in Seq(Nat), ConcatProperties DEF Behind
<1> QED BY <1>2 DEF Carries

LEMMA BackslashesIs ==
  ASSUME NEW m \in Nat
  PROVE  /\ Backslashes(m) \in Seq(Nat) /\ Len(Backslashes(m)) = m
         /\ \A i \in 1 .. m : Backslashes(m)[i] = Backslash
<1> DEFINE s == Backslashes(m)
<1>1. s = [i \in 1 .. m |-> Backslash] /\ Backslash \in Nat
  BY DEF Backslashes, Backslash
<1> HIDE DEF s
<1> QED BY <1>1 DEF s

LEMMA RunPiece ==
  ASSUME NEW u, NEW j \in Nat, NEW m \in Nat, Follows(u, j, m)
  PROVE  Prolongs(Backslashes(m), u, j, j + m)
<1>1. ASSUME NEW i \in 1 .. m PROVE u[j + i] = Backslashes(m)[i]
  <2>1. j + i \in j + 1 .. j + m
    OBVIOUS
  <2> QED BY <2>1, BackslashesIs DEF Follows
<1> QED BY <1>1, BackslashesIs DEF Prolongs

LEMMA QuotePiece ==
  ASSUME NEW u, NEW j \in Nat, NEW m \in Nat, Follows(u, j, m), NEW n, n = j + m + 1, u[n] = Quote
  PROVE  Prolongs(Backslashes(m) \o <<Quote>>, u, j, n)
<1> DEFINE s == Backslashes(m)
           q == <<Quote>>
           p == s \o q
<1>1. s \in Seq(Nat) /\ Len(s) = m /\ \A i \in 1 .. m : s[i] = Backslash
  BY BackslashesIs
<1>2. q \in Seq(Nat) /\ Len(q) = 1 /\ q[1] = Quote
  BY DEF Quote
<1> HIDE DEF s, q
<1>3. /\ p \in Seq(Nat) /\ Len(p) = Len(s) + Len(q)
      /\ \A i \in 1 .. Len(s) + Len(q) : p[i] = IF i <= Len(s) THEN s[i] ELSE q[i - Len(s)]
  <2>1. s \in Seq(Nat) /\ q \in Seq(Nat)
    BY <1>1, <1>2
  <2> QED BY ONLY <2>1, ConcatProperties
<1> HIDE DEF p
<1>4. /\ p \in Seq(Nat) /\ Len(p) = m + 1
      /\ \A i \in 1 .. m + 1 : p[i] = IF i <= m THEN s[i] ELSE q[i - m]
  <2>1. Len(s) + Len(q) = m + 1 /\ Len(s) = m
    BY <1>1, <1>2
  <2> QED BY ONLY <1>3, <2>1
<1>5. ASSUME NEW i \in 1 .. m + 1 PROVE u[j + i] = p[i]
  <2>1. CASE i <= m
    <3>1. j + i \in j + 1 .. j + m /\ i \in 1 .. m
      BY <2>1
    <3>2. u[j + i] = Backslash
      BY <3>1 DEF Follows
    <3> QED BY <1>1, <1>4, <2>1, <3>1, <3>2
  <2>2. CASE ~(i <= m)
    <3>1. i = m + 1 /\ j + i = n /\ i - m = 1
      BY <2>2
    <3>2. p[i] = q[1]
      BY <1>4, <2>2, <3>1
    <3> QED BY <1>2, <3>1, <3>2
  <2> QED BY <2>1, <2>2
<1>6. Prolongs(p, u, j, n)
  BY <1>4, <1>5 DEF Prolongs
<1> QED BY <1>6 DEF p, s, q

LEMMA OnePiece ==
  ASSUME NEW u, NEW j \in Nat, NEW n, n = j + 1, u[n] \in Nat
  PROVE  Prolongs(<<u[n]>>, u, j, n)
<1> DEFINE x == u[n]
           q == <<x>>
<1>1. q \in Seq(Nat) /\ Len(q) = 1 /\ q[1] = x
  OBVIOUS
<1> HIDE DEF q
<1>2. \A i \in 1 .. 1 : u[j + i] = q[i]
  <2>1. j + 1 = n
    OBVIOUS
  <2> QED BY <1>1, <2>1
<1> QED BY <1>1, <1>2 DEF Prolongs, q

\* The fields of a parsing state, and what taking units changes.
LEMMA ParsingFields ==
  ASSUME NEW st \in Parsing
  PROVE  /\ st.at \in Nat /\ st.quoted \in BOOLEAN
         /\ st.args \in Seq(Seq(Nat)) /\ st.arg \in Seq(Nat)
BY Zenon DEF Parsing

Taken(new, st, at, piece) ==
  /\ new \in Parsing /\ new.at = at /\ new.quoted = st.quoted
  /\ new.args = st.args /\ new.arg = Behind(st.arg, piece)

LEMMA TakeIs ==
  ASSUME NEW st \in Parsing, NEW units, units \in Seq(Nat), NEW n \in Nat
  PROVE  Taken(Take(st, units, n), st, st.at + n, units)
<1> DEFINE new == [st EXCEPT !.at = st.at + n, !.arg = Behind(st.arg, units)]
<1>1. st.at + n \in Nat
  BY ParsingFields
<1>2. Behind(st.arg, units) \in Seq(Nat)
  <2>1. st.arg \in Seq(Nat)
    BY ParsingFields
  <2> QED BY ONLY <2>1, units \in Seq(Nat), ConcatProperties DEF Behind
<1>3. Take(st, units, n) = new
  BY Zenon DEF Take, Behind
<1>4. /\ new \in Parsing /\ new.at = st.at + n /\ new.quoted = st.quoted
      /\ new.args = st.args /\ new.arg = Behind(st.arg, units)
  BY ONLY st \in Parsing, <1>1, <1>2, Zenon DEF Parsing
<1> HIDE DEF new
<1> QED BY <1>3, <1>4 DEF Taken

\* The turn from st to new looks at the unit x, a run of r backslashes begins there.
Turned(new, line, st, x, r) ==
  new = ParseTurn(line, st) /\ x = line[st.at] /\ r = Run(line, st.at)

Toggle(st) == [st EXCEPT !.at = @ + 1, !.quoted = ~@]

Does(new, line, st, x, r) ==
  /\ x = 0 => new = st
  /\ x = Space /\ ~st.quoted =>
       new = [at |-> st.at + 1, quoted |-> FALSE, args |-> Append(st.args, st.arg), arg |-> <<>>]
  /\ x = Quote => new = Toggle(st)
  /\ x # 0 /\ x # Quote /\ x # Backslash /\ st.quoted => new = Take(st, <<x>>, 1)
  /\ x # 0 /\ x # Quote /\ st.args = <<>> /\ st.quoted => new = Take(st, <<x>>, 1)
  /\ x = Backslash /\ st.args # <<>> =>
       /\ line[st.at + r] # Quote => new = Take(st, Backslashes(r), r)
       /\ line[st.at + r] = Quote /\ r % 2 = 0 => new = Take(st, Backslashes(r \div 2), r)
       /\ line[st.at + r] = Quote /\ r % 2 # 0 =>
            new = Take(st, Backslashes(r \div 2) \o <<Quote>>, r + 1)

LEMMA ParseTurnIs ==
  ASSUME NEW line, NEW st, NEW x, NEW r, NEW new, Turned(new, line, st, x, r)
  PROVE  Does(new, line, st, x, r)
<1>1. /\ Space # 0 /\ Quote # 0 /\ Backslash # 0
      /\ Quote # Space /\ Backslash # Space /\ Backslash # Quote
  BY DEF Space, Quote, Backslash
<1>2. new = IF x = 0 THEN st
            ELSE IF x = Space /\ ~st.quoted
              THEN [at |-> st.at + 1, quoted |-> FALSE, args |-> Append(st.args, st.arg), arg |-> <<>>]
            ELSE IF x = Quote THEN [st EXCEPT !.at = @ + 1, !.quoted = ~@]
            ELSE IF x # Backslash \/ st.args = <<>> THEN Take(st, <<x>>, 1)
            ELSE IF ~(line[st.at + r] = Quote) THEN Take(st, Backslashes(r), r)
            ELSE IF r % 2 = 0 THEN Take(st, Backslashes(r \div 2), r)
            ELSE Take(st, Backslashes(r \div 2) \o <<Quote>>, r + 1)
  BY Zenon DEF ParseTurn, Turned
<1>3. x = 0 => new = st
  BY ONLY <1>1, <1>2, Zenon
<1>4. x = Space /\ ~st.quoted =>
        new = [at |-> st.at + 1, quoted |-> FALSE, args |-> Append(st.args, st.arg), arg |-> <<>>]
  BY ONLY <1>1, <1>2, Zenon
<1>5. x = Quote => new = Toggle(st)
  BY ONLY <1>1, <1>2, Zenon DEF Toggle
<1>6. x # 0 /\ x # Quote /\ x # Backslash /\ st.quoted => new = Take(st, <<x>>, 1)
  BY ONLY <1>1, <1>2, Zenon
<1>7. ASSUME x = Backslash, st.args # <<>>
      PROVE  /\ line[st.at + r] # Quote => new = Take(st, Backslashes(r), r)
             /\ line[st.at + r] = Quote /\ r % 2 = 0 => new = Take(st, Backslashes(r \div 2), r)
             /\ line[st.at + r] = Quote /\ r % 2 # 0 =>
                  new = Take(st, Backslashes(r \div 2) \o <<Quote>>, r + 1)
  BY ONLY <1>1, <1>2, <1>7, Zenon
<1>8. x # 0 /\ x # Quote /\ st.args = <<>> /\ st.quoted => new = Take(st, <<x>>, 1)
  BY ONLY <1>1, <1>2, Zenon
<1> QED BY ONLY <1>3, <1>4, <1>5, <1>6, <1>7, <1>8, Zenon DEF Does

LEMMA Halves ==
  ASSUME NEW m \in Nat
  PROVE  /\ 2 * m \in Nat /\ (2 * m) % 2 = 0 /\ (2 * m) \div 2 = m
         /\ 2 * m + 1 \in Nat /\ (2 * m + 1) % 2 # 0 /\ (2 * m + 1) \div 2 = m
<1>1. m \in Int /\ 2 \in Nat \ {0} /\ 0 \in 0 .. 2 - 1 /\ 1 \in 0 .. 2 - 1
  OBVIOUS
<1>2. (2 * m + 0) \div 2 = m /\ (2 * m + 0) % 2 = 0
  BY <1>1, Division
<1>3. (2 * m + 1) \div 2 = m /\ (2 * m + 1) % 2 = 1
  BY <1>1, Division
<1>4. 2 * m + 0 = 2 * m
  OBVIOUS
<1> QED BY <1>2, <1>3, <1>4

\* A quote opens or closes.
LEMMA Toggled ==
  ASSUME NEW st \in Parsing
  PROVE  /\ Toggle(st) \in Parsing /\ Toggle(st).at = st.at + 1 /\ Toggle(st).quoted = ~st.quoted
         /\ Toggle(st).args = st.args /\ Toggle(st).arg = st.arg
<1> DEFINE new == Toggle(st)
<1>1. st.at + 1 \in Nat /\ (~st.quoted) \in BOOLEAN
  <2>1. st.at + 1 \in Nat
    BY ParsingFields
  <2>2. (~st.quoted) \in BOOLEAN
    BY Zenon
  <2> QED BY <2>1, <2>2
<1>2. new = [st EXCEPT !.at = st.at + 1, !.quoted = ~st.quoted]
  BY Zenon DEF Toggle
<1> HIDE DEF new
<1>3. /\ new \in Parsing /\ new.at = st.at + 1 /\ new.quoted = ~st.quoted
      /\ new.args = st.args /\ new.arg = st.arg
  BY ONLY st \in Parsing, <1>1, <1>2, Zenon DEF Parsing
<1> QED BY <1>3 DEF new

\* The parser is in quotes, behind the j-th unit of the argument.
Inside(st, b, u, pos, j) ==
  st.quoted = TRUE /\ st.at = b + 2 + pos[j] /\ Carries(st.arg, u, j)

\* The parser is behind the closing quote.
Finished(st, b, e, u) ==
  st.quoted = FALSE /\ st.at = b + 3 + Len(e) /\ Carries(st.arg, u, Len(u))

LEMMA TakenInside ==
  ASSUME NEW st \in Parsing, NEW b \in Nat, NEW u, NEW pos, NEW j, Inside(st, b, u, pos, j), pos[j] \in Nat,
         NEW n, NEW r \in Nat, pos[n] = pos[j] + r, NEW piece,
         NEW new, Taken(new, st, st.at + r, piece), Carries(Behind(st.arg, piece), u, n)
  PROVE  Inside(new, b, u, pos, n)
<1>1. st.at + r = b + 2 + pos[n]
  BY DEF Inside
<1>2. new.at = st.at + r /\ new.quoted = st.quoted /\ new.arg = Behind(st.arg, piece)
  BY DEF Taken
<1>3. st.quoted = TRUE
  BY DEF Inside
<1> QED BY <1>1, <1>2, <1>3 DEF Inside

\* A turn takes p units of the line, which are the units piece.
Takes(st, new, u, pos, j, piece, p, n) ==
  /\ p \in Nat /\ p > 0 /\ piece \in Seq(Nat) /\ new = Take(st, piece, p)
  /\ n \in 0 .. Len(u) /\ pos[n] = pos[j] + p /\ Carries(Behind(st.arg, piece), u, n)

\* One turn of the parser in an argument: some of its units, or the closing quote.
LEMMA TurnInside ==
  ASSUME NEW line, NEW b, NEW e, NEW u, NEW pos, InBlock(line, b, e, u, pos),
         u \in Seq(Nat), \A n \in 1 .. Len(u) : u[n] # 0,
         NEW st \in Parsing, NEW j \in 0 .. Len(u), Inside(st, b, u, pos, j),
         st.args # <<>>, NEW new, new = ParseTurn(line, st)
  PROVE  /\ new \in Parsing /\ new.args = st.args /\ new.at > st.at
         /\ (\E n \in 0 .. Len(u) : Inside(new, b, u, pos, n)) \/ Finished(new, b, e, u)
<1> DEFINE s == st.at
           x == line[s]
           r == Run(line, s)
           U == Len(u)
           N == Len(line)
           Goal == /\ new \in Parsing /\ new.args = st.args /\ new.at > st.at
                   /\ (\E n \in 0 .. U : Inside(new, b, u, pos, n)) \/ Finished(new, b, e, u)
<1>1. U \in Nat /\ (\A n \in 1 .. U : u[n] \in Nat) /\ j \in Nat
  BY LenProperties, ElementOfSeq
<1>2. PICK m \in Nat : Follows(u, j, m)
  BY <1>1, FollowsSome
<1>3. st.quoted = TRUE /\ s = b + 2 + pos[j] /\ Carries(st.arg, u, j) /\ s \in Nat
  BY ParsingFields DEF Inside
<1>4. /\ pos[j] \in Nat /\ s \in 1 .. N
      /\ j + m = U => r = 2 * m /\ line[s + 2 * m] = Quote /\ pos[j + m] = pos[j] + 2 * m
      /\ \A n \in 1 .. U : n = j + m + 1 =>
           /\ u[n] = Quote =>
                r = 2 * m + 1 /\ line[s + (2 * m + 1)] = Quote /\ pos[n] = pos[j] + (2 * m + 2)
           /\ u[n] # Quote =>
                /\ r = 2 * m /\ line[s + 2 * m] = u[n]
                /\ pos[j + m] = pos[j] + 2 * m /\ pos[n] = pos[j] + (2 * m + 1)
      /\ r > 0 => x = Backslash
  <2>1. RunFound(line, s, u, pos, j, m)
    BY <1>2, <1>3, RunInBlock
  <2> QED BY <2>1 DEF RunFound
<1>5. /\ x = Quote => new = Toggle(st)
      /\ x # 0 /\ x # Quote /\ x # Backslash /\ st.quoted => new = Take(st, <<x>>, 1)
      /\ x = Backslash /\ st.args # <<>> =>
           /\ line[s + r] # Quote => new = Take(st, Backslashes(r), r)
           /\ line[s + r] = Quote /\ r % 2 = 0 => new = Take(st, Backslashes(r \div 2), r)
           /\ line[s + r] = Quote /\ r % 2 # 0 =>
                new = Take(st, Backslashes(r \div 2) \o <<Quote>>, r + 1)
  <2>1. Turned(new, line, st, x, r)
    BY DEF Turned
  <2> HIDE DEF x, r
  <2>2. Does(new, line, st, x, r)
    BY <2>1, ParseTurnIs
  <2> QED BY ONLY <2>2, Zenon DEF Does, s
<1>6. /\ 2 * m \in Nat /\ (2 * m) % 2 = 0 /\ (2 * m) \div 2 = m
      /\ 2 * m + 1 \in Nat /\ (2 * m + 1) % 2 # 0 /\ (2 * m + 1) \div 2 = m
  BY Halves
<1>7. j + m <= U /\ j + m \in 0 .. U
  BY <1>1, <1>2 DEF Follows
<1>8. b \in Nat
  BY DEF InBlock
<1> SUFFICES Goal
  BY DEF Goal, U
<1> HIDE DEF s, x, r, U, N, Goal
<1>9. ASSUME NEW piece, NEW p, NEW n, Takes(st, new, u, pos, j, piece, p, n)
      PROVE  Goal
  <2>1. /\ p \in Nat /\ p > 0 /\ piece \in Seq(Nat) /\ new = Take(st, piece, p)
        /\ n \in 0 .. U /\ pos[n] = pos[j] + p /\ Carries(Behind(st.arg, piece), u, n)
    BY <1>9 DEF Takes, U
  <2>2. Taken(new, st, s + p, piece)
    BY <2>1, TakeIs DEF s
  <2>3. Inside(new, b, u, pos, n)
    BY <1>4, <1>8, <2>1, <2>2, TakenInside DEF s
  <2>4. new \in Parsing /\ new.args = st.args /\ new.at = s + p
    BY <2>2 DEF Taken
  <2>5. new.at > s
    BY <1>3, <2>1, <2>4
  <2> QED BY <2>1, <2>3, <2>4, <2>5 DEF s, Goal
<1>10. CASE j = U
  <2>1. m = 0
    BY <1>1, <1>7, <1>10
  <2>2. x = Quote /\ pos[j] = Len(e)
    <3>1. j + m = U /\ s + 2 * m = s
      BY <1>1, <1>3, <1>10, <2>1
    <3>2. line[s] = Quote
      BY <1>4, <3>1
    <3> QED BY <1>10, <3>2 DEF x, U, Spread, InBlock
  <2>3. /\ new \in Parsing /\ new.at = st.at + 1 /\ new.args = st.args /\ new.arg = st.arg
        /\ new.quoted = ~st.quoted
    BY <1>5, <2>2, Toggled
  <2>4. new.at = b + 3 + Len(e) /\ new.at > st.at
    <3>1. new.at = s + 1 /\ s = b + 2 + Len(e)
      BY <1>3, <2>2, <2>3 DEF s
    <3>2. Len(e) \in Nat
      BY DEF InBlock
    <3> QED BY <1>8, <3>1, <3>2 DEF s
  <2>5. Finished(new, b, e, u)
    BY <1>3, <1>10, <2>3, <2>4 DEF Finished, U
  <2> QED BY <2>3, <2>4, <2>5 DEF Goal
<1>11. CASE j # U /\ j + m = U
  <2>1. m > 0 /\ 2 * m > 0
    BY <1>1, <1>11
  <2>2. r = 2 * m /\ line[s + r] = Quote /\ pos[j + m] = pos[j] + 2 * m /\ x = Backslash
    BY <1>4, <1>11, <2>1
  <2>3. new = Take(st, Backslashes(m), 2 * m)
    BY <1>5, <1>6, <2>2
  <2>4. Carries(Behind(st.arg, Backslashes(m)), u, j + m)
    BY <1>1, <1>2, <1>3, RunPiece, CarriesPiece
  <2>5. Takes(st, new, u, pos, j, Backslashes(m), 2 * m, j + m)
    BY <1>6, <1>7, <2>1, <2>2, <2>3, <2>4, BackslashesIs DEF Takes, U
  <2> QED BY <1>9, <2>5
<1>12. CASE j + m # U
  <2> DEFINE n == j + m + 1
  <2>1. n \in 1 .. U /\ n \in 0 .. U /\ n = j + m + 1
    BY <1>1, <1>7, <1>12
  <2> HIDE DEF n
  <2>2. u[n] # Backslash
    BY <1>2, <2>1 DEF Follows, U
  <2>3. CASE u[n] = Quote
    <3> DEFINE piece == Backslashes(m) \o <<Quote>>
    <3>1. /\ r = 2 * m + 1 /\ line[s + r] = Quote /\ pos[n] = pos[j] + (2 * m + 2)
          /\ 2 * m + 2 \in Nat /\ 2 * m + 2 > 0 /\ x = Backslash /\ r + 1 = 2 * m + 2
      <4>1. r = 2 * m + 1 /\ line[s + r] = Quote /\ pos[n] = pos[j] + (2 * m + 2)
        BY <1>4, <2>1, <2>3
      <4>2. r > 0 /\ 2 * m + 2 \in Nat /\ 2 * m + 2 > 0 /\ r + 1 = 2 * m + 2
        BY <4>1
      <4> QED BY <1>4, <4>1, <4>2
    <3>2. new = Take(st, piece, 2 * m + 2)
      BY <1>5, <1>6, <3>1
    <3>3. Prolongs(piece, u, j, n)
      BY <1>1, <1>2, <2>1, <2>3, QuotePiece
    <3> HIDE DEF piece
    <3>4. Carries(Behind(st.arg, piece), u, n)
      BY <1>1, <1>3, <3>3, CarriesPiece
    <3>5. piece \in Seq(Nat)
      BY <3>3 DEF Prolongs
    <3>6. Takes(st, new, u, pos, j, piece, 2 * m + 2, n)
      BY <2>1, <3>1, <3>2, <3>4, <3>5 DEF Takes, U
    <3> QED BY <1>9, <3>6
  <2>4. CASE u[n] # Quote /\ m = 0
    <3>1. s + 2 * m = s /\ n = j + 1 /\ pos[j] + (2 * m + 1) = pos[j] + 1
      BY <1>1, <1>3, <1>4, <2>1, <2>4
    <3>2. x = u[n] /\ pos[n] = pos[j] + 1
      BY <1>4, <2>1, <2>4, <3>1 DEF x
    <3>3. u[n] \in Nat /\ u[n] # 0
      BY <1>1, <2>1 DEF U
    <3>4. new = Take(st, <<u[n]>>, 1)
      BY <1>3, <1>5, <2>2, <2>4, <3>2, <3>3
    <3>5. Prolongs(<<u[n]>>, u, j, n)
      BY <1>1, <3>1, <3>3, OnePiece
    <3> DEFINE piece == <<u[n]>>
    <3>6. piece \in Seq(Nat)
      BY <3>5 DEF Prolongs
    <3> HIDE DEF piece
    <3>7. Carries(Behind(st.arg, piece), u, n)
      BY <1>1, <1>3, <3>5, CarriesPiece DEF piece
    <3>8. new = Take(st, piece, 1)
      BY <3>4 DEF piece
    <3>9. Takes(st, new, u, pos, j, piece, 1, n)
      BY <2>1, <3>2, <3>6, <3>7, <3>8 DEF Takes, U
    <3> QED BY <1>9, <3>9
  <2>5. CASE u[n] # Quote /\ m # 0
    <3>1. m > 0 /\ 2 * m > 0
      BY <2>5
    <3>2. /\ r = 2 * m /\ line[s + r] = u[n] /\ pos[j + m] = pos[j] + 2 * m /\ x = Backslash
      BY <1>4, <2>1, <2>5, <3>1
    <3> DEFINE k == j + m
    <3>3. k \in 1 .. U /\ n = k + 1 /\ k \in j + 1 .. j + m /\ k \in 0 .. U
      BY <1>1, <1>7, <2>1, <3>1
    <3>4. pos[k] = pos[j] + 2 * m
      BY <3>2
    <3> HIDE DEF k
    <3>5. u[k] = Backslash
      BY <1>2, <3>3 DEF Follows
    <3>6. new = Take(st, Backslashes(2 * m), 2 * m)
      BY <1>5, <2>5, <3>2
    <3>7. ~Runs(u)
      <4>1. ~Escaped(u[n])
        BY <2>2, <2>5 DEF Escaped
      <4> QED BY <2>1, <3>3, <3>5, <4>1 DEF Runs, U
    <3>8. Backslashes(2 * m) \in Seq(Nat)
      BY <1>6, BackslashesIs
    <3>9. Carries(Behind(st.arg, Backslashes(2 * m)), u, k)
      BY <1>3, <3>7, <3>8, CarriesAny
    <3>10. Takes(st, new, u, pos, j, Backslashes(2 * m), 2 * m, k)
      BY <1>6, <3>1, <3>3, <3>4, <3>6, <3>8, <3>9 DEF Takes, U
    <3> QED BY <1>9, <3>10
  <2> QED BY <2>3, <2>4, <2>5
<1> QED BY <1>10, <1>11, <1>12

\* The arguments E of the line are the units U, escaped, which are at the positions pos.
\* The first has no quote and no zero.
Spelled(E, line, o, U, pos) ==
  /\ Lined(E, line, o)
  /\ \A j \in 0 .. Len(E), k \in 1 .. Len(E) : k = j + 1 =>
       /\ InBlock(line, o[j], E[k], U[k], pos[k])
       /\ U[k] \in Seq(Nat) /\ \A i \in 1 .. Len(U[k]) : U[k][i] # 0
  /\ E[1] \in Seq(Nat) /\ \A i \in 1 .. Len(E[1]) : E[1][i] # Quote /\ E[1][i] # 0

LEMMA SpelledIs ==
  ASSUME NEW E, NEW line, NEW o, Lined(E, line, o), NEW U,
         \A k \in 1 .. Len(E) : Escapes(E[k], U[k]) /\ \A i \in 1 .. Len(U[k]) : U[k][i] # 0,
         E[1] \in Seq(Nat), \A i \in 1 .. Len(E[1]) : E[1][i] # Quote /\ E[1][i] # 0
  PROVE  \E pos : Spelled(E, line, o, U, pos)
<1> DEFINE n == Len(E)
           L == Len(line)
           Pos(k) == CHOOSE p : Spread(E[k], U[k], p)
           pos == [k \in 1 .. n |-> Pos(k)]
<1>1. \A k \in 1 .. n : Spread(E[k], U[k], Pos(k)) /\ U[k] \in Seq(Nat)
  BY DEF Escapes
<1>2. \A k \in 1 .. n : Spread(E[k], U[k], pos[k]) /\ U[k] \in Seq(Nat)
  <2> HIDE DEF Pos
  <2> QED BY <1>1
<1> HIDE DEF pos
<1>3. /\ n \in Nat /\ n >= 1 /\ line \in Seq(Nat) /\ L = o[n] /\ o[0] = 0
      /\ \A k \in 0 .. n : o[k] \in Nat /\ o[k] <= L
      /\ \A j \in 0 .. n, k \in 1 .. n : k = j + 1 =>
           /\ o[k] = o[j] + Len(E[k]) + 3 /\ Len(E[k]) \in Nat
           /\ Block(line, o[j], E[k], IF k = n THEN 0 ELSE Space)
  BY DEF Lined
<1>4. L \in Nat
  BY <1>3, LenProperties
<1>5. line[L] # Backslash
  <2> DEFINE j == n - 1
  <2>1. j \in 0 .. n /\ n \in 1 .. n /\ n = j + 1
    BY <1>3
  <2> HIDE DEF j, n, L
  <2>2. Block(line, o[j], E[n], 0) /\ o[n] = o[j] + Len(E[n]) + 3 /\ Len(E[n]) \in Nat
    BY <1>3, <2>1
  <2>3. o[j] + 3 + Len(E[n]) = L
    <3>1. o[j] \in Nat
      BY <1>3, <2>1
    <3>2. L = o[n] /\ o[n] = o[j] + Len(E[n]) + 3 /\ Len(E[n]) \in Nat
      BY <1>3, <2>2
    <3> QED BY ONLY <3>1, <3>2
  <2>4. line[o[j] + 3 + Len(E[n])] = 0
    BY <2>2 DEF Block
  <2> QED BY <2>3, <2>4 DEF Backslash
<1>6. ASSUME NEW j \in 0 .. n, NEW k \in 1 .. n, k = j + 1
      PROVE  InBlock(line, o[j], E[k], U[k], pos[k])
  <2>1. /\ o[k] = o[j] + Len(E[k]) + 3 /\ Len(E[k]) \in Nat
        /\ Block(line, o[j], E[k], IF k = n THEN 0 ELSE Space)
    BY <1>3, <1>6
  <2>2. o[j] \in Nat /\ k \in 0 .. n /\ o[k] <= L
    BY <1>3
  <2>3. o[j] + 3 + Len(E[k]) <= L
    BY <1>3, <1>4, <2>1, <2>2
  <2>4. Len(U[k]) \in Nat /\ Spread(E[k], U[k], pos[k])
    BY <1>2, LenProperties
  <2> QED BY <1>4, <1>5, <2>1, <2>2, <2>3, <2>4 DEF InBlock
<1>7. Spelled(E, line, o, U, pos)
  BY <1>2, <1>6 DEF Spelled
<1> QED BY <1>7

\* The first argument is as it is in the line, the i-th of the others as it was given if
\* its backslashes are before quotes or at its end.
Right(arg, E, U, i) ==
  (i = 1 => arg = E[i]) /\ (i # 1 /\ Runs(U[i]) => arg = U[i])

\* The first j arguments as the parser has read them.
Heard(done, E, U, j) ==
  Len(done) = j /\ \A i \in 1 .. j : Right(done[i], E, U, i)

\* The parser is before the opening quote behind the first b units.
Opening(st, b) ==
  st.quoted = FALSE /\ st.at = b + 1 /\ st.arg = <<>>

\* The parser is in the first argument, which knows no escapes, behind its q-th unit.
InFirst(st, b, e, q) ==
  /\ st.quoted = TRUE /\ st.at = b + 2 + q
  /\ Len(st.arg) = q /\ \A i \in 1 .. q : st.arg[i] = e[i]

\* The parser is behind the closing quote of the k-th argument.
PastQuote(st, E, o, U, j, k) ==
  st.quoted = FALSE /\ st.at = o[j] + 3 + Len(E[k]) /\ Right(st.arg, E, U, k)

\* The parser is in the k-th argument, which is behind the j-th.
ParsedTo(st, E, o, U, pos, j, k) ==
  /\ st \in Parsing /\ j \in 0 .. Len(E) /\ k \in 1 .. Len(E) /\ k = j + 1
  /\ Heard(st.args, E, U, j)
  /\ \/ Opening(st, o[j])
     \/ k = 1 /\ \E q \in 0 .. Len(E[k]) : InFirst(st, o[j], E[k], q)
     \/ k # 1 /\ \E i \in 0 .. Len(U[k]) : Inside(st, o[j], U[k], pos[k], i)
     \/ PastQuote(st, E, o, U, j, k)

\* An argument read to its end is the one given, unless backslashes in it are before
\* another unit.
LEMMA CarriesAll ==
  ASSUME NEW arg, NEW u, u \in Seq(Nat), Carries(arg, u, Len(u)), Runs(u)
  PROVE  arg = u
<1>1. arg \in Seq(Nat) /\ Len(arg) = Len(u) /\ \A i \in 1 .. Len(u) : arg[i] = u[i]
  BY DEF Carries
<1> QED BY ONLY <1>1, u \in Seq(Nat), SeqEqual

LEMMA HeardMore ==
  ASSUME NEW done, done \in Seq(Seq(Nat)), NEW E, NEW U, NEW j \in Nat, Heard(done, E, U, j),
         NEW arg, arg \in Seq(Nat), NEW k, k = j + 1, Right(arg, E, U, k)
  PROVE  Append(done, arg) \in Seq(Seq(Nat)) /\ Heard(Append(done, arg), E, U, k)
<1> DEFINE T == Seq(Nat)
           a == Append(done, arg)
<1> HIDE DEF T
<1>1. done \in Seq(T) /\ arg \in T
  BY DEF T
<1>2. /\ a \in Seq(T) /\ Len(a) = Len(done) + 1
      /\ \A i \in 1 .. Len(done) : a[i] = done[i]
      /\ a[Len(done) + 1] = arg
  BY ONLY <1>1, AppendProperties
<1> HIDE DEF a
<1>3. Len(done) = j /\ \A i \in 1 .. j : Right(done[i], E, U, i)
  BY DEF Heard
<1>4. ASSUME NEW i \in 1 .. k PROVE Right(a[i], E, U, i)
  <2>1. CASE i = k
    BY <1>2, <1>3, <2>1
  <2>2. CASE i # k
    <3>1. i \in 1 .. j
      BY <2>2
    <3> QED BY <1>2, <1>3, <3>1
  <2> QED BY <2>1, <2>2
<1>5. Len(a) = k
  BY <1>2, <1>3
<1> QED BY <1>2, <1>4, <1>5 DEF Heard, T, a

\* The new state is further in the line, or this is its end.
Ahead(new, st, line, E, o, U, pos) ==
  /\ \E j, k : ParsedTo(new, E, o, U, pos, j, k)
  /\ new.at > st.at \/ (new = st /\ st.at = Len(line))

LEMMA ParseOpening ==
  ASSUME NEW line, NEW E, NEW o, NEW U, NEW pos, Spelled(E, line, o, U, pos),
         NEW st, NEW j, NEW k, ParsedTo(st, E, o, U, pos, j, k), Opening(st, o[j])
  PROVE  Ahead(ParseTurn(line, st), st, line, E, o, U, pos)
<1> DEFINE new == ParseTurn(line, st)
           x == line[st.at]
           r == Run(line, st.at)
           b == o[j]
<1>1. st \in Parsing /\ j \in 0 .. Len(E) /\ k \in 1 .. Len(E) /\ k = j + 1 /\ Heard(st.args, E, U, j)
  BY DEF ParsedTo
<1>2. InBlock(line, b, E[k], U[k], pos[k])
  BY <1>1 DEF Spelled
<1>3. st.quoted = FALSE /\ st.at = b + 1 /\ st.arg = <<>> /\ b \in Nat
  BY <1>2 DEF Opening, InBlock
<1>4. x = Quote
  BY <1>2, <1>3 DEF InBlock, Block
<1>5. Turned(new, line, st, x, r)
  BY DEF Turned
<1>6. pos[k][0] = 0 /\ 0 \in 0 .. Len(U[k])
  BY <1>2 DEF InBlock, Spread
<1> HIDE DEF new, x, r, b
<1>7. Does(new, line, st, x, r)
  BY <1>5, ParseTurnIs
<1>8. new = Toggle(st)
  BY <1>4, <1>7 DEF Does
<1>9. /\ new \in Parsing /\ new.at = st.at + 1 /\ new.quoted = ~st.quoted
      /\ new.args = st.args /\ new.arg = st.arg
  BY <1>1, <1>8, Toggled
<1>10. Carries(<<>>, U[k], 0)
  <2> DEFINE a == <<>>
  <2>1. a \in Seq(Nat) /\ Len(a) = 0
    OBVIOUS
  <2> HIDE DEF a
  <2>2. Carries(a, U[k], 0)
    BY <2>1 DEF Carries
  <2> QED BY <2>2 DEF a
<1>11. Inside(new, b, U[k], pos[k], 0)
  <2>1. new.at = b + 2 + pos[k][0]
    BY <1>3, <1>6, <1>9
  <2>2. new.quoted = TRUE
    BY <1>3, <1>9
  <2>3. Carries(new.arg, U[k], 0)
    BY <1>3, <1>9, <1>10, Zenon
  <2> QED BY <2>1, <2>2, <2>3 DEF Inside
<1>12. InFirst(new, b, E[k], 0)
  <2>1. new.at = b + 2 + 0
    BY <1>3, <1>9
  <2>2. new.quoted = TRUE
    BY <1>3, <1>9
  <2>3. new.arg = <<>>
    BY <1>3, <1>9, Zenon
  <2>4. Len(new.arg) = 0
    BY <2>3
  <2>5. \A i \in 1 .. 0 : new.arg[i] = E[k][i]
    OBVIOUS
  <2> QED BY <2>1, <2>2, <2>4, <2>5 DEF InFirst
<1>13. 0 \in 0 .. Len(E[k])
  BY <1>2 DEF InBlock
<1>14. ParsedTo(new, E, o, U, pos, j, k)
  BY <1>1, <1>6, <1>9, <1>11, <1>12, <1>13 DEF ParsedTo, b
<1>15. new.at > st.at
  BY <1>3, <1>9
<1> QED BY <1>14, <1>15 DEF Ahead, new

\* One turn of the parser in the first argument: one of its units, or the closing quote.
LEMMA ParseLiteral ==
  ASSUME NEW line, NEW E, NEW o, NEW U, NEW pos, Spelled(E, line, o, U, pos),
         NEW st, NEW j, NEW k, ParsedTo(st, E, o, U, pos, j, k), k = 1,
         NEW q \in 0 .. Len(E[k]), InFirst(st, o[j], E[k], q)
  PROVE  Ahead(ParseTurn(line, st), st, line, E, o, U, pos)
<1> DEFINE new == ParseTurn(line, st)
           x == line[st.at]
           r == Run(line, st.at)
           b == o[j]
           e == E[k]
           M == Len(e)
           arg == st.arg
<1>1. st \in Parsing /\ j \in 0 .. Len(E) /\ k \in 1 .. Len(E) /\ k = j + 1 /\ Heard(st.args, E, U, j)
  BY DEF ParsedTo
<1>2. InBlock(line, b, e, U[k], pos[k])
  BY <1>1 DEF Spelled
<1>3. /\ b \in Nat /\ M \in Nat /\ (\A i \in 1 .. M : line[b + 1 + i] = e[i])
      /\ line[b + 2 + M] = Quote
  BY <1>2 DEF InBlock, Block
<1>4. /\ st.quoted = TRUE /\ st.at = b + 2 + q /\ q \in Nat /\ q <= M
      /\ Len(arg) = q /\ \A i \in 1 .. q : arg[i] = e[i]
  BY <1>3 DEF InFirst
<1>5. e \in Seq(Nat) /\ \A i \in 1 .. M : e[i] # Quote /\ e[i] # 0
  BY DEF Spelled
<1>6. arg \in Seq(Nat) /\ st.args \in Seq(Seq(Nat)) /\ st.at \in Nat
  BY <1>1, ParsingFields
<1>7. st.args = <<>>
  <2>1. Len(st.args) = 0
    BY <1>1 DEF Heard
  <2> DEFINE T == Seq(Nat)
             done == st.args
  <2>2. done \in Seq(T) /\ Len(done) = 0
    BY <1>6, <2>1
  <2> HIDE DEF T, done
  <2>3. done = <<>>
    BY ONLY <2>2, EmptySeq
  <2> QED BY <2>3 DEF done
<1>8. Turned(new, line, st, x, r)
  BY DEF Turned
<1> HIDE DEF new, x, r, b, e, M, arg
<1>9. Does(new, line, st, x, r)
  BY <1>8, ParseTurnIs
<1>10. CASE q = M
  <2>1. x = Quote
    BY <1>3, <1>4, <1>10 DEF x
  <2>2. new = Toggle(st)
    BY <1>9, <2>1 DEF Does
  <2>3. /\ new \in Parsing /\ new.at = st.at + 1 /\ new.quoted = ~st.quoted
        /\ new.args = st.args /\ new.arg = arg
    BY <1>1, <2>2, Toggled DEF arg
  <2>4. arg = e
    BY ONLY <1>4, <1>5, <1>6, <1>10, SeqEqual DEF M
  <2>5. Right(new.arg, E, U, k)
    BY <2>3, <2>4 DEF Right, e
  <2>6. new.quoted = FALSE
    BY <1>4, <2>3
  <2>7. new.at = b + 3 + M /\ new.at > st.at
    BY <1>3, <1>4, <1>10, <2>3
  <2>8. PastQuote(new, E, o, U, j, k)
    BY <2>5, <2>6, <2>7 DEF PastQuote, b, M, e
  <2>9. ParsedTo(new, E, o, U, pos, j, k)
    BY <1>1, <2>3, <2>8 DEF ParsedTo
  <2> QED BY <2>7, <2>9 DEF Ahead, new
<1>11. CASE q # M
  <2> DEFINE n == q + 1
             piece == <<x>>
  <2>1. n \in 1 .. M /\ b + 1 + n = st.at /\ n \in 0 .. M
    BY <1>3, <1>4, <1>11
  <2> HIDE DEF n
  <2>2. x = e[n]
    <3>1. line[b + 1 + n] = e[n]
      BY <1>3, <2>1
    <3> QED BY <2>1, <3>1 DEF x
  <2>3. x # Quote /\ x # 0 /\ x \in Nat
    <3>1. e[n] \in Nat
      BY <1>5, <2>1, ElementOfSeq DEF M
    <3> QED BY <1>5, <2>1, <2>2, <3>1
  <2>4. new = Take(st, piece, 1)
    BY <1>4, <1>7, <1>9, <2>3 DEF Does
  <2>5. piece \in Seq(Nat) /\ 1 \in Nat
    BY <2>3
  <2> HIDE DEF piece
  <2>6. Taken(new, st, st.at + 1, piece)
    BY <1>1, <2>4, <2>5, TakeIs
  <2>7. /\ new \in Parsing /\ new.at = st.at + 1 /\ new.quoted = st.quoted
        /\ new.args = st.args /\ new.arg = Behind(arg, piece)
    BY <2>6 DEF Taken, arg
  <2>8. Behind(arg, piece) = arg \o <<x>>
    BY DEF Behind, piece
  <2>9. /\ Len(arg \o <<x>>) = q + 1 /\ (arg \o <<x>>)[q + 1] = x
        /\ \A i \in 1 .. q : (arg \o <<x>>)[i] = arg[i]
    BY <1>4, <1>6, <2>3, PushIs
  <2>10. Len(new.arg) = n /\ \A i \in 1 .. n : new.arg[i] = e[i]
    <3>1. new.arg = arg \o <<x>>
      BY <2>7, <2>8
    <3> DEFINE a == arg \o <<x>>
    <3>2. Len(a) = n /\ a[n] = x /\ \A i \in 1 .. q : a[i] = arg[i]
      BY <2>9 DEF n
    <3> HIDE DEF a
    <3>3. \A i \in 1 .. n : i \in 1 .. q \/ i = n
      BY <1>4 DEF n
    <3>4. \A i \in 1 .. n : a[i] = e[i]
      BY ONLY <1>4, <2>2, <3>2, <3>3
    <3> QED BY <3>1, <3>2, <3>4 DEF a
  <2>11. new.at = b + 2 + n /\ new.at > st.at
    BY <1>3, <1>4, <1>6, <2>7 DEF n
  <2>12. InFirst(new, b, e, n)
    BY <1>4, <2>7, <2>10, <2>11 DEF InFirst
  <2>13. ParsedTo(new, E, o, U, pos, j, k)
    BY <1>1, <2>1, <2>7, <2>12 DEF ParsedTo, b, e, M
  <2> QED BY <2>11, <2>13 DEF Ahead, new
<1> QED BY <1>10, <1>11

LEMMA ParseInside ==
  ASSUME NEW line, NEW E, NEW o, NEW U, NEW pos, Spelled(E, line, o, U, pos),
         NEW st, NEW j, NEW k, ParsedTo(st, E, o, U, pos, j, k), k # 1,
         NEW i \in 0 .. Len(U[k]), Inside(st, o[j], U[k], pos[k], i)
  PROVE  Ahead(ParseTurn(line, st), st, line, E, o, U, pos)
<1> DEFINE new == ParseTurn(line, st)
           b == o[j]
           u == U[k]
           e == E[k]
           p == pos[k]
<1>1. st \in Parsing /\ j \in 0 .. Len(E) /\ k \in 1 .. Len(E) /\ k = j + 1 /\ Heard(st.args, E, U, j)
  BY DEF ParsedTo
<1>2. InBlock(line, b, e, u, p) /\ u \in Seq(Nat) /\ \A n \in 1 .. Len(u) : u[n] # 0
  BY <1>1 DEF Spelled
<1>3. st.args # <<>>
  <2>1. Len(st.args) = j /\ j # 0
    BY <1>1 DEF Heard
  <2>2. Len(<<>>) = 0
    OBVIOUS
  <2> QED BY <2>1, <2>2
<1>4. Inside(st, b, u, p, i) /\ i \in 0 .. Len(u)
  OBVIOUS
<1> HIDE DEF new, b, u, e, p
<1>5. /\ new \in Parsing /\ new.args = st.args /\ new.at > st.at
      /\ (\E n \in 0 .. Len(u) : Inside(new, b, u, p, n)) \/ Finished(new, b, e, u)
  BY <1>1, <1>2, <1>3, <1>4, TurnInside DEF new
<1>6. ASSUME Finished(new, b, e, u) PROVE PastQuote(new, E, o, U, j, k)
  <2>1. new.quoted = FALSE /\ new.at = b + 3 + Len(e) /\ Carries(new.arg, u, Len(u))
    BY <1>6 DEF Finished
  <2>2. Runs(u) => new.arg = u
    BY <1>2, <2>1, CarriesAll
  <2> QED BY <2>1, <2>2 DEF PastQuote, Right, b, e, u
<1>7. ParsedTo(new, E, o, U, pos, j, k)
  BY <1>1, <1>5, <1>6 DEF ParsedTo, b, u, e, p
<1> QED BY <1>5, <1>7 DEF Ahead, new

LEMMA ParseFinished ==
  ASSUME NEW line, NEW E, NEW o, NEW U, NEW pos, Spelled(E, line, o, U, pos),
         NEW st, NEW j, NEW k, ParsedTo(st, E, o, U, pos, j, k), PastQuote(st, E, o, U, j, k)
  PROVE  Ahead(ParseTurn(line, st), st, line, E, o, U, pos)
<1> DEFINE new == ParseTurn(line, st)
           x == line[st.at]
           r == Run(line, st.at)
           b == o[j]
           e == E[k]
           n == Len(E)
<1>1. st \in Parsing /\ j \in 0 .. n /\ k \in 1 .. n /\ k = j + 1 /\ Heard(st.args, E, U, j)
  BY DEF ParsedTo
<1>2. InBlock(line, b, e, U[k], pos[k])
  BY <1>1 DEF Spelled
<1>3. st.quoted = FALSE /\ st.at = b + 3 + Len(e) /\ Right(st.arg, E, U, k)
  BY DEF PastQuote
<1>4. /\ n \in Nat /\ Len(line) = o[n] /\ o[k] = b + Len(e) + 3 /\ Len(e) \in Nat /\ b \in Nat
      /\ Block(line, b, e, IF k = n THEN 0 ELSE Space)
  <2>1. /\ n \in Nat /\ Len(line) = o[n] /\ (\A i \in 0 .. n : o[i] \in Nat)
        /\ \A h \in 0 .. n, i \in 1 .. n : i = h + 1 =>
             /\ o[i] = o[h] + Len(E[i]) + 3 /\ Len(E[i]) \in Nat
             /\ Block(line, o[h], E[i], IF i = n THEN 0 ELSE Space)
    BY DEF Spelled, Lined
  <2>2. o[k] = o[j] + Len(E[k]) + 3 /\ Len(E[k]) \in Nat /\ Block(line, o[j], E[k], IF k = n THEN 0 ELSE Space)
    BY <1>1, <2>1
  <2> QED BY <1>1, <2>1, <2>2
<1>5. x = IF k = n THEN 0 ELSE Space
  BY <1>3, <1>4 DEF Block
<1>6. Turned(new, line, st, x, r)
  BY DEF Turned
<1>7. st.at = o[k]
  <2> HIDE DEF b, e, n
  <2>1. st.at = b + 3 + Len(e) /\ o[k] = b + Len(e) + 3 /\ Len(e) \in Nat /\ b \in Nat
    BY ONLY <1>3, <1>4
  <2> DEFINE M == Len(e)
             f == o[k]
             a == st.at
  <2>2. a = b + 3 + M /\ f = b + M + 3 /\ M \in Nat /\ b \in Nat
    BY <2>1
  <2> HIDE DEF M, f, a
  <2>3. a = f
    BY ONLY <2>2
  <2> QED BY <2>3 DEF a, f
<1> HIDE DEF new, x, r, b, e, n
<1>8. Does(new, line, st, x, r)
  BY <1>6, ParseTurnIs
<1>9. CASE k = n
  <2>1. new = st
    BY <1>5, <1>8, <1>9 DEF Does
  <2>2. st.at = Len(line)
    BY <1>4, <1>7, <1>9
  <2> QED BY <2>1, <2>2 DEF Ahead, new
<1>10. CASE k # n
  <2> DEFINE args == Append(st.args, st.arg)
             empty == <<>>
             i == k + 1
  <2>1. x = Space
    BY <1>5, <1>10
  <2>2. new = [at |-> st.at + 1, quoted |-> FALSE, args |-> args, arg |-> empty]
    BY <1>3, <1>8, <2>1 DEF Does
  <2>3. st.args \in Seq(Seq(Nat)) /\ st.arg \in Seq(Nat) /\ st.at \in Nat
    BY <1>1, ParsingFields
  <2>4. j \in Nat /\ i \in 1 .. n /\ k \in 0 .. n
    BY <1>1, <1>4, <1>10
  <2>5. args \in Seq(Seq(Nat)) /\ Heard(args, E, U, k)
    BY <1>1, <1>3, <2>3, <2>4, HeardMore
  <2>6. empty \in Seq(Nat)
    OBVIOUS
  <2>7. st.at + 1 \in Nat
    BY <2>3
  <2> HIDE DEF args, empty
  <2>8. /\ new \in Parsing /\ new.at = st.at + 1 /\ new.quoted = FALSE
        /\ new.args = args /\ new.arg = empty
    BY ONLY <2>2, <2>5, <2>6, <2>7, Zenon DEF Parsing
  <2>9. Opening(new, o[k])
    BY <1>7, <2>8 DEF Opening, empty
  <2>10. ParsedTo(new, E, o, U, pos, k, i)
    BY <2>4, <2>5, <2>8, <2>9 DEF ParsedTo, n
  <2>11. new.at > st.at
    BY <2>3, <2>8
  <2> QED BY <2>10, <2>11 DEF Ahead, new
<1> QED BY <1>9, <1>10

\* The parser never passes the end, and is there with the last argument.
LEMMA ParseBounded ==
  ASSUME NEW line, NEW E, NEW o, NEW U, NEW pos, Spelled(E, line, o, U, pos),
         NEW st, NEW j, NEW k, ParsedTo(st, E, o, U, pos, j, k)
  PROVE  /\ st.at <= Len(line) /\ st.at \in Nat /\ Len(line) \in Nat
         /\ st.at = Len(line) => k = Len(E) /\ PastQuote(st, E, o, U, j, k)
<1> DEFINE b == o[j]
           e == E[k]
           u == U[k]
           p == pos[k]
           n == Len(E)
           L == Len(line)
<1>1. st \in Parsing /\ j \in 0 .. n /\ k \in 1 .. n /\ k = j + 1
  BY DEF ParsedTo
<1>2. InBlock(line, b, e, u, p) /\ u \in Seq(Nat)
  BY <1>1 DEF Spelled
<1>3. L \in Nat /\ b \in Nat /\ Len(e) \in Nat /\ b + 3 + Len(e) <= L
  BY <1>2 DEF InBlock
<1>4. st.at \in Nat
  BY <1>1, ParsingFields
<1>5. CASE Opening(st, b)
  <2>1. st.at = b + 1
    BY <1>5 DEF Opening
  <2>2. st.at < L
    BY ONLY <1>3, <2>1
  <2> QED BY <1>3, <1>4, <2>2
<1>6. ASSUME NEW i \in 0 .. Len(u), Inside(st, b, u, p, i) PROVE st.at < L
  <2>1. Len(u) \in Nat /\ i \in Nat /\ Spread(e, u, p)
    BY <1>2 DEF InBlock
  <2>2. PICK m \in Nat : Follows(u, i, m)
    BY <2>1, FollowsSome
  <2> HIDE DEF e, u, p
  <2>3. p[i + m] = p[i] + 2 * m /\ p[i] \in Nat /\ p[i + m] <= Len(e)
    BY <1>3, <2>1, <2>2, Doubled
  <2>4. st.at = b + 2 + p[i]
    BY <1>6 DEF Inside
  <2> DEFINE c == p[i]
             M == Len(e)
  <2>5. /\ c + 2 * m <= M /\ c \in Nat /\ M \in Nat /\ m \in Nat
        /\ st.at = b + 2 + c /\ b \in Nat /\ b + 3 + M <= L /\ L \in Nat
    BY <1>3, <2>3, <2>4
  <2> HIDE DEF c, M
  <2>6. c <= M
    BY ONLY <2>5
  <2> QED BY ONLY <2>5, <2>6
<1>7. CASE PastQuote(st, E, o, U, j, k)
  <2>1. st.at = b + 3 + Len(e)
    BY <1>7 DEF PastQuote
  <2>2. st.at <= L
    BY <1>3, <2>1
  <2>3. ASSUME k # n PROVE st.at < L
    <3> DEFINE i == k + 1
    <3>1. n \in Nat /\ Lined(E, line, o)
      BY DEF Spelled, Lined
    <3>2. k \in 0 .. n /\ i \in 1 .. n /\ i = k + 1 /\ i \in 0 .. n
      BY <1>1, <2>3, <3>1
    <3> HIDE DEF i, n, L, b, e
    <3>3. o[i] = o[k] + Len(E[i]) + 3 /\ Len(E[i]) \in Nat /\ o[i] <= L /\ o[k] \in Nat
      BY <3>1, <3>2 DEF Lined, n, L
    <3>4. o[k] = b + Len(e) + 3
      BY <1>1, <3>1 DEF Lined, b, e, n
    <3>5. st.at = o[k]
      <4>1. b \in Nat /\ Len(e) \in Nat
        BY <1>3
      <4> QED BY ONLY <2>1, <3>4, <4>1
    <3>6. L \in Nat
      BY <1>3
    <3> QED BY ONLY <3>3, <3>5, <3>6
  <2> QED BY <1>3, <1>4, <1>7, <2>2, <2>3
<1>8. ASSUME NEW q \in 0 .. Len(e), InFirst(st, b, e, q) PROVE st.at < L
  <2> HIDE DEF L, b, e
  <2>1. st.at = b + 2 + q
    BY <1>8 DEF InFirst
  <2> QED BY <1>3, <2>1
<1>9. \/ Opening(st, b)
      \/ \E q \in 0 .. Len(e) : InFirst(st, b, e, q)
      \/ \E i \in 0 .. Len(u) : Inside(st, b, u, p, i)
      \/ PastQuote(st, E, o, U, j, k)
  BY DEF ParsedTo
<1>10. ASSUME st.at < L PROVE st.at <= L /\ st.at # L
  BY <1>3, <1>4, <1>10
<1> QED BY <1>3, <1>4, <1>5, <1>6, <1>7, <1>8, <1>9, <1>10

\* The started program gets as many arguments as were given, the first as it is in the
\* line, and each of the others as it was if its backslashes are before quotes or at its
\* end.
LEMMA ParseArrives ==
  ASSUME NEW line, NEW E, NEW o, NEW U, NEW pos, Spelled(E, line, o, U, pos)
  PROVE  /\ Len(CommandLineToArgv(line)) = Len(E)
         /\ \A k \in 1 .. Len(E) : Right(CommandLineToArgv(line)[k], E, U, k)
<1> DEFINE n == Len(E)
           L == Len(line)
           turn == [st \in Parsing |-> ParseTurn(line, st)]
           init == [at |-> 1, quoted |-> FALSE, args |-> <<>>, arg |-> <<>>]
           end == Iterate(turn, init, L)
           To(st) == \E j, k : ParsedTo(st, E, o, U, pos, j, k)
           S == [t \in Nat |-> {st \in Parsing : To(st) /\ (st.at >= t + 1 \/ st.at = L)}]
<1>1. n \in Nat /\ n >= 1 /\ o[0] = 0
  BY DEF Spelled, Lined
<1>2. /\ init \in Parsing /\ init.at = 1 /\ init.quoted = FALSE /\ init.args = <<>> /\ init.arg = <<>>
  <2> DEFINE empty == <<>>
  <2>1. 1 \in Nat /\ FALSE \in BOOLEAN /\ empty \in Seq(Nat) /\ empty \in Seq(Seq(Nat))
    OBVIOUS
  <2> HIDE DEF empty
  <2>2. init = [at |-> 1, quoted |-> FALSE, args |-> empty, arg |-> empty]
    BY DEF empty
  <2> HIDE DEF init
  <2>3. /\ init \in Parsing /\ init.at = 1 /\ init.quoted = FALSE /\ init.args = empty /\ init.arg = empty
    BY ONLY <2>1, <2>2, Zenon DEF Parsing
  <2> QED BY <2>3 DEF empty
<1> HIDE DEF init
<1>3. ParsedTo(init, E, o, U, pos, 0, 1)
  <2>1. Opening(init, o[0])
    BY <1>1, <1>2 DEF Opening
  <2>2. Heard(init.args, E, U, 0)
    BY <1>2 DEF Heard
  <2>3. 0 \in 0 .. n /\ 1 \in 1 .. n /\ 1 = 0 + 1
    BY <1>1
  <2> QED BY <1>2, <2>1, <2>2, <2>3 DEF ParsedTo
<1>4. L \in Nat
  BY <1>3, ParseBounded
<1>5. ASSUME NEW st, To(st) PROVE Ahead(ParseTurn(line, st), st, line, E, o, U, pos)
  <2>1. PICK j, k : ParsedTo(st, E, o, U, pos, j, k)
    BY <1>5
  <2>2. \/ Opening(st, o[j])
        \/ k = 1 /\ \E q \in 0 .. Len(E[k]) : InFirst(st, o[j], E[k], q)
        \/ k # 1 /\ \E i \in 0 .. Len(U[k]) : Inside(st, o[j], U[k], pos[k], i)
        \/ PastQuote(st, E, o, U, j, k)
    BY <2>1 DEF ParsedTo
  <2>3. CASE Opening(st, o[j])
    BY <2>1, <2>3, ParseOpening
  <2>4. CASE k = 1 /\ \E q \in 0 .. Len(E[k]) : InFirst(st, o[j], E[k], q)
    BY <2>1, <2>4, ParseLiteral
  <2>5. CASE k # 1 /\ \E i \in 0 .. Len(U[k]) : Inside(st, o[j], U[k], pos[k], i)
    BY <2>1, <2>5, ParseInside
  <2>6. CASE PastQuote(st, E, o, U, j, k)
    BY <2>1, <2>6, ParseFinished
  <2> QED BY <2>2, <2>3, <2>4, <2>5, <2>6
<1>6. init \in S[0]
  BY <1>2, <1>3
<1>7. ASSUME NEW t \in Nat, NEW st \in S[t] PROVE turn[st] \in S[t + 1]
  <2> DEFINE new == ParseTurn(line, st)
             t1 == t + 1
  <2>1. st \in Parsing /\ To(st) /\ (st.at >= t + 1 \/ st.at = L)
    BY <1>7
  <2>2. Ahead(new, st, line, E, o, U, pos)
    BY <1>5, <2>1
  <2>3. turn[st] = new
    BY <2>1
  <2> HIDE DEF new
  <2>4. To(new) /\ (new.at > st.at \/ (new = st /\ st.at = L))
    BY <2>2 DEF Ahead
  <2>5. PICK j, k : ParsedTo(new, E, o, U, pos, j, k)
    BY <2>4
  <2>6. new \in Parsing /\ new.at \in Nat /\ new.at <= L
    <3>1. new \in Parsing
      BY ONLY <2>5, Zenon DEF ParsedTo
    <3> HIDE DEF L
    <3>2. new.at \in Nat /\ new.at <= Len(line)
      BY ONLY <2>5, Spelled(E, line, o, U, pos), ParseBounded
    <3> QED BY ONLY <3>1, <3>2 DEF L
  <2>7. st.at \in Nat
    BY <2>1, ParsingFields
  <2>8. new.at >= t1 + 1 \/ new.at = L
    <3>1. CASE new.at > st.at
      BY <1>4, <2>1, <2>6, <2>7, <3>1
    <3>2. CASE new = st /\ st.at = L
      BY <3>2
    <3> QED BY <2>4, <3>1, <3>2
  <2>9. t1 \in Nat
    OBVIOUS
  <2> HIDE DEF t1
  <2>10. new \in S[t1]
    BY <2>4, <2>6, <2>8, <2>9
  <2> QED BY <2>3, <2>10 DEF t1
<1>8. end \in S[L]
  <2> HIDE DEF S, turn, L
  <2> QED BY <1>4, <1>6, <1>7, IterateHolds
<1> HIDE DEF end
<1>9. PICK j, k : ParsedTo(end, E, o, U, pos, j, k)
  BY <1>4, <1>8
<1>10. end.at = L
  <2>1. end.at >= L + 1 \/ end.at = L
    BY <1>4, <1>8
  <2>2. end.at <= L /\ end.at \in Nat
    BY <1>9, ParseBounded
  <2> QED BY <1>4, <2>1, <2>2
<1>11. k = n /\ PastQuote(end, E, o, U, j, k)
  BY <1>9, <1>10, ParseBounded
<1> DEFINE argv == Append(end.args, end.arg)
<1>12. /\ end \in Parsing /\ j \in 0 .. n /\ k \in 1 .. n /\ k = j + 1 /\ Heard(end.args, E, U, j)
  BY <1>9 DEF ParsedTo
<1>13. Right(end.arg, E, U, k)
  BY <1>11 DEF PastQuote
<1>14. Heard(argv, E, U, n)
  <2>1. end.args \in Seq(Seq(Nat)) /\ end.arg \in Seq(Nat) /\ j \in Nat
    BY <1>12, ParsingFields
  <2>2. Heard(argv, E, U, k)
    BY <1>12, <1>13, <2>1, HeardMore
  <2> QED BY <1>11, <2>2
<1>15. CommandLineToArgv(line) = argv
  BY Zenon DEF CommandLineToArgv, end, turn, init
<1> QED BY <1>14, <1>15 DEF Heard

LEMMA ArgumentsArriveIn ==
  ASSUME NEW args, args \in Seq(Seq(Character \ {0})), Len(args) # 0
  PROVE  /\ 2 * Len(WinCmd(Argv(args))) = WinCmdLen(Argv(args))
         /\ Quote \notin ToSet(args[1]) =>
              /\ Len(CommandLineToArgv(WinCmd(Argv(args)))) = Len(args)
              /\ CommandLineToArgv(WinCmd(Argv(args)))[1] = Twice(Arrived(args)[1])
              /\ \A k \in 2 .. Len(args) : RunsEndInQuotes(args[k]) =>
                   CommandLineToArgv(WinCmd(Argv(args)))[k] = Arrived(args)[k]
<1> DEFINE n == Len(args)
           line == WinCmd(Argv(args))
           U == Arrived(args)
<1>1. n \in Nat /\ n >= 1 /\ DOMAIN args = 1 .. n /\ \A k \in 1 .. n : args[k] \in Seq(Character \ {0})
  BY LenProperties, ElementOfSeq
<1>2. \A k \in 1 .. n : U[k] = Utf16(args[k])
  BY <1>1 DEF Arrived
<1> HIDE DEF n, line, U
<1>3. PICK E, o : /\ Lined(E, line, o) /\ Len(E) = n /\ 2 * Len(line) = WinCmdLen(Argv(args))
                  /\ \A k \in 1 .. n : Rendered(args[k], Len(args[k]), E[k], Utf16(args[k]))
  BY WinCmdLined DEF n, line
<1>4. ASSUME Quote \notin ToSet(args[1])
      PROVE  /\ Len(CommandLineToArgv(line)) = n
             /\ CommandLineToArgv(line)[1] = Twice(U[1])
             /\ \A k \in 2 .. n : RunsEndInQuotes(args[k]) => CommandLineToArgv(line)[k] = U[k]
  <2>1. \A k \in 1 .. n : /\ Escapes(E[k], U[k]) /\ (\A i \in 1 .. Len(U[k]) : U[k][i] # 0)
                          /\ RunsEndInQuotes(args[k]) => Runs(U[k])
    BY <1>2, <1>3 DEF Rendered
  <2>2. 1 \in 1 .. n /\ \A k \in 2 .. n : k \in 1 .. n /\ k # 1
    BY <1>1
  <2>3. \A i \in 1 .. Len(U[1]) : U[1][i] # Quote
    <3>1. \A i \in 1 .. Len(args[1]) : args[1][i] # Quote
      <4>1. DOMAIN args[1] = 1 .. Len(args[1])
        BY <1>1, <2>2, LenProperties
      <4> QED BY <1>4, <4>1 DEF ToSet
    <3> QED BY <1>2, <1>3, <2>2, <3>1 DEF Rendered
  <2>4. E[1] = Twice(U[1]) /\ \A i \in 1 .. Len(E[1]) : E[1][i] # Quote /\ E[1][i] # 0
    BY <2>1, <2>2, <2>3, EscapesTwice
  <2>5. E[1] \in Seq(Nat)
    BY <2>1, <2>2 DEF Escapes
  <2>6. PICK pos : Spelled(E, line, o, U, pos)
    BY <1>3, <2>1, <2>4, <2>5, SpelledIs
  <2>7. Len(CommandLineToArgv(line)) = n /\ \A k \in 1 .. n : Right(CommandLineToArgv(line)[k], E, U, k)
    BY <1>3, <2>6, ParseArrives
  <2> QED BY <2>1, <2>2, <2>4, <2>7 DEF Right
<1> QED BY <1>1, <1>3, <1>4 DEF n, line, U

LEMMA GivenArguments ==
  ASSUME NEW c \in CommandLines
  PROVE  c \in Seq(Seq(Character \ {0})) /\ Len(c) # 0
<1>1. c \in Seq(Seq(Character \ {0})) /\ c # <<>>
  BY CommandLinesAssumption
<1> DEFINE T == Seq(Character \ {0})
<1> HIDE DEF T
<1>2. c \in Seq(T) /\ c # <<>>
  BY <1>1 DEF T
<1>3. Len(c) # 0
  BY ONLY <1>2, EmptySeq
<1> QED BY <1>1, <1>3

\* The command line takes exactly the memory wincmdlen asks for, and if the path of
\* the loader, which is the first argument, has no quotes, the started program gets as
\* many arguments as were given: the path with its backslashes doubled, and each of
\* the others as it was if its backslashes are before quotes or at its end.
THEOREM ArgumentsArriveHolds == TextSpec => []ArgumentsArrive
<1> DEFINE Inv == given.kind = "arguments" => given.args \in Seq(Seq(Character \ {0})) /\ Len(given.args) # 0
<1>1. TextInit => Inv
  BY DEF TextInit, Nothing
<1>2. Inv /\ [Give]_textVars => Inv'
  <2>1. Inv /\ UNCHANGED textVars => Inv'
    BY DEF textVars
  <2>2. ASSUME Give PROVE Inv'
    <3> SUFFICES ASSUME given'.kind = "arguments"
                 PROVE  given'.args \in Seq(Seq(Character \ {0})) /\ Len(given'.args) # 0
      OBVIOUS
    <3>1. PICK c \in CommandLines : given' = [kind |-> "arguments", args |-> c]
      BY <2>2 DEF Give
    <3>2. given'.args = c
      BY <3>1
    <3> QED BY ONLY <3>2, GivenArguments, c \in CommandLines
  <2> QED BY <2>1, <2>2
<1>3. Inv => ArgumentsArrive
  <2> SUFFICES ASSUME Inv, given.kind = "arguments" PROVE ArgumentsArrive
    BY Zenon DEF ArgumentsArrive
  <2> DEFINE args == given.args
  <2>1. args \in Seq(Seq(Character \ {0})) /\ Len(args) # 0
    OBVIOUS
  <2> HIDE DEF args
  <2>2. /\ 2 * Len(WinCmd(Argv(args))) = WinCmdLen(Argv(args))
        /\ Quote \notin ToSet(args[1]) =>
             /\ Len(CommandLineToArgv(WinCmd(Argv(args)))) = Len(args)
             /\ CommandLineToArgv(WinCmd(Argv(args)))[1] = Twice(Arrived(args)[1])
             /\ \A k \in 2 .. Len(args) : RunsEndInQuotes(args[k]) =>
                  CommandLineToArgv(WinCmd(Argv(args)))[k] = Arrived(args)[k]
    BY <2>1, ArgumentsArriveIn
  <2> QED BY <2>2, Zenon DEF ArgumentsArrive, args
<1> QED
  BY <1>1, <1>2, <1>3, PTL DEF TextSpec
----------------------------------------------------------------------------
(* What printf prints *)

\* The numbers that the digits make, one after the other, behind one that is left.
Made(p, left, digits, base) ==
  /\ p \in [0 .. Len(digits) -> Nat] /\ p[0] = left
  /\ \A k \in 1 .. Len(digits) : p[k] = p[k - 1] * base + digits[k]

\* No 0 in front of other digits.
Bare(digits) == Len(digits) >= 1 /\ (Len(digits) > 1 => digits[1] # 0)

\* The loop of print_number over n: what is left and the digits are n.
MadeOf(st, n, base) ==
  /\ st \in Making /\ st.left \in Nat /\ st.digits \in Seq(DigitOf(base))
  /\ \E p : Made(p, st.left, st.digits, base) /\ p[Len(st.digits)] = n
  /\ st.ended = TRUE => st.left = 0 /\ Bare(st.digits)
  /\ st.ended = FALSE /\ st.left = 0 => st.digits = <<>>

LEMMA MakingFields ==
  ASSUME NEW st \in Making
  PROVE  st.left \in Int /\ st.digits \in Seq(Nat) /\ st.ended \in BOOLEAN
BY Zenon DEF Making

LEMMA InFront ==
  ASSUME NEW S, NEW c \in S, NEW s \in Seq(S)
  PROVE  LET t == Behind(<<c>>, s)
         IN /\ t \in Seq(S) /\ Len(s) \in Nat /\ Len(t) = Len(s) + 1 /\ t[1] = c
            /\ \A k \in 1 .. Len(s) : t[k + 1] = s[k]
<1> DEFINE t == <<c>> \o s
<1>1. t \in Seq(S) /\ Len(s) \in Nat /\ Len(t) = Len(s) + 1 /\ t[1] = c
  OBVIOUS
<1>2. \A k \in 1 .. Len(s) : t[k + 1] = s[k]
  OBVIOUS
<1>3. Behind(<<c>>, s) = t
  BY DEF Behind
<1> QED BY <1>1, <1>2, <1>3

\* One turn parts the number left.
Divides(left, l, d, base) ==
  base \in Bases /\ l \in Nat /\ d \in DigitOf(base) /\ left = l * base + d

LEMMA DividesSo ==
  ASSUME NEW base \in Bases, NEW n \in Nat
  PROVE  Divides(n, n \div base, n % base, base)
<1> DEFINE l == n \div base
           d == n % base
<1>1. base \in Nat \ {0}
  BY DEF Bases
<1>2. l \in Int /\ d \in 0 .. base - 1 /\ n = base * l + d
  <2>1. \A x \in Nat \ {0} : \A m \in Int : \A q, r :
          q = m \div x /\ r = m % x => q \in Int /\ r \in 0 .. x - 1 /\ m = x * q + r
    BY Dividing
  <2>2. n \in Int
    OBVIOUS
  <2>3. l = n \div base /\ d = n % base
    OBVIOUS
  <2> HIDE DEF l, d
  <2>4. \A q, r : q = n \div base /\ r = n % base => q \in Int /\ r \in 0 .. base - 1 /\ n = base * q + r
    BY ONLY <1>1, <2>1, <2>2, Zenon
  <2> QED BY ONLY <2>3, <2>4, Zenon
<1> HIDE DEF l, d
<1>3. l >= 0
  <2> SUFFICES ASSUME l <= -1 PROVE FALSE
    BY <1>2
  <2>1. base * l <= -base
    BY <1>1, <1>2
  <2> QED BY <1>1, <1>2, <2>1
<1>4. base * l = l * base
  BY <1>1, <1>2
<1> QED BY <1>2, <1>3, <1>4 DEF Divides, DigitOf, l, d

LEMMA MadeMore ==
  ASSUME NEW base, NEW left, NEW digits \in Seq(DigitOf(base)), NEW p,
         Made(p, left, digits, base), NEW l, NEW d, Divides(left, l, d, base)
  PROVE  LET t == Behind(<<d>>, digits)
         IN \E q : Made(q, l, t, base) /\ q[Len(t)] = p[Len(digits)]
<1> DEFINE t == Behind(<<d>>, digits)
           N == Len(digits)
           q == [k \in 0 .. N + 1 |-> IF k = 0 THEN l ELSE p[k - 1]]
<1>1. l \in Nat /\ d \in DigitOf(base) /\ left = l * base + d
  BY DEF Divides
<1>2. N \in Nat /\ Len(t) = N + 1 /\ t[1] = d /\ \A k \in 1 .. N : t[k + 1] = digits[k]
  BY <1>1, InFront
<1> HIDE DEF t
<1>3. \A k \in 0 .. N : p[k] \in Nat
  BY DEF Made
<1>4. q \in [0 .. N + 1 -> Nat] /\ q[0] = l /\ \A k \in 0 .. N : q[k + 1] = p[k]
  <2>1. ASSUME NEW k \in 0 .. N + 1 PROVE (IF k = 0 THEN l ELSE p[k - 1]) \in Nat
    <3>1. k # 0 => k - 1 \in 0 .. N
      BY <1>2
    <3> QED BY <1>1, <1>3, <3>1
  <2>2. 0 \in 0 .. N + 1 /\ \A k \in 0 .. N : k + 1 \in 0 .. N + 1 /\ k + 1 # 0 /\ (k + 1) - 1 = k
    BY <1>2
  <2> QED BY <2>1, <2>2
<1> HIDE DEF q
<1>5. q[1] = q[0] * base + t[1]
  <2>1. q[0 + 1] = p[0] /\ p[0] = left
    BY <1>2, <1>4 DEF Made
  <2> QED BY <1>1, <1>2, <1>4, <2>1
<1>6. \A k \in 1 .. N : q[k + 1] = q[k] * base + t[k + 1]
  <2> TAKE k \in 1 .. N
  <2>1. k \in 0 .. N /\ k - 1 \in 0 .. N /\ (k - 1) + 1 = k
    BY <1>2
  <2>2. q[k + 1] = p[k] /\ q[k] = p[k - 1]
    BY <1>4, <2>1
  <2>3. p[k] = p[k - 1] * base + digits[k]
    BY DEF Made
  <2> QED BY <1>2, <2>2, <2>3
<1>7. \A k \in 1 .. N + 1 : q[k] = q[k - 1] * base + t[k]
  <2> TAKE k \in 1 .. N + 1
  <2>1. CASE k = 1
    BY <1>5, <2>1
  <2>2. CASE k # 1
    <3> DEFINE j == k - 1
    <3>1. j \in 1 .. N /\ k = j + 1
      BY <1>2, <2>2
    <3> HIDE DEF j
    <3>2. q[j + 1] = q[j] * base + t[j + 1] /\ (j + 1) - 1 = j
      BY <1>6, <3>1
    <3> QED BY <3>1, <3>2
  <2> QED BY <2>1, <2>2
<1>8. q[N + 1] = p[N]
  BY <1>2, <1>4
<1>9. Made(q, l, t, base)
  BY <1>2, <1>4, <1>7 DEF Made
<1> QED BY <1>2, <1>8, <1>9 DEF t

LEMMA DigitTurned ==
  ASSUME NEW base \in Bases, NEW n \in Nat, NEW st, MadeOf(st, n, base), st.ended = FALSE
  PROVE  LET new == DigitTurn(base, st)
         IN MadeOf(new, n, base) /\ (new.ended = TRUE \/ new.left < st.left)
<1> DEFINE new == DigitTurn(base, st)
           n0 == st.left
           l == n0 \div base
           d == n0 % base
           t == Behind(<<d>>, st.digits)
           ended == l = 0
<1>1. n0 \in Nat /\ base \in Nat /\ base >= 2 /\ st.digits \in Seq(DigitOf(base)) /\ DigitOf(base) \subseteq Nat
  BY DEF MadeOf, Bases, DigitOf
<1>2. l \in Nat /\ d \in DigitOf(base) /\ n0 = l * base + d
  <2> HIDE DEF n0
  <2>1. Divides(n0, l, d, base)
    BY <1>1, DividesSo
  <2> QED BY <2>1 DEF Divides
<1>3. new = [left |-> l, digits |-> t, ended |-> ended]
  <2>1. Divided(n0, base) = l /\ Digit(n0, base) = d
    BY <1>1 DEF Divided, Digit
  <2> HIDE DEF l, d
  <2> QED BY <2>1, Zenon DEF DigitTurn, Behind
<1> HIDE DEF new, l, d
<1>4. /\ t \in Seq(DigitOf(base)) /\ Len(t) = Len(st.digits) + 1 /\ t[1] = d /\ Len(st.digits) \in Nat
  <2> DEFINE S == DigitOf(base)
             s == st.digits
  <2>1. d \in S /\ s \in Seq(S) /\ t = Behind(<<d>>, s)
    BY <1>1, <1>2
  <2> HIDE DEF S, s, t
  <2>2. t \in Seq(S) /\ Len(t) = Len(s) + 1 /\ t[1] = d /\ Len(s) \in Nat
    BY ONLY <2>1, InFront
  <2> QED BY ONLY <2>2, Zenon DEF S, s
<1>5. t \in Seq(Nat)
  BY <1>1, <1>4
<1>6. ended \in BOOLEAN
  OBVIOUS
<1>7. \E q : Made(q, l, t, base) /\ q[Len(t)] = n
  <2>1. PICK p : Made(p, n0, st.digits, base) /\ p[Len(st.digits)] = n
    BY DEF MadeOf
  <2>2. \E q : Made(q, l, t, base) /\ q[Len(t)] = p[Len(st.digits)]
    <3>1. Divides(n0, l, d, base)
      BY <1>2 DEF Divides
    <3> QED BY <1>1, <2>1, <3>1, MadeMore
  <2> QED BY <2>1, <2>2
<1>8. ended => Bare(t)
  <2> SUFFICES ASSUME l = 0, Len(t) > 1 PROVE t[1] # 0
    BY <1>4 DEF Bare
  <2>1. n0 = d
    <3> HIDE DEF n0
    <3>1. d \in Nat /\ base \in Nat
      BY <1>1, <1>2
    <3> QED BY ONLY <1>2, <3>1, l = 0
  <2>2. st.digits # <<>>
    BY <1>4, EmptySeq
  <2>3. n0 # 0
    BY <2>2 DEF MadeOf
  <2> QED BY <1>4, <2>1, <2>3
<1> HIDE DEF t
<1>9. l \in Int
  BY <1>2
<1> HIDE DEF ended
<1>10. new \in Making /\ new.left = l /\ new.digits = t /\ new.ended = ended
  BY ONLY <1>3, <1>5, <1>6, <1>9, Zenon DEF Making
<1>11. ended \/ l < n0
  <2> SUFFICES ASSUME l # 0 PROVE l < n0
    BY DEF ended
  <2>1. l * base >= 2 * l
    BY <1>1, <1>2
  <2> HIDE DEF n0
  <2>2. d \in Nat
    BY <1>1, <1>2
  <2> DEFINE m == l * base
  <2>3. m \in Nat /\ m >= 2 * l /\ n0 = m + d
    BY <1>1, <1>2, <2>1
  <2> HIDE DEF m
  <2> QED BY <1>2, <2>2, <2>3
<1>12. MadeOf(new, n, base)
  <2>1. ended = TRUE => l = 0 /\ Bare(t)
    BY <1>8 DEF ended
  <2>2. ended = FALSE => l # 0
    BY DEF ended
  <2> QED BY <1>2, <1>4, <1>7, <1>10, <2>1, <2>2 DEF MadeOf
<1> QED BY <1>10, <1>11, <1>12 DEF new

\* With nothing left, the digits are worth the last number.
LEMMA MadeWorth ==
  ASSUME NEW base \in Bases, NEW digits \in Seq(DigitOf(base)), NEW p, Made(p, 0, digits, base)
  PROVE  Worth(digits, base) = p[Len(digits)]
<1> DEFINE N == Len(digits)
<1>1. N \in Nat /\ base \in Nat /\ digits \in Seq(Nat)
  <2>1. DigitOf(base) \subseteq Nat /\ base \in Nat
    BY DEF DigitOf, Bases
  <2> QED BY <2>1
<1>2. PICK w \in [0 .. N -> Nat] :
        /\ w[0] = 0
        /\ \A n \in 1 .. N : w[n] = w[n - 1] * base + digits[n]
        /\ Worth(digits, base) = w[N]
  BY <1>1, WorthUnfolds
<1> DEFINE I == {k \in Nat : k <= N => w[k] = p[k]}
<1>3. 0 \in I
  BY <1>2 DEF Made
<1>4. ASSUME NEW k \in Nat, k \in I PROVE k + 1 \in I
  <2> SUFFICES ASSUME k + 1 <= N PROVE w[k + 1] = p[k + 1]
    OBVIOUS
  <2> DEFINE m == k + 1
  <2>1. m \in 1 .. N /\ m - 1 = k /\ k <= N
    BY <1>1
  <2> HIDE DEF m
  <2>2. w[k] = p[k]
    BY <1>4, <2>1
  <2>3. w[m] = w[m - 1] * base + digits[m] /\ p[m] = p[m - 1] * base + digits[m]
    BY <1>2, <2>1 DEF Made
  <2>4. w[m] = p[m]
    BY <2>1, <2>2, <2>3
  <2> QED BY <2>4 DEF m
<1> HIDE DEF I
<1>5. Nat \subseteq I
  BY <1>3, <1>4, SetInduction
<1>6. N \in I
  BY <1>1, <1>5
<1> QED BY <1>1, <1>2, <1>6 DEF I

LEMMA DigitsTyped ==
  ASSUME NEW base \in Bases, NEW n \in Int
  PROVE  Digits(n, base) \in Seq(Nat)
<1> DEFINE turn == [st \in Making |-> DigitTurn(base, st)]
           init == [left |-> n, digits |-> <<>>, ended |-> FALSE]
           T == 1 + (IF n < 0 THEN -n ELSE n)
           end == Iterate(turn, init, T)
           S == [t \in Nat |-> Making]
<1>1. T \in Nat
  OBVIOUS
<1>2. init \in Making
  <2> DEFINE e == <<>>
  <2>1. e \in Seq(Nat) /\ FALSE \in BOOLEAN
    OBVIOUS
  <2> HIDE DEF e
  <2>2. [left |-> n, digits |-> e, ended |-> FALSE] \in Making
    BY ONLY <2>1, n \in Int, Zenon DEF Making
  <2> QED BY <2>2 DEF e
<1>3. ASSUME NEW st \in Making PROVE DigitTurn(base, st) \in Making
  <2> DEFINE new == DigitTurn(base, st)
             m == st.left
             l == Divided(m, base)
             d == Digit(m, base)
             t == <<d>> \o st.digits
             ended == l = 0
  <2>1. m \in Int /\ st.digits \in Seq(Nat) /\ base \in Nat \ {0}
    BY MakingFields DEF Bases
  <2> HIDE DEF m
  <2>2. l \in Int
    BY <2>1 DEF Divided
  <2>3. d \in Nat
    <3>1. m % base \in Nat
      BY <2>1
    <3> QED BY <3>1 DEF Digit, Stray
  <2> HIDE DEF l, d
  <2>4. t \in Seq(Nat)
    BY <2>1, <2>3
  <2>5. ended \in BOOLEAN
    OBVIOUS
  <2> HIDE DEF t, ended
  <2>6. new = st \/ new = [left |-> l, digits |-> t, ended |-> ended]
    BY Zenon DEF DigitTurn, l, d, t, ended, m
  <2> HIDE DEF new
  <2>7. new \in Making
    <3>1. [left |-> l, digits |-> t, ended |-> ended] \in Making
      BY ONLY <2>2, <2>4, <2>5, Zenon DEF Making
    <3> QED BY ONLY st \in Making, <2>6, <3>1
  <2> QED BY <2>7 DEF new
<1>4. end \in S[T]
  <2>1. init \in S[0]
    BY <1>2
  <2>2. \A t \in Nat : \A st \in S[t] : turn[st] \in S[t + 1]
    BY <1>3
  <2> HIDE DEF turn, init, S, T
  <2> QED BY <1>1, <2>1, <2>2, IterateHolds
<1>5. end.digits \in Seq(Nat)
  BY <1>1, <1>4, MakingFields
<1> QED BY <1>5 DEF Digits

\* The digits of a number are worth it, with no 0 in front.
LEMMA DigitsMake ==
  ASSUME NEW base \in Bases, NEW n \in Nat
  PROVE  /\ Digits(n, base) \in Seq(DigitOf(base)) /\ Bare(Digits(n, base))
         /\ Worth(Digits(n, base), base) = n
<1> DEFINE turn == [st \in Making |-> DigitTurn(base, st)]
           init == [left |-> n, digits |-> <<>>, ended |-> FALSE]
           T == n + 1
           end == Iterate(turn, init, T)
           S == [t \in Nat |-> {st \in Making : MadeOf(st, n, base) /\ (st.ended = TRUE \/ st.left + t <= n)}]
<1>1. T \in Nat /\ 0 \in Nat
  OBVIOUS
<1>2. init \in S[0]
  <2>1. init \in Making /\ init.left = n /\ init.digits = <<>> /\ init.ended = FALSE
    <3> DEFINE e == <<>>
               i == [left |-> n, digits |-> e, ended |-> FALSE]
    <3>1. e \in Seq(Nat) /\ FALSE \in BOOLEAN /\ n \in Int
      OBVIOUS
    <3> HIDE DEF e
    <3>2. i \in Making /\ i.left = n /\ i.digits = e /\ i.ended = FALSE
      BY ONLY <3>1, Zenon DEF Making, i
    <3> QED BY <3>2 DEF e
  <2> HIDE DEF init
  <2> DEFINE p == [k \in 0 .. 0 |-> n]
             e == <<>>
  <2>2. p \in [0 .. 0 -> Nat] /\ p[0] = n /\ Len(e) = 0 /\ e \in Seq(DigitOf(base)) /\ 1 .. Len(e) = {}
    OBVIOUS
  <2> HIDE DEF p, e
  <2>3. Made(p, n, e, base) /\ p[Len(e)] = n
    BY <2>2 DEF Made
  <2>4. init.digits = e
    BY <2>1 DEF e
  <2>5. MadeOf(init, n, base)
    BY <2>1, <2>2, <2>3, <2>4 DEF MadeOf, e
  <2>6. init.left + 0 <= n
    BY <2>1
  <2> QED BY <2>1, <2>5, <2>6
<1>3. ASSUME NEW t \in Nat, NEW st \in S[t] PROVE turn[st] \in S[t + 1]
  <2> DEFINE new == DigitTurn(base, st)
             t1 == t + 1
  <2>1. st \in Making /\ MadeOf(st, n, base) /\ (st.ended = TRUE \/ st.left + t <= n)
    BY <1>3
  <2>2. turn[st] = new
    BY <2>1
  <2>3. t1 \in Nat
    OBVIOUS
  <2>4. new \in Making /\ MadeOf(new, n, base) /\ (new.ended = TRUE \/ new.left + t1 <= n)
    <3>1. CASE st.ended = TRUE
      <4>1. new = st
        BY <3>1 DEF DigitTurn
      <4> QED BY <2>1, <3>1, <4>1
    <3>2. CASE st.ended = FALSE
      <4>1. MadeOf(new, n, base) /\ (new.ended = TRUE \/ new.left < st.left)
        BY <2>1, <3>2, DigitTurned
      <4> HIDE DEF new
      <4>2. new \in Making /\ new.left \in Nat /\ st.left \in Nat
        BY <2>1, <4>1 DEF MadeOf
      <4>3. st.left + t <= n
        BY <2>1, <3>2
      <4>4. new.left < st.left => new.left + t1 <= n
        BY ONLY <4>2, <4>3, t \in Nat, n \in Nat DEF t1
      <4> QED BY <4>1, <4>2, <4>4
    <3>3. st.ended \in BOOLEAN
      BY <2>1, MakingFields
    <3> QED BY <3>1, <3>2, <3>3
  <2> HIDE DEF new, t1
  <2>5. new \in S[t1]
    BY <2>3, <2>4
  <2> QED BY <2>2, <2>5 DEF t1
<1>4. end \in S[T]
  <2> HIDE DEF turn, init, S, T
  <2> QED BY <1>1, <1>2, <1>3, IterateHolds
<1> HIDE DEF end
<1>5. MadeOf(end, n, base) /\ end \in Making /\ (end.ended = TRUE \/ end.left + T <= n)
  BY <1>1, <1>4
<1>6. end.left \in Nat /\ end.digits \in Seq(DigitOf(base))
  BY <1>5 DEF MadeOf
<1>7. end.ended = TRUE
  BY <1>5, <1>6
<1>8. end.left = 0 /\ Bare(end.digits)
  BY <1>5, <1>7 DEF MadeOf
<1>9. Worth(end.digits, base) = n
  <2>1. PICK p : Made(p, end.left, end.digits, base) /\ p[Len(end.digits)] = n
    BY <1>5 DEF MadeOf
  <2> QED BY <1>6, <1>8, <2>1, MadeWorth
<1>10. Digits(n, base) = end.digits
  <2>1. (1 + (IF n < 0 THEN -n ELSE n)) = T
    OBVIOUS
  <2> HIDE DEF T
  <2> QED BY <2>1 DEF Digits, end
<1> QED BY <1>6, <1>8, <1>9, <1>10

\* v is arg but for a multiple of M.
Same(v, arg, M) == \E q \in Int : v - arg = M * q

LEMMA SameIs ==
  ASSUME NEW M \in Nat \ {0}, NEW v \in Int, NEW arg \in Int
  PROVE  (v - arg) % M = 0 <=> Same(v, arg, M)
<1> DEFINE n == v - arg
<1>1. n \in Int
  OBVIOUS
<1> HIDE DEF n
<1>2. ASSUME n % M = 0 PROVE \E q \in Int : n = M * q
  <2> DEFINE q == n \div M
             r == n % M
  <2>1. q \in Int /\ n = M * q + r
    BY ONLY <1>1, M \in Nat \ {0}
  <2>2. r = 0
    BY <1>2
  <2> HIDE DEF q, r
  <2>3. q \in Int /\ n = M * q
    BY <2>1, <2>2
  <2> QED BY <2>3
<1>3. ASSUME NEW q \in Int, n = M * q PROVE n % M = 0
  <2>1. (M * q + 0) % M = 0
    BY 0 \in 0 .. M - 1, Division
  <2>2. M * q + 0 = M * q
    OBVIOUS
  <2> QED BY <1>3, <2>1, <2>2
<1> QED BY <1>2, <1>3 DEF Same, n

LEMMA OneSame ==
  ASSUME NEW M \in Nat \ {0}, NEW lo \in Int, NEW arg \in Int,
         NEW v \in lo .. lo + M - 1, NEW w \in lo .. lo + M - 1, Same(v, arg, M), Same(w, arg, M)
  PROVE  v = w
<1>1. PICK p \in Int : v - arg = M * p
  BY DEF Same
<1>2. PICK q \in Int : w - arg = M * q
  BY DEF Same
<1> DEFINE d == p - q
<1>3. d \in Int /\ v - w = M * d
  BY <1>1, <1>2
<1>4. v - w < M /\ w - v < M
  OBVIOUS
<1> HIDE DEF d
<1>5. d < 1
  <2> SUFFICES ASSUME d >= 1 PROVE FALSE
    BY <1>3
  <2>1. M * d >= M
    BY <1>3
  <2> QED BY <1>3, <1>4, <2>1
<1>6. d > -1
  <2> SUFFICES ASSUME d <= -1 PROVE FALSE
    BY <1>3
  <2>1. M * d <= -M
    BY <1>3
  <2> QED BY <1>3, <1>4, <2>1
<1>7. d = 0
  BY <1>3, <1>5, <1>6
<1> QED BY <1>3, <1>7

\* The remainders, also of a number moved by half, are the same but for multiples.
LEMMA RemainderSame ==
  ASSUME NEW M \in Nat \ {0}, NEW n \in Int, NEW h \in Int
  PROVE  LET v == ((n + h) % M) - h
         IN v \in -h .. -h + M - 1 /\ Same(v, n, M)
<1> DEFINE m == n + h
           r == m % M
           q == m \div M
<1>1. m \in Int
  OBVIOUS
<1>2. q \in Int /\ r \in 0 .. M - 1 /\ m = M * q + r
  <2> HIDE DEF m
  <2> QED BY ONLY <1>1, M \in Nat \ {0}
<1>3. m = n + h
  OBVIOUS
<1> HIDE DEF m, q, r
<1> DEFINE v == r - h
           p == -q
<1>4. v \in -h .. -h + M - 1
  BY <1>2
<1>5. p \in Int /\ M * p = -(M * q)
  BY <1>2
<1> DEFINE x == M * q
           y == M * p
<1>6. m = x + r /\ x \in Int /\ y = -x /\ y \in Int
  BY <1>2, <1>5
<1> HIDE DEF p, x, y
<1>7. v - n = y
  BY <1>2, <1>3, <1>6
<1>8. Same(v, n, M)
  BY <1>5, <1>7 DEF Same, y
<1> QED BY <1>4, <1>8 DEF r, m

Ranged(d, v) ==
  LET half == HalfOf[d.mod]
  IN v \in IF d.conv = "d" THEN -half .. half - 1 ELSE 0 .. 2 * half - 1

\* What the code takes is what C means.
LEMMA MeantIs ==
  ASSUME NEW d, d.conv \in {"d", "u", "o", "x"}, d.mod \in Modifiers, NEW arg \in Int
  PROVE  Meant(d, arg) = Argument(d, arg) /\ Ranged(d, Argument(d, arg))
<1> DEFINE half == HalfOf[d.mod]
           M == 2 * half
           h == IF d.conv = "d" THEN half ELSE 0
           v == Argument(d, arg)
           range == IF d.conv = "d" THEN -half .. half - 1 ELSE 0 .. 2 * half - 1
<1>1. half \in Nat \ {0}
  BY PrintfAssumption
<1>2. Modifier(d) = d.mod
  BY DEF Modifier
<1>3. v = ((arg + h) % M) - h
  <2>1. v = IF d.conv = "d" THEN SignedWrapped(arg, half) ELSE Wrapped(arg, half)
    BY <1>2, Zenon DEF Argument
  <2> HIDE DEF half, v
  <2>2. CASE d.conv = "d"
    BY <2>1, <2>2 DEF SignedWrapped
  <2>3. CASE d.conv # "d"
    <3>1. v = arg % M
      BY <2>1, <2>3 DEF Wrapped
    <3>2. h = 0 /\ arg + 0 = arg
      BY <2>3
    <3>3. arg % M \in Int
      BY <1>1
    <3> HIDE DEF M, h
    <3>4. (arg + h) % M = arg % M
      BY <3>2
    <3> QED BY <3>1, <3>2, <3>3, <3>4
  <2> QED BY <2>2, <2>3
<1>4. M \in Nat \ {0} /\ h \in Int /\ range = -h .. -h + M - 1
  <2> HIDE DEF half
  <2> QED BY <1>1
<1> HIDE DEF half, M, h, v, range
<1>5. v \in range /\ Same(v, arg, M)
  BY <1>3, <1>4, RemainderSame
<1>6. range \subseteq Int
  BY <1>4
<1>7. (v - arg) % M = 0
  BY <1>4, <1>5, <1>6, SameIs
<1>8. ASSUME NEW w \in range, (w - arg) % M = 0 PROVE w = v
  <2>1. Same(w, arg, M)
    BY <1>4, <1>6, <1>8, SameIs
  <2>2. w \in -h .. -h + M - 1 /\ v \in -h .. -h + M - 1 /\ -h \in Int
    BY <1>4, <1>5
  <2> QED BY <1>4, <1>5, <2>1, <2>2, OneSame
<1>9. Meant(d, arg) = CHOOSE w \in range : (w - arg) % M = 0
  BY Zenon DEF Meant, range, M, half
<1>10. Meant(d, arg) = v
  BY <1>5, <1>7, <1>8, <1>9
<1> QED BY <1>5, <1>10, Zenon DEF Ranged, v, range, half

\* The same character m times in front.
Pads(c, m) == [k \in 1 .. m |-> c]

LEMMA PadsIs ==
  ASSUME NEW c \in Nat, NEW m \in Nat
  PROVE  Pads(c, m) \in Seq(Nat) /\ Len(Pads(c, m)) = m /\ \A k \in 1 .. m : Pads(c, m)[k] = c
<1> DEFINE s == Pads(c, m)
<1>1. s = [k \in 1 .. m |-> c]
  BY DEF Pads
<1> HIDE DEF s
<1> QED BY <1>1 DEF s

Joint(s, a, b, S) ==
  /\ s \in Seq(S) /\ Len(a) \in Nat /\ Len(b) \in Nat /\ Len(s) = Len(a) + Len(b)
  /\ \A k \in 1 .. Len(a) : s[k] = a[k]
  /\ \A k \in 1 .. Len(b) : s[Len(a) + k] = b[k]

LEMMA BehindIs ==
  ASSUME NEW S, NEW a \in Seq(S), NEW b \in Seq(S)
  PROVE  Joint(Behind(a, b), a, b, S)
<1> DEFINE s == a \o b
<1>1. s \in Seq(S) /\ Len(a) \in Nat /\ Len(b) \in Nat /\ Len(s) = Len(a) + Len(b)
  OBVIOUS
<1>2. \A k \in 1 .. Len(a) : s[k] = a[k]
  OBVIOUS
<1>3. \A k \in 1 .. Len(b) : s[Len(a) + k] = b[k]
  OBVIOUS
<1>4. Behind(a, b) = s
  BY DEF Behind
<1> HIDE DEF s
<1> QED BY <1>1, <1>2, <1>3, <1>4 DEF Joint

\* What is behind a is found there.
LEMMA Rest ==
  ASSUME NEW S, NEW a \in Seq(S), NEW b \in Seq(S), NEW from, from = Len(a) + 1
  PROVE  SubSeq(Behind(a, b), from, Len(Behind(a, b))) = b
<1> DEFINE s == Behind(a, b)
           A == Len(a)
           B == Len(b)
           N == Len(s)
           t == SubSeq(s, from, N)
<1>1. /\ s \in Seq(S) /\ A \in Nat /\ B \in Nat /\ N = A + B
      /\ \A k \in 1 .. B : s[A + k] = b[k]
  BY BehindIs DEF Joint
<1> HIDE DEF s, A, B, N
<1>2. from = A + 1
  BY DEF A
<1>3. t \in Seq(S) /\ Len(t) = B /\ \A k \in 1 .. B : t[k] = s[from + k - 1]
  <2>1. \A k \in from .. N : s[k] \in S
    BY <1>1, <1>2, ElementOfSeq DEF N
  <2>2. from \in Int /\ N \in Int /\ (IF from <= N + 1 THEN N - from + 1 ELSE 0) = B
    BY <1>1, <1>2
  <2> QED BY <1>1, <1>2, <2>1, <2>2, SubSeqProperties DEF N
<1>4. \A k \in 1 .. B : t[k] = b[k]
  <2> TAKE k \in 1 .. B
  <2>1. from + k - 1 = A + k
    BY <1>1, <1>2
  <2> QED BY <1>1, <1>3, <2>1
<1> HIDE DEF t
<1>5. Len(b) = B
  BY DEF B
<1>6. t = b
  BY <1>3, <1>4, <1>5, SeqEqual
<1> QED BY <1>6 DEF t, s, N

\* A number padded with a character: text is m of them and then the body.
Padded(text, c, m, body, width) ==
  /\ text \in Seq(Nat) /\ m \in Nat /\ text = Behind(Pads(c, m), body)
  /\ Len(text) \in Nat /\ Len(text) = m + Len(body) /\ Len(text) >= width
  /\ m > 0 => Len(text) = width

LEMMA Padding ==
  ASSUME NEW c \in Nat, NEW body \in Seq(Nat), NEW width \in Int
  PROVE  LET missing == IF width > Len(body) THEN width - Len(body) ELSE 0
         IN Padded([k \in 1 .. missing |-> c] \o body, c, missing, body, width)
<1> DEFINE B == Len(body)
           m == IF width > B THEN width - B ELSE 0
           text == Behind(Pads(c, m), body)
<1>1. B \in Nat
  BY LenProperties
<1> HIDE DEF B
<1>2. m \in Nat /\ (m > 0 => m + B = width) /\ m + B >= width
  BY <1>1
<1> HIDE DEF m
<1>3. Pads(c, m) \in Seq(Nat) /\ Len(Pads(c, m)) = m
  BY <1>2, PadsIs
<1>4. text \in Seq(Nat) /\ Len(text) = m + B
  BY <1>3, BehindIs DEF B, Joint
<1>5. text = [k \in 1 .. m |-> c] \o body
  BY Zenon DEF Behind, Pads
<1> HIDE DEF text
<1>6. Padded(text, c, m, body, width)
  <2>1. text = Behind(Pads(c, m), body) /\ Len(body) = B
    BY DEF text, B
  <2>2. Len(text) \in Nat
    BY <1>1, <1>2, <1>4
  <2> QED BY ONLY <1>2, <1>4, <2>1, <2>2 DEF Padded
<1> QED BY <1>5, <1>6 DEF m, B

\* The body of what print_number makes of a number that has room in 64 bits.
Spells(body, v, base, G) ==
  /\ G \in Seq(DigitOf(base)) /\ Bare(G) /\ Worth(G, base) = IF v < 0 THEN -v ELSE v
  /\ body = IF v < 0 THEN Behind(<<Minus>>, G) ELSE G

LEMMA Prints ==
  ASSUME NEW base \in Bases, NEW v \in Int, NEW width \in Int, NEW zeros \in BOOLEAN
  PROVE  \E body \in Seq(Nat) : \E m :
           /\ Padded(PrintNumber(v, base, width, zeros), IF zeros THEN 0 ELSE Blank, m, body, width)
           /\ v > -HalfOf["l"] => \E G : Spells(body, v, base, G)
<1> DEFINE half == HalfOf["l"]
           body == IF v < 0 THEN <<Minus>> \o Digits(SignedWrapped(-v, half), base)
                   ELSE Digits(v, base)
           c == IF zeros THEN 0 ELSE Blank
           m == IF width > Len(body) THEN width - Len(body) ELSE 0
<1>1. half \in Nat \ {0}
  BY PrintfAssumption DEF Modifiers
<1>2. c \in Nat
  BY DEF Blank
<1> HIDE DEF half
<1>3. DigitOf(base) \subseteq Nat
  BY DEF DigitOf, Bases
<1>4. body \in Seq(Nat)
  <2> DEFINE u == SignedWrapped(-v, half)
  <2>1. u \in Int
    <3>1. (-v + half) % (2 * half) \in Int
      BY <1>1
    <3> QED BY <1>1, <3>1 DEF SignedWrapped
  <2> HIDE DEF u
  <2>2. Digits(u, base) \in Seq(Nat) /\ Digits(v, base) \in Seq(Nat)
    BY <2>1, DigitsTyped
  <2>3. <<Minus>> \o Digits(u, base) \in Seq(Nat)
    BY <2>2 DEF Minus
  <2> QED BY <2>2, <2>3 DEF u
<1>5. PrintNumber(v, base, width, zeros) = [k \in 1 .. m |-> c] \o body
  BY Zenon DEF PrintNumber, half
<1>6. v > -half => \E G : Spells(body, v, base, G)
  <2>1. CASE v >= 0
    <3>1. body = Digits(v, base) /\ v \in Nat /\ ~(v < 0)
      BY <2>1
    <3> QED BY <3>1, DigitsMake DEF Spells
  <2>2. CASE v < 0 /\ v > -half
    <3> DEFINE u == -v
    <3>1. u \in Nat /\ u < half
      BY <1>1, <2>2
    <3>2. SignedWrapped(u, half) = u
      <4>1. (u + half) % (2 * half) = u + half
        <5>1. u + half \in 0 .. 2 * half - 1 /\ 2 * half \in Nat \ {0}
          BY <1>1, <3>1
        <5> DEFINE x == u + half
                   M == 2 * half
        <5> HIDE DEF u, x, M
        <5>2. (M * 0 + x) % M = x
          BY <5>1, Division DEF x, M
        <5>3. M * 0 + x = x
          BY <5>1 DEF x, M
        <5> QED BY <5>2, <5>3 DEF x, M
      <4> HIDE DEF u
      <4> QED BY <1>1, <3>1, <4>1 DEF SignedWrapped
    <3>3. body = Behind(<<Minus>>, Digits(u, base))
      BY <2>2, <3>2, Zenon DEF Behind
    <3> HIDE DEF u, body
    <3>4. Digits(u, base) \in Seq(DigitOf(base)) /\ Bare(Digits(u, base)) /\ Worth(Digits(u, base), base) = u
      BY <3>1, DigitsMake
    <3>5. Spells(body, v, base, Digits(u, base))
      BY <2>2, <3>3, <3>4, Zenon DEF Spells, u
    <3> QED BY <3>5
  <2> QED BY <1>1, <2>1, <2>2
<1> HIDE DEF body
<1>7. Padded([k \in 1 .. m |-> c] \o body, c, m, body, width)
  BY <1>2, <1>4, Padding
<1> HIDE DEF m, c
<1> QED BY <1>4, <1>5, <1>6, <1>7 DEF half, c

\* Zeros in front are worth nothing.
LEMMA WorthPadded ==
  ASSUME NEW base \in Bases, NEW G \in Seq(DigitOf(base)), NEW m \in Nat
  PROVE  /\ Behind(Pads(0, m), G) \in Seq(DigitOf(base))
         /\ Worth(Behind(Pads(0, m), G), base) = Worth(G, base)
<1> DEFINE s == Behind(Pads(0, m), G)
           N == Len(s)
           L == Len(G)
<1>1. base \in Nat /\ 0 \in DigitOf(base) /\ DigitOf(base) \subseteq Nat
  BY DEF Bases, DigitOf
<1>2. Pads(0, m) \in Seq(DigitOf(base)) /\ Len(Pads(0, m)) = m /\ \A k \in 1 .. m : Pads(0, m)[k] = 0
  <2>1. Len(Pads(0, m)) = m /\ \A k \in 1 .. m : Pads(0, m)[k] = 0
    BY PadsIs
  <2>2. [k \in 1 .. m |-> 0] \in Seq(DigitOf(base))
    BY <1>1
  <2> QED BY <2>1, <2>2 DEF Pads
<1>3. /\ s \in Seq(DigitOf(base)) /\ N = m + L /\ L \in Nat
      /\ \A k \in 1 .. m : s[k] = 0
      /\ \A k \in 1 .. L : s[m + k] = G[k]
  <2> DEFINE P == Pads(0, m)
  <2>1. P \in Seq(DigitOf(base)) /\ Len(P) = m /\ \A k \in 1 .. m : P[k] = 0
    BY <1>2
  <2>2. s = Behind(P, G)
    OBVIOUS
  <2> HIDE DEF P, s
  <2> DEFINE D == DigitOf(base)
  <2>3. P \in Seq(D) /\ G \in Seq(D)
    BY <2>1
  <2> HIDE DEF D
  <2>4. Joint(Behind(P, G), P, G, D)
    BY ONLY <2>3, BehindIs, Zenon
  <2>5. /\ s \in Seq(D) /\ Len(G) \in Nat /\ Len(s) = Len(P) + Len(G)
        /\ \A k \in 1 .. Len(P) : s[k] = P[k]
        /\ \A k \in 1 .. Len(G) : s[Len(P) + k] = G[k]
    BY <2>2, <2>4 DEF Joint
  <2> QED BY <2>1, <2>5 DEF D
<1> HIDE DEF s
<1>4. PICK w \in [0 .. N -> Nat] :
        /\ w[0] = 0
        /\ \A n \in 1 .. N : w[n] = w[n - 1] * base + s[n]
        /\ Worth(s, base) = w[N]
  <2>1. s \in Seq(Nat)
    BY <1>1, <1>3
  <2> QED BY <1>1, <2>1, WorthUnfolds
<1>5. PICK g \in [0 .. L -> Nat] :
        /\ g[0] = 0
        /\ \A n \in 1 .. L : g[n] = g[n - 1] * base + G[n]
        /\ Worth(G, base) = g[L]
  <2>1. G \in Seq(Nat)
    BY <1>1
  <2> QED BY <1>1, <2>1, WorthUnfolds
<1> HIDE DEF N, L
<1> DEFINE I == {k \in Nat : k <= m => w[k] = 0}
           J == {k \in Nat : k <= L => w[m + k] = g[k]}
<1>6. 0 \in I
  BY <1>4
<1>7. ASSUME NEW k \in Nat, k \in I PROVE k + 1 \in I
  <2> SUFFICES ASSUME k + 1 <= m PROVE w[k + 1] = 0
    OBVIOUS
  <2> DEFINE j == k + 1
  <2>1. j \in 1 .. N /\ j \in 1 .. m /\ j - 1 = k /\ k <= m
    BY <1>3
  <2> HIDE DEF j
  <2>2. w[k] = 0
    BY <1>7, <2>1
  <2>3. w[j] = w[j - 1] * base + s[j] /\ s[j] = 0
    BY <1>3, <1>4, <2>1
  <2>4. w[j] = 0 * base + 0
    BY <2>1, <2>2, <2>3
  <2> QED BY <1>1, <2>4 DEF j
<1>8. \A k \in 0 .. m : w[k] = 0
  <2> HIDE DEF I
  <2>1. Nat \subseteq I
    BY <1>6, <1>7, SetInduction
  <2> QED BY <2>1 DEF I
<1>9. 0 \in J
  BY <1>5, <1>8
<1>10. ASSUME NEW k \in Nat, k \in J PROVE k + 1 \in J
  <2> SUFFICES ASSUME k + 1 <= L PROVE w[m + (k + 1)] = g[k + 1]
    OBVIOUS
  <2> DEFINE j == k + 1
             i == m + j
  <2>1. j \in 1 .. L /\ j - 1 = k /\ k <= L /\ i \in 1 .. N /\ i - 1 = m + k
    BY <1>3
  <2>2. s[i] = G[j]
    BY <1>3, <2>1
  <2> HIDE DEF i, j
  <2>3. w[m + k] = g[k]
    BY <1>10, <2>1
  <2>4. w[i] = w[i - 1] * base + s[i] /\ g[j] = g[j - 1] * base + G[j]
    BY <1>4, <1>5, <2>1
  <2>5. w[i] = g[j]
    BY <2>1, <2>2, <2>3, <2>4
  <2> QED BY <2>5 DEF i, j
<1> HIDE DEF J
<1>11. Nat \subseteq J
  BY <1>9, <1>10, SetInduction
<1>12. w[N] = g[L]
  BY <1>3, <1>11 DEF J
<1> QED BY <1>3, <1>4, <1>5, <1>12 DEF s

\* Digits have a value.
LEMMA ValueIs ==
  ASSUME NEW base \in Bases, NEW G \in Seq(DigitOf(base)), Len(G) >= 1
  PROVE  Value(G, base) = Worth(G, base)
<1>1. \A k \in 1 .. Len(G) : G[k] \in 0 .. base - 1
  BY ElementOfSeq DEF DigitOf
<1>2. DOMAIN G = 1 .. Len(G) /\ G # <<>>
  BY LenProperties
<1> QED BY <1>1, <1>2, Zenon DEF Value

\* The blanks, the sign and the digits of IsNumber.
Shows(text, value, base, width, zeros, blanks, sign, digits) ==
  /\ blanks \in 0 .. Len(text)
  /\ sign = IF value < 0 THEN <<Minus>> ELSE <<>>
  /\ SubSeq(text, blanks + Len(sign) + 1, Len(text)) = digits
  /\ text = [k \in 1 .. blanks |-> Blank] \o sign \o digits
  /\ Value(digits, base) = IF value < 0 THEN -value ELSE value
  /\ Len(text) >= width
  /\ blanks > 0 => ~zeros /\ Len(text) = width
  /\ Len(digits) > 1 /\ digits[1] = 0 => zeros /\ Len(text) = width

LEMMA ShowsNumber ==
  ASSUME NEW text, NEW value, NEW base, NEW width, NEW zeros, NEW blanks, NEW sign, NEW digits,
         Shows(text, value, base, width, zeros, blanks, sign, digits)
  PROVE  IsNumber(text, value, base, width, zeros)
BY Zenon DEF Shows, IsNumber

Composed(text, m, sign, digits) ==
  /\ m \in Nat /\ sign \in Seq(Nat) /\ digits \in Seq(Nat)
  /\ text = Behind(Behind(Pads(Blank, m), sign), digits)

Found(text, m, sign, digits) ==
  /\ m \in 0 .. Len(text)
  /\ SubSeq(text, m + Len(sign) + 1, Len(text)) = digits
  /\ text = [k \in 1 .. m |-> Blank] \o sign \o digits

LEMMA FoundSo ==
  ASSUME NEW m, NEW sign, NEW digits, NEW text, Composed(text, m, sign, digits)
  PROVE  Found(text, m, sign, digits)
<1> DEFINE P == Pads(Blank, m)
           a == Behind(P, sign)
           from == m + Len(sign) + 1
<1>1. /\ m \in Nat /\ sign \in Seq(Nat) /\ digits \in Seq(Nat)
      /\ text = Behind(Behind(Pads(Blank, m), sign), digits)
  BY DEF Composed
<1>2. P \in Seq(Nat) /\ Len(P) = m
  <2>1. Blank \in Nat
    BY DEF Blank
  <2> QED BY <1>1, <2>1, PadsIs
<1>3. text = [k \in 1 .. m |-> Blank] \o sign \o digits
  BY <1>1, Zenon DEF Behind, Pads
<1> HIDE DEF P
<1>4. a \in Seq(Nat) /\ Len(a) = m + Len(sign) /\ Len(sign) \in Nat
  BY <1>1, <1>2, BehindIs DEF Joint
<1>5. text = Behind(a, digits)
  BY <1>1 DEF P
<1> HIDE DEF a
<1>6. Len(text) = Len(a) + Len(digits) /\ Len(digits) \in Nat
  BY <1>1, <1>4, <1>5, BehindIs DEF Joint
<1>7. from = Len(a) + 1
  BY <1>1, <1>4
<1> HIDE DEF from
<1>8. SubSeq(Behind(a, digits), from, Len(Behind(a, digits))) = digits
  BY ONLY <1>1, <1>4, <1>7, Rest
<1>9. m \in 0 .. Len(text)
  BY <1>1, <1>4, <1>6
<1> QED BY <1>3, <1>5, <1>8, <1>9 DEF from, Found

LEMMA Fillings ==
  /\ <<>> \in Seq(Nat) /\ <<Minus>> \in Seq(Nat) /\ Len(<<>>) = 0 /\ Len(<<Minus>>) = 1
  /\ \A c : Pads(c, 0) = <<>>
  /\ \A s \in Seq(Nat) : Behind(<<>>, s) = s /\ Behind(s, <<>>) = s
  /\ \A s, t, u \in Seq(Nat) : Behind(Behind(s, t), u) = Behind(s, Behind(t, u))
<1>1. <<>> \in Seq(Nat) /\ <<Minus>> \in Seq(Nat) /\ Len(<<>>) = 0 /\ Len(<<Minus>>) = 1
  BY DEF Minus
<1>2. ASSUME NEW c PROVE Pads(c, 0) = <<>>
  <2>1. Pads(c, 0) \in Seq({c}) /\ Len(Pads(c, 0)) = 0
    BY DEF Pads
  <2> QED BY <2>1, EmptySeq
<1>3. \A s \in Seq(Nat) : Behind(<<>>, s) = s /\ Behind(s, <<>>) = s
  BY ConcatEmptySeq DEF Behind
<1>4. ASSUME NEW s \in Seq(Nat), NEW t \in Seq(Nat), NEW u \in Seq(Nat)
      PROVE  Behind(Behind(s, t), u) = Behind(s, Behind(t, u))
  <2>1. (s \o t) \o u = s \o (t \o u)
    BY ONLY <1>4, ConcatAssociative
  <2> QED BY ONLY <2>1, Zenon DEF Behind
<1> QED BY <1>1, <1>2, <1>3, <1>4

\* A number is printed as C wants it, but for zeros in front of the sign.
LEMMA PrintsNumber ==
  ASSUME NEW base \in Bases, NEW v \in Int, NEW width \in Int, NEW zeros \in BOOLEAN, NEW m,
         NEW text, NEW body, NEW G,
         Padded(text, IF zeros THEN 0 ELSE Blank, m, body, width), Spells(body, v, base, G),
         ~(zeros /\ v < 0 /\ text[1] # Minus)
  PROVE  IsNumber(text, v, base, width, zeros)
<1> DEFINE c == IF zeros THEN 0 ELSE Blank
<1>1. /\ text \in Seq(Nat) /\ m \in Nat /\ text = Behind(Pads(c, m), body)
      /\ Len(text) \in Nat /\ Len(text) = m + Len(body) /\ Len(text) >= width
      /\ (m > 0 => Len(text) = width)
  BY DEF Padded
<1>2. /\ G \in Seq(DigitOf(base)) /\ Bare(G) /\ Worth(G, base) = IF v < 0 THEN -v ELSE v
      /\ body = IF v < 0 THEN Behind(<<Minus>>, G) ELSE G
  BY DEF Spells
<1>3. DigitOf(base) \subseteq Nat
  BY DEF DigitOf, Bases
<1>4. G \in Seq(Nat) /\ Len(G) \in Nat /\ Len(G) >= 1
  BY <1>2, <1>3, LenProperties DEF Bare
<1>5. Value(G, base) = IF v < 0 THEN -v ELSE v
  BY <1>2, <1>4, ValueIs
<1>6. CASE v < 0
  <2>1. body = Behind(<<Minus>>, G) /\ body \in Seq(Nat)
    <3>1. body = Behind(<<Minus>>, G)
      BY <1>2, <1>6
    <3>2. <<Minus>> \in Seq(Nat)
      BY Fillings
    <3> QED BY <1>4, <3>1, <3>2, BehindIs DEF Joint
  <2>2. m = 0 \/ ~zeros
    <3> SUFFICES ASSUME m # 0, zeros PROVE text[1] # Minus
      BY <1>6
    <3> DEFINE P == Pads(c, m)
    <3>1. c = 0 /\ c \in Nat
      OBVIOUS
    <3> HIDE DEF c
    <3>2. P \in Seq(Nat) /\ Len(P) = m /\ \A k \in 1 .. m : P[k] = c
      BY <1>1, <3>1, PadsIs
    <3>3. 1 \in 1 .. m
      BY <1>1
    <3> HIDE DEF P
    <3>4. Joint(Behind(P, body), P, body, Nat)
      BY <2>1, <3>2, BehindIs
    <3>5. text[1] = 0
      BY <1>1, <3>1, <3>2, <3>3, <3>4 DEF Joint, P
    <3> QED BY <3>5 DEF Minus
  <2>3. Pads(c, m) = Pads(Blank, m)
    BY <2>2, Fillings
  <2>4. text = Behind(Behind(Pads(Blank, m), <<Minus>>), G)
    <3>1. Pads(Blank, m) \in Seq(Nat)
      BY <1>1, PadsIs DEF Blank
    <3> HIDE DEF c
    <3> DEFINE P == Pads(Blank, m)
               s == <<Minus>>
    <3>2. P \in Seq(Nat) /\ s \in Seq(Nat) /\ text = Behind(P, Behind(s, G))
      BY <1>1, <2>1, <2>3, <3>1, Fillings
    <3> HIDE DEF P, s
    <3>3. Behind(Behind(P, s), G) = Behind(P, Behind(s, G))
      BY <1>4, <3>2, Fillings, Zenon
    <3> QED BY <3>2, <3>3 DEF P, s
  <2>5. Found(text, m, <<Minus>>, G)
    <3>1. Composed(text, m, <<Minus>>, G)
      BY <1>1, <1>4, <2>4, Fillings DEF Composed
    <3> QED BY <3>1, FoundSo
  <2>6. m > 0 => ~zeros /\ Len(text) = width
    BY <1>1, <2>2
  <2>7. ~(Len(G) > 1 /\ G[1] = 0)
    BY <1>2 DEF Bare
  <2> DEFINE sign == <<Minus>>
  <2>8. sign = IF v < 0 THEN <<Minus>> ELSE <<>>
    BY <1>6
  <2> HIDE DEF sign
  <2>9. Shows(text, v, base, width, zeros, m, sign, G)
    BY ONLY <1>1, <1>5, <2>5, <2>6, <2>7, <2>8, Zenon DEF Shows, Found, sign
  <2> QED BY <2>9, ShowsNumber
<1>7. CASE v >= 0 /\ ~zeros
  <2>1. text = Behind(Behind(Pads(Blank, m), <<>>), G)
    <3>1. Pads(Blank, m) \in Seq(Nat)
      BY <1>1, PadsIs DEF Blank
    <3>2. body = G
      BY <1>2, <1>7
    <3> QED BY <1>1, <1>7, <3>1, <3>2, Fillings
  <2> DEFINE sign == <<>>
  <2>2. Found(text, m, sign, G)
    <3>1. sign \in Seq(Nat)
      OBVIOUS
    <3>2. Composed(text, m, sign, G)
      BY ONLY <1>1, <1>4, <2>1, <3>1 DEF Composed, sign
    <3> QED BY <3>2, FoundSo
  <2>3. ~(Len(G) > 1 /\ G[1] = 0)
    BY <1>2 DEF Bare
  <2>4. sign = IF v < 0 THEN <<Minus>> ELSE <<>>
    BY <1>7
  <2> HIDE DEF sign
  <2>5. Shows(text, v, base, width, zeros, m, sign, G)
    BY ONLY <1>1, <1>5, <1>7, <2>2, <2>3, <2>4, Zenon DEF Shows, Found
  <2> QED BY <2>5, ShowsNumber
<1>8. CASE v >= 0 /\ zeros
  <2>1. text = Behind(Pads(0, m), G)
    BY <1>1, <1>2, <1>8
  <2>2. text \in Seq(DigitOf(base)) /\ Worth(text, base) = Worth(G, base)
    BY <1>1, <1>2, <2>1, WorthPadded
  <2>3. body = G /\ Len(text) >= 1
    BY <1>1, <1>2, <1>4, <1>8
  <2>4. Value(text, base) = IF v < 0 THEN -v ELSE v
    BY <1>2, <2>2, <2>3, ValueIs
  <2> DEFINE sign == <<>>
  <2>5. sign \in Seq(Nat) /\ text = Behind(Behind(Pads(Blank, 0), sign), text)
    <3>1. Pads(Blank, 0) = sign /\ sign \in Seq(Nat)
      BY Fillings
    <3>2. Behind(sign, sign) = sign /\ Behind(sign, text) = text
      BY <1>1, <3>1, Fillings
    <3> QED BY <3>1, <3>2, Zenon
  <2>6. Found(text, 0, sign, text)
    <3>1. Composed(text, 0, sign, text)
      BY ONLY <1>1, <2>5, 0 \in Nat DEF Composed
    <3> QED BY <3>1, FoundSo
  <2>7. Len(text) > 1 /\ text[1] = 0 => Len(text) = width
    <3> SUFFICES ASSUME Len(text) > 1, text[1] = 0, m = 0 PROVE FALSE
      BY <1>1
    <3>1. text = G
      BY <1>4, <2>1, Fillings
    <3> QED BY <1>2, <3>1 DEF Bare
  <2>8. sign = IF v < 0 THEN <<Minus>> ELSE <<>>
    BY <1>8
  <2>9. ~(0 > 0)
    OBVIOUS
  <2> HIDE DEF sign
  <2>10. Shows(text, v, base, width, zeros, 0, sign, text)
    BY ONLY <1>1, <1>8, <2>4, <2>6, <2>7, <2>8, <2>9, Zenon DEF Shows, Found
  <2> QED BY <2>10, ShowsNumber
<1> QED BY <1>6, <1>7, <1>8

\* The string that strtol is given for a printed number.
Reread(v, text) ==
  [sign |-> IF v < 0 THEN "-" ELSE "none", upper |-> FALSE,
   chars |-> IF text[1] = Minus THEN Tail(text) ELSE text]

LEMMA AllDigits ==
  ASSUME NEW base \in Bases, NEW G \in Seq(DigitOf(base))
  PROVE  G \in Seq(0 .. 35) /\ DigitsFrom(G, 1, base) = G
<1>1. base \in Nat /\ DigitOf(base) \subseteq 0 .. 35 /\ base <= 36
  BY DEF Bases, DigitOf
<1>2. G \in Seq(0 .. 35)
  BY <1>1
<1> DEFINE D == DigitsFrom(G, 1, base)
           N == Len(G)
           L == Len(D)
<1>3. N \in Nat /\ \A k \in 1 .. N : G[k] \in DigitOf(base)
  BY LenProperties, ElementOfSeq
<1>4. 1 \in 1 .. N + 1
  BY <1>3
<1>5. /\ D \in Seq(DigitOf(base)) /\ L \in Nat
      /\ 1 + L <= N + 1
      /\ \A i \in 1 .. L : D[i] = G[1 + i - 1]
      /\ 1 + L <= N => G[1 + L] >= base
  BY <1>2, <1>4, DigitsAre
<1>6. L = N
  <2> SUFFICES ASSUME L # N PROVE FALSE
    OBVIOUS
  <2> DEFINE k == 1 + L
  <2>1. k \in 1 .. N
    BY <1>3, <1>5
  <2>2. G[k] \in DigitOf(base) /\ G[k] >= base
    BY <1>3, <1>5, <2>1
  <2> HIDE DEF k
  <2> QED BY <1>1, <2>2 DEF DigitOf
<1>7. \A i \in 1 .. N : D[i] = G[i]
  <2> TAKE i \in 1 .. N
  <2>1. 1 + i - 1 = i
    OBVIOUS
  <2> QED BY <1>5, <1>6, <2>1
<1> HIDE DEF D
<1>8. D = G
  BY <1>5, <1>6, <1>7, SeqEqual
<1> QED BY <1>2, <1>8 DEF D

\* What is printed without padding is read back by strtol.
LEMMA ReadBack ==
  ASSUME NEW v \in LongMin .. LongMax, NEW body, NEW G, Spells(body, v, 10, G)
  PROVE  Strtol(Reread(v, body), 10).value = v
<1> DEFINE sign == IF v < 0 THEN "-" ELSE "none"
           str == [sign |-> sign, upper |-> FALSE, chars |-> G]
<1>1. 10 \in Bases /\ LongMin \in Int /\ LongMax \in Int
  BY NumbersAssumption DEF Bases, LongMin, LongMax
<1>2. /\ G \in Seq(DigitOf(10)) /\ Len(G) >= 1 /\ Worth(G, 10) = IF v < 0 THEN -v ELSE v
      /\ body = IF v < 0 THEN Behind(<<Minus>>, G) ELSE G
  BY DEF Spells, Bare
<1>3. G \in Seq(0 .. 35) /\ DigitsFrom(G, 1, 10) = G
  BY <1>1, <1>2, AllDigits
<1>4. (IF body[1] = Minus THEN Tail(body) ELSE body) = G
  <2>1. CASE v < 0
    <3>1. Behind(<<Minus>>, G)[1] = Minus /\ Tail(Behind(<<Minus>>, G)) = G
      BY <1>3, BehindOne, Zenon
    <3> QED BY <1>2, <2>1, <3>1, Zenon
  <2>2. CASE ~(v < 0)
    <3>1. body = G
      BY <1>2, <2>2
    <3>2. 1 \in 1 .. Len(G)
      BY <1>2, LenProperties
    <3>3. G[1] \in 0 .. 35
      BY <1>3, <3>2, ElementOfSeq
    <3>4. G[1] # Minus
      BY <3>3 DEF Minus
    <3> QED BY <3>1, <3>4
  <2> QED BY <2>1, <2>2
<1>5. Reread(v, body) = str
  BY <1>4, Zenon DEF Reread
<1>6. sign \in {"none", "+", "-"} /\ (sign = "-" <=> v < 0)
  OBVIOUS
<1> HIDE DEF sign
<1>7. str \in StringSet /\ str.chars = G /\ str.sign = sign
  BY ONLY <1>3, <1>6, FALSE \in BOOLEAN, Zenon DEF StringSet, str
<1> HIDE DEF str
<1>8. Number(str, 10) = Factor(str) * Worth(G, 10)
  <2>1. Number(str, 10) = Factor(str) * Worth(DigitsFrom(str.chars, 1, 10), 10)
    BY <1>1, <1>7, NumberCases
  <2> QED BY <1>3, <1>7, <2>1
<1>9. Number(str, 10) = v
  <2>1. CASE v < 0
    <3>1. Factor(str) = -1
      BY <1>6, <1>7, <2>1 DEF Factor
    <3>2. Worth(G, 10) = -v
      BY <1>2, <2>1
    <3> QED BY ONLY <1>1, <1>8, <3>1, <3>2, v \in LongMin .. LongMax
  <2>2. CASE ~(v < 0)
    <3>1. Factor(str) = 1
      BY <1>6, <1>7, <2>2 DEF Factor
    <3>2. Worth(G, 10) = v
      BY <1>2, <2>2
    <3> QED BY ONLY <1>1, <1>8, <3>1, <3>2, v \in LongMin .. LongMax
  <2> QED BY <2>1, <2>2
<1>10. Strtol(str, 10).value = Clamp(v, LongMin, LongMax)
  <2>1. ~(10 = 16 /\ HexPrefix(str)) /\ 10 \in {0} \cup Bases
    BY <1>1
  <2>2. Strtol(str, 10).value = Clamp(Number(str, 10), LongMin, LongMax)
    BY <1>7, <2>1, StrtolExact
  <2> QED BY <1>9, <2>2
<1>11. Clamp(v, LongMin, LongMax) = v
  BY <1>1 DEF Clamp
<1> QED BY <1>5, <1>10, <1>11

\* What a directive has besides its letter.
Worded(d) ==
  /\ d.conv \in {"%", "s", "p", "d", "u", "o", "x"} /\ d.mod \in Modifiers
  /\ d.width \in Int /\ d.zeros \in BOOLEAN

LEMMA DirectiveIs ==
  ASSUME NEW d \in Directives
  PROVE  \/ d.conv = "literal" /\ d.char \in Nat
         \/ d.conv # "literal" /\ Worded(d)
<1>1. CASE d \in [conv : {"literal"}, char : Nat]
  <2>1. d.conv \in {"literal"} /\ d.char \in Nat
    BY <1>1
  <2> QED BY <2>1
<1>2. CASE d \in [conv : {"%", "s", "p", "d", "u", "o", "x"}, mod : Modifiers, width : Nat \cup {Star},
                  zeros : BOOLEAN]
  <2>1. d.conv \in {"%", "s", "p", "d", "u", "o", "x"} /\ d.mod \in Modifiers /\ d.zeros \in BOOLEAN
    BY <1>2
  <2>2. d.width \in Nat \cup {Star}
    BY <1>2
  <2>3. d.width \in Int
    BY <2>2 DEF Star
  <2> QED BY <2>1, <2>3 DEF Worded
<1> QED BY <1>1, <1>2 DEF Directives

\* The width and the argument of a directive whose arguments begin at the n-th.
WidthAt(d, args, n) == IF Starred(d) THEN args[n] ELSE IF TakesArgument(d) THEN d.width ELSE 0
ArgumentAt(d, args, n) == IF TakesArgument(d) THEN args[n + Needs(d) - 1] ELSE 0

LEMMA PrintedIs ==
  ASSUME NEW d, NEW args, NEW n
  PROVE  Printed(d, args, n) = Converted(d, WidthAt(d, args, n), ArgumentAt(d, args, n))
BY Zenon DEF Printed, WidthAt, ArgumentAt

LEMMA NeedsIs ==
  ASSUME NEW d
  PROVE  /\ Needs(d) \in 0 .. 2
         /\ Starred(d) => Needs(d) >= 1
         /\ TakesArgument(d) => Needs(d) >= 1
BY DEF Needs

\* The directive of a format takes the same from the list of all as from its own.
LEMMA PrintedSame ==
  ASSUME NEW d, NEW A, NEW n \in Nat \ {0}, NEW args, Len(args) = Needs(d), Stands(A, n, args)
  PROVE  Printed(d, A, n) = Printed(d, args, 1)
<1> DEFINE N == Needs(d)
<1>1. /\ N \in Nat /\ (Starred(d) => N >= 1) /\ (TakesArgument(d) => N >= 1)
  BY NeedsIs
<1>2. \A k \in 1 .. N, i \in Nat : i + 1 = n + k => A[i] = args[k]
  BY DEF Stands
<1>3. WidthAt(d, A, n) = WidthAt(d, args, 1)
  <2>1. Starred(d) => A[n] = args[1]
    BY <1>1, <1>2
  <2> QED BY <2>1, Zenon DEF WidthAt
<1>4. ArgumentAt(d, A, n) = ArgumentAt(d, args, 1)
  <2>1. TakesArgument(d) => A[n + N - 1] = args[1 + N - 1]
    <3> HIDE DEF N
    <3> SUFFICES ASSUME TakesArgument(d) PROVE A[n + N - 1] = args[1 + N - 1]
      OBVIOUS
    <3>1. N \in 1 .. N /\ n + N - 1 \in Nat /\ (n + N - 1) + 1 = n + N /\ 1 + N - 1 = N
      BY <1>1
    <3> QED BY <1>2, <3>1
  <2> QED BY <2>1, Zenon DEF ArgumentAt
<1> QED BY <1>3, <1>4, PrintedIs, Zenon

\* The numbers that the arguments of a directive are.
LEMMA ServedIs ==
  ASSUME NEW d \in Directives, NEW args, Serves(args, d)
  PROVE  /\ Len(args) = Needs(d)
         /\ d.conv # "literal" => WidthAt(d, args, 1) \in Int
         /\ d.conv = "s" => ArgumentAt(d, args, 1) \in Seq(Nat)
         /\ d.conv \in {"p", "d", "u", "o", "x"} => ArgumentAt(d, args, 1) \in Int
         /\ d.conv \in {"p", "d", "u", "o", "x", "s"} => ArgumentAt(d, args, 1) = args[Len(args)]
<1>1. /\ Len(args) = Needs(d) /\ (Starred(d) => args[1] \in Int)
      /\ TakesArgument(d) => args[Len(args)] \in (IF d.conv = "s" THEN Seq(Nat) ELSE Int)
  BY DEF Serves
<1>2. d.conv # "literal" => d.width \in Int
  BY DirectiveIs DEF Worded
<1>3. 1 + Needs(d) - 1 = Len(args)
  BY <1>1, NeedsIs
<1>4. d.conv # "literal" => WidthAt(d, args, 1) \in Int
  BY <1>1, <1>2 DEF WidthAt
<1>5. d.conv \in {"p", "d", "u", "o", "x", "s"} => TakesArgument(d)
  BY DEF TakesArgument
<1>6. TakesArgument(d) => ArgumentAt(d, args, 1) = args[Len(args)]
  BY <1>3, Zenon DEF ArgumentAt
<1> HIDE DEF TakesArgument
<1>7. d.conv = "s" => ArgumentAt(d, args, 1) \in Seq(Nat)
  BY <1>1, <1>5, <1>6
<1>8. d.conv \in {"p", "d", "u", "o", "x"} => ArgumentAt(d, args, 1) \in Int
  BY <1>1, <1>5, <1>6
<1> QED BY <1>1, <1>4, <1>5, <1>6, <1>7, <1>8

LEMMA ReadIs ==
  ASSUME NEW d, d.mod \in Modifiers, NEW arg \in Int
  PROVE  Argument(d, arg) \in Int
<1> DEFINE half == HalfOf[Modifier(d)]
<1>1. Modifier(d) \in Modifiers
  BY DEF Modifier, Modifiers
<1>2. half \in Nat \ {0}
  BY <1>1, PrintfAssumption
<1> HIDE DEF half
<1> DEFINE M == 2 * half
<1>3. M \in Nat \ {0}
  BY <1>2
<1> HIDE DEF M
<1>4. arg % M \in Int /\ (arg + half) % M \in Int
  BY <1>2, <1>3
<1>5. Wrapped(arg, half) \in Int /\ SignedWrapped(arg, half) \in Int
  BY <1>2, <1>4 DEF Wrapped, SignedWrapped, M
<1> QED BY <1>5 DEF Argument, half

\* What is printed are characters.
LEMMA PrintedTyped ==
  ASSUME NEW d \in Directives, NEW args, Serves(args, d)
  PROVE  Printed(d, args, 1) \in Seq(Nat)
<1> DEFINE w == WidthAt(d, args, 1)
           a == ArgumentAt(d, args, 1)
           text == Converted(d, w, a)
<1>1. /\ d.conv # "literal" => w \in Int
      /\ d.conv = "s" => a \in Seq(Nat)
      /\ d.conv \in {"p", "d", "u", "o", "x"} => a \in Int
  BY ServedIs
<1>2. \/ d.conv = "literal" /\ d.char \in Nat
      \/ d.conv # "literal" /\ Worded(d)
  BY DirectiveIs
<1>3. Printed(d, args, 1) = text
  BY PrintedIs, Zenon
<1>4. \A c \in Nat : <<c>> \in Seq(Nat)
  OBVIOUS
<1> HIDE DEF w, a
<1>5. CASE d.conv = "literal"
  <2>1. text = <<d.char>> /\ d.char \in Nat
    BY <1>2, <1>5 DEF Converted
  <2>2. text \in Seq(Nat)
    BY ONLY <1>4, <2>1, Zenon
  <2> QED BY ONLY <1>3, <2>2, Zenon
<1>6. CASE d.conv = "%"
  <2>1. text = <<Percent>>
    BY <1>6 DEF Converted
  <2>2. Percent \in Nat
    BY DEF Percent
  <2>3. text \in Seq(Nat)
    BY ONLY <1>4, <2>1, <2>2, Zenon
  <2> QED BY ONLY <1>3, <2>3, Zenon
<1>7. CASE d.conv = "s"
  <2>1. text = a
    BY <1>7 DEF Converted
  <2> QED BY <1>1, <1>3, <1>7, <2>1
<1>8. CASE d.conv \in {"p", "d", "u", "o", "x"}
  <2>1. Worded(d) /\ w \in Int /\ a \in Int
    BY <1>1, <1>2, <1>8
  <2>2. Argument(d, a) \in Int
    BY <2>1, ReadIs DEF Worded
  <2> DEFINE v == Argument(d, a)
             base == Base(d.conv)
             number == PrintNumber(v, base, w, d.zeros)
             hex == PrintNumber(v, 16, w, d.zeros)
  <2>3. base \in Bases /\ 16 \in Bases
    BY DEF Base, Bases
  <2>4. d.zeros \in BOOLEAN
    BY <2>1 DEF Worded
  <2> HIDE DEF base
  <2>5. number \in Seq(Nat) /\ hex \in Seq(Nat)
    BY <2>1, <2>2, <2>3, <2>4, Prints DEF Padded
  <2>6. text = number \/ text = <<0, 33>> \o hex
    BY <1>8, Zenon DEF Converted, base
  <2> HIDE DEF number, hex, text
  <2>7. text \in Seq(Nat)
    <3> DEFINE s == <<0, 33>>
    <3>1. s \in Seq(Nat)
      OBVIOUS
    <3> HIDE DEF s
    <3>2. s \o hex \in Seq(Nat)
      BY <2>5, <3>1
    <3> QED BY <2>5, <2>6, <3>2 DEF s
  <2> QED BY <1>3, <2>7
<1> QED BY <1>2, <1>5, <1>6, <1>7, <1>8 DEF Worded

\* Directives with the arguments they ask for.
Directed(parts) ==
  /\ parts \in Seq({parts[k] : k \in DOMAIN parts})
  /\ \A k \in DOMAIN parts : parts[k].d \in Directives /\ Serves(parts[k].args, parts[k].d)

PrintState(at, text, next) == [at |-> at, text |-> text, next |-> next]

PrintGoesOn(format, args, at, text, next) ==
  [st \in Printing |-> PrintTurn(format, args, st)][PrintState(at, text, next)] =
    PrintState(at + 1, Behind(text, Printed(format[at], args, next)), next + Needs(format[at]))

LEMMA PrintTurned ==
  ASSUME NEW format, NEW args, NEW at \in Nat, NEW text \in Seq(Nat), NEW next \in Nat
  PROVE  PrintGoesOn(format, args, at, text, next)
<1> DEFINE st == PrintState(at, text, next)
<1>1. st \in Printing
  BY Zenon DEF Printing, PrintState
<1>2. st.at = at /\ st.text = text /\ st.next = next
  BY Zenon DEF PrintState
<1> HIDE DEF st
<1>3. PrintTurn(format, args, st) =
        PrintState(at + 1, Behind(text, Printed(format[at], args, next)), next + Needs(format[at]))
  BY <1>2, Zenon DEF PrintTurn, PrintState, Behind
<1>4. [s \in Printing |-> PrintTurn(format, args, s)][st] = PrintTurn(format, args, st)
  BY <1>1, Zenon
<1> QED BY <1>3, <1>4, Zenon DEF st, PrintGoesOn

LEMMA PrintBegins ==
  PrintState(1, <<>>, 1) = [at |-> 1, text |-> <<>>, next |-> 1] /\ <<>> \in Seq(Nat)
BY DEF PrintState

\* A format of one directive prints what that prints.
LEMMA OnePrinted ==
  ASSUME NEW d \in Directives, NEW args, Serves(args, d)
  PROVE  InternalPrintf(<<d>>, args) = Printed(d, args, 1)
<1> DEFINE format == <<d>>
           turn == [st \in Printing |-> PrintTurn(format, args, st)]
           init == PrintState(1, <<>>, 1)
           empty == <<>>
           text == Printed(format[1], args, 1)
<1>1. InternalPrintf(format, args) = Iterate(turn, init, Len(format)).text
  BY PrintBegins, Zenon DEF InternalPrintf
<1>2. Len(format) = 1 /\ format[1] = d
  OBVIOUS
<1>3. empty \in Seq(Nat) /\ 1 \in Nat /\ 0 \in Nat /\ 1 = 0 + 1
  OBVIOUS
<1>4. turn[init] = PrintState(1 + 1, Behind(empty, text), 1 + Needs(format[1]))
  <2>1. PrintGoesOn(format, args, 1, empty, 1)
    BY ONLY <1>3, PrintTurned, Zenon
  <2> QED BY ONLY <2>1, Zenon DEF turn, init, PrintGoesOn
<1>5. text = Printed(d, args, 1) /\ text \in Seq(Nat)
  <2>1. text = Printed(d, args, 1)
    BY <1>2, Zenon
  <2> QED BY <2>1, PrintedTyped
<1>6. \A at, t, next : PrintState(at, t, next).text = t
  BY DEF PrintState
<1> HIDE DEF format, turn, init, text
<1>7. Iterate(turn, init, 1) = turn[init]
  BY <1>3, IterateUnfolds
<1>8. Behind(empty, text) = text
  BY <1>5, Fillings
<1>9. InternalPrintf(format, args) = Behind(empty, text)
  <2>1. InternalPrintf(format, args) = Iterate(turn, init, 1).text
    BY ONLY <1>1, <1>2, Zenon
  <2>2. Iterate(turn, init, 1) = PrintState(1 + 1, Behind(empty, text), 1 + Needs(format[1]))
    BY ONLY <1>4, <1>7, Zenon
  <2>3. PrintState(1 + 1, Behind(empty, text), 1 + Needs(format[1])).text = Behind(empty, text)
    BY DEF PrintState
  <2> DEFINE st == PrintState(1 + 1, Behind(empty, text), 1 + Needs(format[1]))
  <2> HIDE DEF st
  <2>4. Iterate(turn, init, 1) = st /\ st.text = Behind(empty, text)
    BY <2>2, <2>3 DEF st
  <2> QED BY ONLY <2>1, <2>4, Zenon
<1> QED BY <1>5, <1>8, <1>9 DEF format

\* The text of a format is that of its directives, each with its own arguments.
LEMMA PrintsInOrder ==
  ASSUME NEW parts, Directed(parts)
  PROVE  LET texts == [k \in DOMAIN parts |-> InternalPrintf(<<parts[k].d>>, parts[k].args)]
             text == InternalPrintf([k \in DOMAIN parts |-> parts[k].d],
                                    FlattenSeq([k \in DOMAIN parts |-> parts[k].args]))
         IN text = FlattenSeq(texts) /\ text \in Seq(Nat)
<1> DEFINE N == Len(parts)
           format == [k \in DOMAIN parts |-> parts[k].d]
           lists == [k \in DOMAIN parts |-> parts[k].args]
           texts == [k \in DOMAIN parts |-> InternalPrintf(<<parts[k].d>>, parts[k].args)]
           T == UNION {{parts[k].args[i] : i \in DOMAIN parts[k].args} : k \in DOMAIN parts}
           args == FlattenSeq(lists)
           turn == [st \in Printing |-> PrintTurn(format, args, st)]
           init == PrintState(1, <<>>, 1)
<1>1. N \in Nat /\ DOMAIN parts = 1 .. N
  BY LenProperties DEF Directed
<1>2. \A k \in 1 .. N : parts[k].d \in Directives /\ Serves(parts[k].args, parts[k].d)
  BY <1>1 DEF Directed
<1>3. lists \in Seq(Seq(T)) /\ Len(lists) = N /\ \A k \in 1 .. N : lists[k] = parts[k].args
  <2>1. ASSUME NEW k \in 1 .. N PROVE parts[k].args \in Seq(T)
    <3> DEFINE a == parts[k].args
               A == {a[i] : i \in DOMAIN a}
    <3>1. a \in Seq(A)
      BY <1>2 DEF Serves
    <3>2. A \subseteq T
      BY <1>1
    <3> HIDE DEF a, A, T
    <3> QED BY <3>1, <3>2 DEF a
  <2> HIDE DEF T, N
  <2>2. lists \in [1 .. N -> Seq(T)]
    BY <1>1, <2>1
  <2> QED BY <1>1, <2>2
<1>4. texts \in Seq(Seq(Nat)) /\ Len(texts) = N
      /\ \A k \in 1 .. N : texts[k] = Printed(parts[k].d, parts[k].args, 1)
  <2>1. \A k \in 1 .. N : texts[k] = InternalPrintf(<<parts[k].d>>, parts[k].args)
    BY <1>1
  <2>2. \A k \in 1 .. N : texts[k] = Printed(parts[k].d, parts[k].args, 1) /\ texts[k] \in Seq(Nat)
    BY <1>2, <2>1, OnePrinted, PrintedTyped
  <2>3. DOMAIN texts = 1 .. N /\ texts = [k \in DOMAIN parts |-> texts[k]]
    BY <1>1
  <2> HIDE DEF N, texts
  <2>4. texts \in [1 .. N -> Seq(Nat)]
    BY <1>1, <2>2, <2>3
  <2> QED BY <1>1, <2>2, <2>4
<1> HIDE DEF N, lists, texts, T, args
<1>5. PICK flatA : Laid(flatA, lists, T)
  <2>1. CASE N = 0
    BY <1>3, <2>1, LaidEmpty
  <2>2. CASE N # 0
    BY <1>3, <2>2, LaidOut
  <2> QED BY <2>1, <2>2
<1>6. PICK flatT : Laid(flatT, texts, Nat)
  <2>1. CASE N = 0
    BY <1>4, <2>1, LaidEmpty
  <2>2. CASE N # 0
    BY <1>4, <2>2, LaidOut
  <2> QED BY <2>1, <2>2
<1>7. /\ \A k \in 0 .. N : Len(flatA[k]) \in Nat
      /\ Len(flatA[0]) = 0
      /\ \A k \in 1 .. N : Len(flatA[k]) = Len(flatA[k - 1]) + Len(lists[k])
                           /\ Stands(args, Len(flatA[k - 1]) + 1, lists[k])
  BY <1>3, <1>5 DEF Laid, args
<1>8. /\ \A k \in 0 .. N : flatT[k] \in Seq(Nat)
      /\ flatT[0] = <<>> /\ flatT[N] = FlattenSeq(texts)
      /\ \A k \in 1 .. N : flatT[k] = Behind(flatT[k - 1], texts[k])
  BY <1>4, <1>6 DEF Laid
<1>9. \A k \in 1 .. N : format[k] = parts[k].d
  BY <1>1
<1>10. Len(format) = N
  BY <1>1
<1>11. InternalPrintf(format, args) = Iterate(turn, init, N).text
  BY <1>10, PrintBegins, Zenon DEF InternalPrintf
<1> DEFINE St(k) == PrintState(k + 1, flatT[k], Len(flatA[k]) + 1)
           I == {k \in Nat : k <= N => Iterate(turn, init, k) = St(k)}
<1>12. 0 \in I
  <2>1. Iterate(turn, init, 0) = init
    BY IterateUnfolds
  <2>2. St(0) = init
    BY <1>7, <1>8
  <2> QED BY <2>1, <2>2
<1>13. ASSUME NEW k \in Nat, k \in I PROVE k + 1 \in I
  <2> DEFINE m == k + 1
             next == Len(flatA[k]) + 1
             d == format[m]
  <2> SUFFICES ASSUME m <= N PROVE Iterate(turn, init, m) = St(m)
    BY <1>1
  <2>1. k \in 0 .. N /\ m \in 1 .. N /\ m \in Nat /\ m - 1 = k
    BY <1>1
  <2>2. Iterate(turn, init, k) = St(k)
    BY <1>13, <2>1
  <2>3. Iterate(turn, init, m) = turn[St(k)]
    <3> HIDE DEF turn, init, St
    <3>1. \A j \in Nat : j = k + 1 => Iterate(turn, init, j) = turn[Iterate(turn, init, k)]
      BY IterateUnfolds
    <3> QED BY <2>1, <2>2, <3>1
  <2>4. next \in Nat \ {0} /\ flatT[k] \in Seq(Nat)
    BY <1>7, <1>8, <2>1
  <2>5. d = parts[m].d /\ lists[m] = parts[m].args /\ Serves(lists[m], d) /\ d \in Directives
    BY <1>2, <1>3, <1>9, <2>1
  <2>6. Len(lists[m]) = Needs(d) /\ Needs(d) \in Nat
    BY <2>5, ServedIs, NeedsIs
  <2>7. Stands(args, next, lists[m])
    BY <1>7, <2>1
  <2> HIDE DEF m, next, d, format
  <2>8. turn[St(k)] = PrintState(m + 1, Behind(flatT[k], Printed(d, args, next)), next + Needs(d))
    <3>1. St(k) = PrintState(m, flatT[k], next)
      BY DEF m, next
    <3>2. next \in Nat
      BY <2>4
    <3>3. turn[PrintState(m, flatT[k], next)] =
            PrintState(m + 1, Behind(flatT[k], Printed(format[m], args, next)), next + Needs(format[m]))
      <4>1. PrintGoesOn(format, args, m, flatT[k], next)
        BY ONLY <2>1, <2>4, <3>2, PrintTurned, Zenon
      <4> QED BY ONLY <4>1, Zenon DEF turn, PrintGoesOn
    <3> QED BY <3>1, <3>3 DEF d
  <2>9. Printed(d, args, next) = texts[m]
    <3>1. Printed(d, args, next) = Printed(d, lists[m], 1)
      BY <2>4, <2>6, <2>7, PrintedSame
    <3> QED BY <1>4, <2>1, <2>5, <3>1
  <2>10. flatT[m] = Behind(flatT[k], texts[m])
    BY <1>8, <2>1
  <2>11. next + Needs(d) = Len(flatA[m]) + 1
    <3>1. Len(flatA[m]) = Len(flatA[k]) + Len(lists[m]) /\ Len(flatA[k]) \in Nat
      BY <1>7, <2>1
    <3> QED BY <2>6, <3>1 DEF next
  <2> HIDE DEF turn, init
  <2> QED BY <2>3, <2>8, <2>9, <2>10, <2>11
<1> HIDE DEF I
<1>14. Nat \subseteq I
  BY <1>12, <1>13, SetInduction
<1> HIDE DEF turn, init
<1>15. Iterate(turn, init, N) = St(N)
  BY <1>1, <1>14 DEF I
<1>16. St(N).text = flatT[N]
  BY DEF PrintState
<1>17. flatT[N] \in Seq(Nat)
  BY <1>1, <1>8
<1> QED BY <1>8, <1>11, <1>15, <1>16, <1>17 DEF texts, args, lists

\* Numbers are printed right and read back by strtol.
LEMMA NumbersPrinted ==
  ASSUME NEW d \in Directives, d.conv \in {"d", "u", "o", "x"}, NEW args, Serves(args, d)
  PROVE  ConvertsRight(d, args)
<1> DEFINE text == InternalPrintf(<<d>>, args)
           a == args[Len(args)]
           width == IF Starred(d) THEN args[1] ELSE d.width
           v == Meant(d, a)
           half == HalfOf["l"]
           base == Base(d.conv)
           body == IF text[1] = Minus THEN Tail(text) ELSE text
<1>1. Worded(d) /\ d.mod \in Modifiers /\ d.zeros \in BOOLEAN
  BY DirectiveIs DEF Worded
<1>2. TakesArgument(d)
  BY DEF TakesArgument
<1>3. WidthAt(d, args, 1) = width /\ width \in Int
  <2>1. WidthAt(d, args, 1) = width
    BY <1>2, Zenon DEF WidthAt
  <2> QED BY <2>1, ServedIs
<1>4. ArgumentAt(d, args, 1) = a /\ a \in Int
  BY ServedIs
<1> HIDE DEF width, a
<1>5. v = Argument(d, a) /\ Ranged(d, v) /\ v \in Int
  BY <1>1, <1>4, MeantIs, ReadIs
<1>6. text = PrintNumber(v, base, width, d.zeros)
  <2>1. text = Converted(d, width, a)
    BY <1>3, <1>4, OnePrinted, PrintedIs, Zenon
  <2>2. Converted(d, width, a) = PrintNumber(Argument(d, a), base, width, d.zeros)
    BY Zenon DEF Converted
  <2> QED BY <1>5, <2>1, <2>2
<1>7. base \in Bases /\ (d.conv = "d" => base = 10)
  BY DEF Base, Bases
<1>8. half \in Nat \ {0} /\ HalfOf[d.mod] \in Nat \ {0} /\ HalfOf[d.mod] <= half /\ half = Half
  BY <1>1, PrintfAssumption, LongAssumption DEF Modifiers
<1> HIDE DEF v, text, base, half
<1>9. /\ v # -half => v > -half
      /\ d.conv = "d" => v \in LongMin .. LongMax
  BY <1>5, <1>8 DEF Ranged, LongMin, LongMax
<1> SUFFICES ASSUME v # -half
             PROVE  /\ ~(d.zeros /\ v < 0 /\ text[1] # Minus) => IsNumber(text, v, base, width, d.zeros)
                    /\ d.conv = "d" /\ width = 0 =>
                         Strtol([sign |-> IF v < 0 THEN "-" ELSE "none", upper |-> FALSE, chars |-> body], 10).value = v
  BY Zenon DEF ConvertsRight, text, v, a, width, base, half
<1>10. PICK body0 \in Seq(Nat), m0 \in Nat :
         /\ Padded(text, IF d.zeros THEN 0 ELSE Blank, m0, body0, width)
         /\ v > -half => \E G : Spells(body0, v, base, G)
  <2>1. PICK body1 \in Seq(Nat) : \E m :
           /\ Padded(text, IF d.zeros THEN 0 ELSE Blank, m, body1, width)
           /\ v > -half => \E G : Spells(body1, v, base, G)
    BY <1>1, <1>3, <1>5, <1>6, <1>7, Prints DEF half
  <2>2. PICK m1 :
           /\ Padded(text, IF d.zeros THEN 0 ELSE Blank, m1, body1, width)
           /\ v > -half => \E G : Spells(body1, v, base, G)
    BY <2>1
  <2>3. m1 \in Nat
    BY <2>2 DEF Padded
  <2> QED BY <2>2, <2>3
<1>11. PICK G : Spells(body0, v, base, G)
  BY <1>9, <1>10
<1>12. ASSUME ~(d.zeros /\ v < 0 /\ text[1] # Minus) PROVE IsNumber(text, v, base, width, d.zeros)
  BY <1>1, <1>3, <1>5, <1>7, <1>10, <1>11, <1>12, PrintsNumber
<1>13. ASSUME d.conv = "d", width = 0
       PROVE  Strtol([sign |-> IF v < 0 THEN "-" ELSE "none", upper |-> FALSE, chars |-> body], 10).value = v
  <2>1. text = body0
    <3> DEFINE c == IF d.zeros THEN 0 ELSE Blank
    <3>1. Padded(text, c, m0, body0, width)
      BY <1>10
    <3> HIDE DEF c
    <3>2. /\ m0 \in Nat /\ text = Behind(Pads(c, m0), body0) /\ Len(text) \in Nat
          /\ Len(text) = m0 + Len(body0) /\ (m0 > 0 => Len(text) = 0)
      BY <1>13, <3>1 DEF Padded
    <3>3. Len(body0) \in Nat
      BY LenProperties
    <3>4. m0 = 0
      BY <3>2, <3>3
    <3> QED BY <3>2, <3>4, Fillings
  <2>2. Spells(text, v, 10, G) /\ v \in LongMin .. LongMax
    BY <1>7, <1>9, <1>11, <1>13, <2>1
  <2>3. Strtol(Reread(v, text), 10).value = v
    BY ONLY <2>2, ReadBack, Zenon
  <2> QED BY ONLY <2>3, Zenon DEF Reread, body
<1> QED BY <1>12, <1>13

\* The piece of a sequence from behind a up to b.
LEMMA StretchIs ==
  ASSUME NEW T, NEW t \in Seq(T), NEW a \in Nat, NEW b \in Nat, a <= b, b <= Len(t)
  PROVE  /\ SubSeq(t, a + 1, b) \in Seq(T) /\ Len(SubSeq(t, a + 1, b)) = b - a
         /\ \A i \in 1 .. b - a : SubSeq(t, a + 1, b)[i] = t[a + i]
<1> DEFINE s == SubSeq(t, a + 1, b)
           m == a + 1
           n == Len(t)
<1>1. n \in Nat /\ m \in Int /\ b \in Int /\ b <= n
  BY LenProperties
<1>2. \A i \in m .. b : t[i] \in T
  <2> HIDE DEF n
  <2>1. \A i \in m .. b : i \in 1 .. n
    BY <1>1
  <2> QED BY <2>1, ElementOfSeq DEF n
<1> HIDE DEF m
<1>3. m \in Int /\ b \in Int /\ (IF m <= b THEN b - m + 1 ELSE 0) = b - a /\ b - m + 1 = b - a
  BY DEF m
<1>4. s \in Seq(T) /\ Len(s) = b - a /\ \A i \in 1 .. b - a : s[i] = t[m + i - 1]
  BY <1>1, <1>2, <1>3, SubSeqProperties
<1>5. \A i \in 1 .. b - a : m + i - 1 = a + i
  BY DEF m
<1> HIDE DEF s
<1> QED BY <1>4, <1>5 DEF s, m

LEMMA PiecesMeet ==
  ASSUME NEW T, NEW t \in Seq(T), NEW a \in Nat, NEW b \in Nat, a <= b, b <= Len(t)
  PROVE  Behind(SubSeq(t, 1, a), SubSeq(t, a + 1, b)) = SubSeq(t, 1, b)
<1> DEFINE p == SubSeq(t, 0 + 1, a)
           q == SubSeq(t, a + 1, b)
           r == SubSeq(t, 0 + 1, b)
           s == Behind(p, q)
<1>1. Len(t) \in Nat /\ 0 \in Nat /\ 0 <= a /\ a <= Len(t) /\ 0 <= b
  BY LenProperties
<1>2. p \in Seq(T) /\ Len(p) = a /\ \A i \in 1 .. a : p[i] = t[i]
  <2>1. p \in Seq(T) /\ Len(p) = a - 0 /\ \A i \in 1 .. a - 0 : p[i] = t[0 + i]
    BY <1>1, StretchIs
  <2> HIDE DEF p
  <2> QED BY <2>1
<1>3. q \in Seq(T) /\ Len(q) = b - a /\ \A i \in 1 .. b - a : q[i] = t[a + i]
  BY StretchIs
<1>4. r \in Seq(T) /\ Len(r) = b /\ \A i \in 1 .. b : r[i] = t[i]
  <2>1. r \in Seq(T) /\ Len(r) = b - 0 /\ \A i \in 1 .. b - 0 : r[i] = t[0 + i]
    BY <1>1, StretchIs
  <2> HIDE DEF r
  <2> QED BY <2>1
<1>5. p = SubSeq(t, 1, a) /\ r = SubSeq(t, 1, b)
  OBVIOUS
<1> HIDE DEF p, q, r
<1>6. /\ s \in Seq(T) /\ Len(s) = a + (b - a)
      /\ \A i \in 1 .. a : s[i] = p[i]
      /\ \A i \in 1 .. b - a : s[a + i] = q[i]
  <2>1. Joint(s, p, q, T)
    BY <1>2, <1>3, BehindIs
  <2> HIDE DEF s
  <2> QED BY <1>2, <1>3, <2>1 DEF Joint
<1> HIDE DEF s
<1>7. \A i \in 1 .. b : s[i] = r[i]
  <2> TAKE i \in 1 .. b
  <2>1. CASE i <= a
    <3>1. i \in 1 .. a
      BY <2>1
    <3>2. s[i] = p[i]
      BY ONLY <1>6, <3>1, Zenon
    <3>3. p[i] = t[i]
      BY ONLY <1>2, <3>1, Zenon
    <3>4. r[i] = t[i]
      BY ONLY <1>4, i \in 1 .. b, Zenon
    <3> QED BY ONLY <3>2, <3>3, <3>4, Zenon
  <2>2. CASE i > a
    <3> DEFINE j == i - a
    <3>1. j \in 1 .. b - a /\ a + j = i
      BY <2>2
    <3> HIDE DEF j
    <3> QED BY <1>3, <1>4, <1>6, <3>1
  <2> QED BY <2>1, <2>2
<1>8. s = r
  <2>1. Len(s) = b
    BY <1>6
  <2> QED BY <1>4, <1>6, <1>7, <2>1, SeqEqual
<1> QED BY <1>5, <1>8 DEF s, q

CutsInto(t, N, cut, seqs) ==
  /\ N \in Nat /\ cut \in [0 .. N -> 0 .. Len(t)] /\ cut[0] = 0 /\ cut[N] = Len(t)
  /\ \A k \in 1 .. N : cut[k - 1] <= cut[k]
  /\ seqs = [k \in 1 .. N |-> SubSeq(t, cut[k - 1] + 1, cut[k])]

\* A sequence that is cut up is whole again when the pieces are joined.
LEMMA CutUp ==
  ASSUME NEW T, NEW t \in Seq(T), NEW N, NEW cut, NEW seqs, CutsInto(t, N, cut, seqs)
  PROVE  FlattenSeq(seqs) = t
<1>1. /\ N \in Nat /\ cut \in [0 .. N -> 0 .. Len(t)] /\ cut[0] = 0 /\ cut[N] = Len(t)
      /\ \A k \in 1 .. N : cut[k - 1] <= cut[k]
      /\ seqs = [k \in 1 .. N |-> SubSeq(t, cut[k - 1] + 1, cut[k])]
  BY DEF CutsInto
<1>2. Len(t) \in Nat
  BY LenProperties
<1>3. \A k \in 0 .. N : cut[k] \in Nat /\ cut[k] <= Len(t)
  BY <1>2, <1>1
<1>4. \A k \in 1 .. N : k - 1 \in 0 .. N /\ k \in 0 .. N
  BY <1>1
<1>5. seqs \in Seq(Seq(T)) /\ Len(seqs) = N
      /\ \A k \in 1 .. N : seqs[k] = SubSeq(t, cut[k - 1] + 1, cut[k])
  <2>1. \A k \in 1 .. N : SubSeq(t, cut[k - 1] + 1, cut[k]) \in Seq(T)
    <3> TAKE k \in 1 .. N
    <3> DEFINE a == cut[k - 1]
               b == cut[k]
    <3>1. a \in Nat /\ b \in Nat /\ a <= b /\ b <= Len(t)
      BY <1>3, <1>4, <1>1
    <3> HIDE DEF a, b
    <3>2. SubSeq(t, a + 1, b) \in Seq(T)
      BY <3>1, StretchIs
    <3> QED BY <3>2 DEF a, b
  <2>2. \A k \in 1 .. N : seqs[k] = SubSeq(t, cut[k - 1] + 1, cut[k])
    BY ONLY <1>1
  <2>3. seqs = [k \in 1 .. N |-> seqs[k]]
    BY ONLY <1>1
  <2>4. seqs \in [1 .. N -> Seq(T)]
    BY ONLY <2>1, <2>2, <2>3
  <2>5. N \in Nat
    BY <1>1
  <2>6. Len(seqs) = N /\ seqs \in Seq(Seq(T))
    BY ONLY <2>4, <2>5
  <2> QED BY ONLY <2>2, <2>6
<1>6. PICK flat : Laid(flat, seqs, T)
  <2>1. CASE N = 0
    BY <1>5, <2>1, LaidEmpty
  <2>2. CASE N # 0
    BY <1>5, <2>2, LaidOut
  <2> QED BY <2>1, <2>2
<1>7. /\ flat[0] = <<>> /\ flat[N] = FlattenSeq(seqs)
      /\ \A k \in 1 .. N : flat[k] = Behind(flat[k - 1], seqs[k])
  BY <1>5, <1>6 DEF Laid
<1> DEFINE I == {k \in Nat : k <= N => flat[k] = SubSeq(t, 1, cut[k])}
<1>8. 0 \in I
  <2>1. SubSeq(t, 1, 0) = <<>>
    BY SubSeqEmpty
  <2> QED BY <1>7, <1>1, <2>1
<1>9. ASSUME NEW k \in Nat, k \in I PROVE k + 1 \in I
  <2> DEFINE m == k + 1
  <2> SUFFICES ASSUME m <= N PROVE flat[m] = SubSeq(t, 1, cut[m])
    OBVIOUS
  <2>1. m \in 1 .. N /\ m - 1 = k /\ k \in 0 .. N /\ m \in 0 .. N
    BY <1>1
  <2>2. flat[k] = SubSeq(t, 1, cut[k])
    BY <1>9, <2>1
  <2> HIDE DEF m, I
  <2>3. flat[m] = Behind(SubSeq(t, 1, cut[k]), SubSeq(t, cut[k] + 1, cut[m]))
    BY <1>5, <1>7, <2>1, <2>2
  <2>4. cut[k] \in Nat /\ cut[m] \in Nat /\ cut[k] <= cut[m] /\ cut[m] <= Len(t)
    BY <1>3, <1>1, <2>1
  <2> QED BY <2>3, <2>4, PiecesMeet
<1> HIDE DEF I
<1>10. N \in I
  BY <1>8, <1>9, <1>1, SetInduction
<1>11. FlattenSeq(seqs) = SubSeq(t, 1, Len(t))
  <2>1. flat[N] = SubSeq(t, 1, cut[N])
    BY <1>10, <1>1 DEF I
  <2> QED BY <1>7, <1>1, <2>1
<1> DEFINE n == Len(t)
           r == SubSeq(t, 0 + 1, n)
<1>12. r \in Seq(T) /\ Len(r) = n - 0 /\ \A i \in 1 .. n - 0 : r[i] = t[0 + i]
  BY <1>2, 0 \in Nat, StretchIs
<1>13. r = SubSeq(t, 1, n)
  OBVIOUS
<1> HIDE DEF r
<1>14. r = t
  BY <1>2, <1>12, SeqEqual
<1> QED BY <1>11, <1>13, <1>14

\* The places where a text of L characters is cut.
LEMMA Cuts ==
  ASSUME NEW L \in Nat, NEW n \in Nat \ {0}, NEW q, NEW r, q = L \div n, r = L % n
  PROVE  /\ q \in Nat /\ r \in Nat /\ r < n /\ q * n + r = L
         /\ \A k \in 0 .. q : k * n \in 0 .. L
         /\ \A k \in 1 .. q : (k - 1) * n + n = k * n
<1>1. q \in Int /\ r \in 0 .. n - 1 /\ L = n * q + r
  BY Dividing
<1>2. q >= 0
  <2> SUFFICES ASSUME q <= -1 PROVE FALSE
    BY <1>1
  <2>1. n * q <= -n
    BY ONLY <1>1, q <= -1, n \in Nat \ {0}
  <2> QED BY <1>1, <2>1
<1>3. n * q = q * n
  BY <1>1
<1>4. ASSUME NEW k \in 0 .. q PROVE k * n \in 0 .. L
  <2> DEFINE j == q - k
  <2>1. j \in Nat /\ k \in Nat /\ q = k + j
    BY <1>1, <1>2
  <2> HIDE DEF j
  <2>2. q * n = k * n + j * n /\ k * n \in Nat /\ j * n \in Nat
    BY ONLY <2>1, n \in Nat \ {0}
  <2> QED BY <1>1, <1>3, <2>2
<1>5. ASSUME NEW k \in 1 .. q PROVE (k - 1) * n + n = k * n
  BY <1>1
<1> QED BY <1>1, <1>2, <1>3, <1>4, <1>5

\* What the sinks make of a text.
Sunk(text, n) ==
  LET out == Vsnprintf(n, text)
      chunks == Chunks(text, n)
  IN /\ Len(out.buf) + (IF out.ended THEN 1 ELSE 0) <= n
     /\ out.ended <=> out.buf = text
     /\ out.ret = IF out.ended THEN Len(text) ELSE -1
     /\ FlattenSeq(chunks) = text
     /\ \A k \in DOMAIN chunks : Len(chunks[k]) <= n /\ (k < Len(chunks) => Len(chunks[k]) = n)

\* snprintf stays within its buffer.
LEMMA SnprintfFits ==
  ASSUME NEW text \in Seq(Nat), NEW n \in Nat \ {0}
  PROVE  LET out == Vsnprintf(n, text)
         IN /\ Len(out.buf) + (IF out.ended THEN 1 ELSE 0) <= n
            /\ out.ended <=> out.buf = text
            /\ out.ret = IF out.ended THEN Len(text) ELSE -1
<1> DEFINE L == Len(text)
           room == n - 1
           buf == SubSeq(text, 0 + 1, room)
           out == Vsnprintf(n, text)
<1>1. L \in Nat /\ room \in Nat
  BY LenProperties
<1>2. SinkRoom(n) = room
  BY DEF SinkRoom
<1>3. CASE L > room
  <2>1. out = [ret |-> -1, buf |-> buf, ended |-> FALSE]
    BY <1>2, <1>3 DEF Vsnprintf
  <2>2. Len(buf) = room - 0
    <3> HIDE DEF L, room
    <3> QED BY <1>1, <1>3, StretchIs DEF L
  <2> HIDE DEF buf, out
  <2>3. out.ret = -1 /\ out.buf = buf /\ out.ended = FALSE
    BY <2>1
  <2>4. Len(buf) <= n /\ buf # text
    BY <1>1, <1>3, <2>2
  <2> QED BY <2>3, <2>4 DEF out
<1>4. CASE ~(L > room)
  <2>1. out = [ret |-> L, buf |-> text, ended |-> TRUE]
    BY <1>2, <1>4 DEF Vsnprintf
  <2> HIDE DEF out
  <2>2. out.ret = L /\ out.buf = text /\ out.ended = TRUE
    BY <2>1
  <2>3. L + 1 <= n
    BY <1>1, <1>4
  <2> QED BY <2>2, <2>3 DEF out
<1> QED BY <1>3, <1>4

\* Full buffers and a rest make up the text.
LEMMA ChunksWhole ==
  ASSUME NEW text \in Seq(Nat), NEW n \in Nat \ {0}
  PROVE  LET chunks == Chunks(text, n)
         IN /\ FlattenSeq(chunks) = text
            /\ \A k \in DOMAIN chunks : Len(chunks[k]) <= n /\ (k < Len(chunks) => Len(chunks[k]) = n)
<1> DEFINE L == Len(text)
           q == L \div n
           r == L % n
           N == q + 1
           cut == [k \in 0 .. N |-> IF k > q THEN L ELSE k * n]
           chunks == [k \in 1 .. N |-> SubSeq(text, cut[k - 1] + 1, cut[k])]
<1>1. L \in Nat
  BY LenProperties
<1> HIDE DEF L
<1>2. /\ q \in Nat /\ r \in Nat /\ r < n /\ q * n + r = L
      /\ \A k \in 0 .. q : k * n \in 0 .. L
      /\ \A k \in 1 .. q : (k - 1) * n + n = k * n
  BY <1>1, Cuts
<1>3. Chunks(text, n) = chunks
  <2>1. \A k \in 1 .. N : /\ cut[k - 1] = (k - 1) * n
                          /\ cut[k] = IF k > q THEN L ELSE k * n
    <3> HIDE DEF q
    <3> QED BY <1>2
  <2>2. Chunks(text, n) = [k \in 1 .. N |-> SubSeq(text, (k - 1) * n + 1, IF k > q THEN L ELSE k * n)]
    BY Zenon DEF Chunks, L
  <2> HIDE DEF q, N, cut
  <2> QED BY <2>1, <2>2
<1> HIDE DEF q, r
<1>4. N \in Nat /\ cut \in [0 .. N -> 0 .. L]
  BY <1>1, <1>2
<1>5. cut[0] = 0 /\ cut[N] = L
  BY <1>2
<1>6. \A k \in 1 .. q : cut[k] = cut[k - 1] + n
  BY <1>2
<1>7. cut[N] = cut[N - 1] + r
  BY <1>2
<1>8. \A k \in 1 .. N : k \in 1 .. q \/ k = N
  BY <1>2
<1>9. \A k \in 1 .. N : k - 1 \in 0 .. N /\ k \in 0 .. N
  BY <1>4
<1>10. \A k \in 0 .. N : cut[k] \in Nat /\ cut[k] <= L
  BY <1>1, <1>4
<1> HIDE DEF N, cut
<1>11. \A k \in 1 .. N : cut[k - 1] <= cut[k]
  <2> TAKE k \in 1 .. N
  <2>1. cut[k - 1] \in Nat
    BY <1>9, <1>10
  <2>2. k \in 1 .. q => cut[k] = cut[k - 1] + n
    BY <1>6
  <2>3. k = N => cut[k] = cut[k - 1] + r
    BY <1>7
  <2>4. n \in Nat /\ r \in Nat
    BY <1>2
  <2> DEFINE a == cut[k - 1]
             b == cut[k]
  <2> HIDE DEF a, b
  <2>5. a \in Nat /\ (b = a + n \/ b = a + r)
    BY <1>8, <2>1, <2>2, <2>3 DEF a, b
  <2>6. a <= b
    BY ONLY <2>4, <2>5
  <2> QED BY <2>6 DEF a, b
<1>12. DOMAIN chunks = 1 .. N /\ Len(chunks) = N
       /\ \A k \in 1 .. N : chunks[k] = SubSeq(text, cut[k - 1] + 1, cut[k])
  <2>1. DOMAIN chunks = 1 .. N /\ chunks = [k \in 1 .. N |-> chunks[k]]
        /\ \A k \in 1 .. N : chunks[k] = SubSeq(text, cut[k - 1] + 1, cut[k])
    OBVIOUS
  <2>2. \A k \in 1 .. N : chunks[k] \in {chunks[j] : j \in 1 .. N}
    OBVIOUS
  <2> HIDE DEF chunks
  <2>3. chunks \in [1 .. N -> {chunks[j] : j \in 1 .. N}]
    BY ONLY <2>1, <2>2
  <2>4. Len(chunks) = N
    BY <1>4, <2>3
  <2> QED BY <2>1, <2>4
<1> HIDE DEF chunks
<1>13. FlattenSeq(chunks) = text
  <2>1. CutsInto(text, N, cut, chunks)
    BY ONLY <1>4, <1>5, <1>11, Zenon DEF L, chunks, CutsInto
  <2> QED BY <2>1, CutUp
<1>14. ASSUME NEW k \in 1 .. N
       PROVE  Len(chunks[k]) <= n /\ (k < N => Len(chunks[k]) = n)
  <2>1. Len(chunks[k]) = cut[k] - cut[k - 1]
    <3> DEFINE a == cut[k - 1]
               b == cut[k]
    <3>1. a \in Nat /\ b \in Nat /\ a <= b /\ b <= Len(text)
      BY <1>9, <1>10, <1>11 DEF L
    <3>2. chunks[k] = SubSeq(text, a + 1, b)
      BY <1>12
    <3> HIDE DEF a, b
    <3>3. Len(SubSeq(text, a + 1, b)) = b - a
      BY <3>1, StretchIs
    <3> QED BY ONLY <3>2, <3>3, Zenon DEF a, b
  <2>2. cut[k] \in Nat /\ cut[k - 1] \in Nat
    BY <1>9, <1>10
  <2>3. CASE k \in 1 .. q
    BY <1>6, <2>1, <2>2, <2>3
  <2>4. CASE k = N
    BY <1>2, <1>4, <1>7, <2>1, <2>2, <2>4
  <2> QED BY <1>8, <2>3, <2>4
<1> QED BY <1>3, <1>12, <1>13, <1>14

LEMMA TextSunk ==
  ASSUME NEW text \in Seq(Nat), NEW n \in Nat \ {0}
  PROVE  Sunk(text, n)
BY SnprintfFits, ChunksWhole, Zenon DEF Sunk

\* What is to be shown of the parts of a format.
LEMMA PrintedRightIn ==
  ASSUME NEW parts, Directed(parts)
  PROVE  LET text == InternalPrintf([k \in DOMAIN parts |-> parts[k].d],
                                    FlattenSeq([k \in DOMAIN parts |-> parts[k].args]))
         IN /\ text = FlattenSeq([k \in DOMAIN parts |-> InternalPrintf(<<parts[k].d>>, parts[k].args)])
            /\ \A k \in DOMAIN parts :
                 parts[k].d.conv \in {"d", "u", "o", "x"} => ConvertsRight(parts[k].d, parts[k].args)
            /\ \A n \in BufferSizes : Sunk(text, n)
<1> DEFINE text == InternalPrintf([k \in DOMAIN parts |-> parts[k].d],
                                  FlattenSeq([k \in DOMAIN parts |-> parts[k].args]))
<1>1. /\ text = FlattenSeq([k \in DOMAIN parts |-> InternalPrintf(<<parts[k].d>>, parts[k].args)])
      /\ text \in Seq(Nat)
  BY PrintsInOrder
<1> HIDE DEF text
<1>2. \A k \in DOMAIN parts :
        parts[k].d.conv \in {"d", "u", "o", "x"} => ConvertsRight(parts[k].d, parts[k].args)
  <2>1. \A k \in DOMAIN parts : parts[k].d \in Directives /\ Serves(parts[k].args, parts[k].d)
    BY Zenon DEF Directed
  <2> QED BY ONLY <2>1, NumbersPrinted, Zenon
<1>3. \A n \in BufferSizes : Sunk(text, n)
  BY <1>1, TextSunk, BufferSizesAssumption
<1> QED BY <1>1, <1>2, <1>3 DEF text

\* The text of a format is that of its directives, each with its own arguments; a
\* number is printed right but for zeros in front of its minus sign, and strtol
\* reads back what was printed without padding; snprintf stays within its buffer with
\* the 0 and cuts nothing off in silence; and the buffers handed to fwrite are full
\* but for the last one and make up the text.
THEOREM PrintedRightHolds == TextSpec => []PrintedRight
<1> DEFINE Inv == given.kind = "print" => Directed(given.parts)
<1>1. TextInit => Inv
  BY DEF TextInit, Nothing
<1>2. Inv /\ [Give]_textVars => Inv'
  <2>1. Inv /\ UNCHANGED textVars => Inv'
    BY DEF textVars
  <2>2. ASSUME Give PROVE Inv'
    <3> SUFFICES ASSUME given'.kind = "print" PROVE Directed(given'.parts)
      BY DEF Directed
    <3>1. PICK p \in PrintInputs : given' = [kind |-> "print", parts |-> p]
      BY <2>2 DEF Give
    <3>2. given'.parts = p
      BY <3>1
    <3>3. Directed(p)
      BY PrintInputsAssumption DEF Directed
    <3> QED BY ONLY <3>2, <3>3, Zenon
  <2> QED BY <2>1, <2>2
<1>3. Inv => PrintedRight
  <2> SUFFICES ASSUME Inv, given.kind = "print" PROVE PrintedRight
    BY Zenon DEF PrintedRight
  <2> DEFINE parts == given.parts
             text == InternalPrintf([k \in DOMAIN parts |-> parts[k].d],
                                    FlattenSeq([k \in DOMAIN parts |-> parts[k].args]))
  <2>1. Directed(parts)
    OBVIOUS
  <2> HIDE DEF parts
  <2>2. /\ text = FlattenSeq([k \in DOMAIN parts |-> InternalPrintf(<<parts[k].d>>, parts[k].args)])
        /\ \A k \in DOMAIN parts :
             parts[k].d.conv \in {"d", "u", "o", "x"} => ConvertsRight(parts[k].d, parts[k].args)
        /\ \A n \in BufferSizes : Sunk(text, n)
    BY <2>1, PrintedRightIn
  <2> QED BY <2>2, Zenon DEF PrintedRight, Sunk, text, parts
<1> QED
  BY <1>1, <1>2, <1>3, PTL DEF TextSpec
=============================================================================
