------------------------------ MODULE Unicode ------------------------------
(***************************************************************************)
(* The conversions of src/xlibc/unicode.c and what src/xlibc/fs.c makes of *)
(* them for the paths of Windows.  Bytes and 16-bit units are numbers;     *)
(* masks and shifts are division and remainder.  A string is a sequence    *)
(* with its terminating 0.                                                 *)
(*                                                                         *)
(* The loops over a string are iterations of a turn on their locals, a     *)
(* record of Locals with `at' for the position of input in the string.     *)
(***************************************************************************)
EXTENDS Naturals, Sequences

Byte == {b \in Nat : b < 256}
MaxCodePoint == 1114111
Character == {c \in Nat : c <= MaxCodePoint /\ (c < 55296 \/ 57344 <= c)}

Colon == 58
Slash == 47
Backslash == 92

\* The error EINVAL of the decoders: nothing was taken.
Invalid == [len |-> 0, codepoint |-> 0]

\* The state after n turns of a loop that starts with init.
Iterate(turn, init, n) ==
  LET after[k \in 0 .. n] == IF k = 0 THEN init ELSE turn[after[k - 1]]
  IN after[n]
----------------------------------------------------------------------------
(* utf8decode and utf8encode *)

\* The length a first byte announces, 0 for one that is none.
Announced(b) ==
  IF b < 128 THEN 1
  ELSE IF b < 192 THEN 0
  ELSE IF b < 224 THEN 2
  ELSE IF b < 240 THEN 3
  ELSE IF b < 248 THEN 4
  ELSE 0

\* ptr[k] is read only as long as the bytes before it belong to the character,
\* so never behind the 0.
Continues(s, k) == k <= Len(s) /\ 128 <= s[k] /\ s[k] < 192

Utf8Decode(s, i) ==
  LET n == Announced(s[i])
      low(k) == s[i + k] - 128
  IN IF n = 0 \/ \E k \in 1 .. n - 1 : ~Continues(s, i + k) THEN Invalid
     ELSE [len |-> n,
           codepoint |-> IF n = 1 THEN s[i]
                         ELSE IF n = 2 THEN (s[i] - 192) * 64 + low(1)
                         ELSE IF n = 3 THEN (s[i] - 224) * 4096 + low(1) * 64 + low(2)
                         ELSE (s[i] - 240) * 262144 + low(1) * 4096 + low(2) * 64 + low(3)]

\* The empty sequence stands for the error.
Utf8Encode(c) ==
  IF c <= 127 THEN <<c>>
  ELSE IF c <= 2047 THEN <<192 + (c \div 64), 128 + (c % 64)>>
  ELSE IF c <= 65535
    THEN <<224 + (c \div 4096), 128 + ((c \div 64) % 64), 128 + (c % 64)>>
  ELSE IF c <= MaxCodePoint
    THEN <<240 + (c \div 262144), 128 + ((c \div 4096) % 64), 128 + ((c \div 64) % 64),
           128 + (c % 64)>>
  ELSE <<>>
----------------------------------------------------------------------------
(* utf16decode and utf16encode *)

High(u) == 55296 <= u /\ u < 56320
Low(u) == 56320 <= u /\ u < 57344

\* A lone low surrogate is taken for a character.
Utf16Decode(s, i) ==
  IF ~High(s[i]) THEN [len |-> 1, codepoint |-> s[i]]
  ELSE IF i < Len(s) /\ Low(s[i + 1])
    THEN [len |-> 2, codepoint |-> 65536 + (s[i] - 55296) * 1024 + (s[i + 1] - 56320)]
    ELSE Invalid

Utf16Encode(c) ==
  IF c <= 65535 THEN <<c>>
  ELSE IF c <= MaxCodePoint
    THEN <<55296 + ((c - 65536) \div 1024), 56320 + ((c - 65536) % 1024)>>
  ELSE <<>>
----------------------------------------------------------------------------
(* utf8to16 and utf8to16len *)

Native(c) == IF c = Slash THEN Backslash ELSE c

Locals == [at : Nat, out : Seq(Nat), len : Nat, error : BOOLEAN, done : BOOLEAN]

Begin == [at |-> 1, out |-> <<>>, len |-> 0, error |-> FALSE, done |-> FALSE]
Fail(st) == [st EXCEPT !.error = TRUE, !.done = TRUE]

Utf8to16Turn(s, st) ==
  LET d == Utf8Decode(s, st.at)
      u == Utf16Encode(Native(d.codepoint))
  IN IF st.done THEN st
     ELSE IF d.len = 0 \/ u = <<>> THEN Fail(st)
     ELSE [st EXCEPT !.at = @ + d.len, !.out = @ \o u, !.done = d.codepoint = 0]

Utf8to16(s) == Iterate([st \in Locals |-> Utf8to16Turn(s, st)], Begin, Len(s))

\* Mutant: a pair of surrogates counts as one unit.
LenTurnOne(s, st) ==
  LET d == Utf8Decode(s, st.at)
  IN IF st.done THEN st
     ELSE IF d.len = 0 \/ Utf16Encode(d.codepoint) = <<>> THEN Fail(st)
     ELSE [st EXCEPT !.at = @ + d.len, !.len = @ + 1, !.done = d.codepoint = 0]

Utf8to16LenTurn(s, st) ==
  LET d == Utf8Decode(s, st.at)
      u == Utf16Encode(d.codepoint)
  IN IF st.done THEN st
     ELSE IF d.len = 0 \/ u = <<>> THEN Fail(st)
     ELSE [st EXCEPT !.at = @ + d.len, !.len = @ + Len(u), !.done = d.codepoint = 0]

Utf8to16Len(s) == Iterate([st \in Locals |-> Utf8to16LenTurn(s, st)], Begin, Len(s))
----------------------------------------------------------------------------
(* utf16to8 and utf16to8len *)

\* The bytes b written from position p on over what is there.
Written(out, p, b) ==
  [k \in 1 .. (IF Len(out) < p + Len(b) - 1 THEN p + Len(b) - 1 ELSE Len(out)) |->
     IF k \in p .. p + Len(b) - 1 THEN b[k - p + 1] ELSE out[k]]

\* The two increments are swapped: output advances by the units read, input by
\* the bytes written.  `len' is the position of output.  Behind the terminator
\* the memory is somebody else's, and nothing can be said of the rest.
Utf16to8Turn(s, st) ==
  LET d == Utf16Decode(s, st.at)
      b == Utf8Encode(d.codepoint)
  IN IF st.done THEN st
     ELSE IF st.at > Len(s) \/ d.len = 0 THEN Fail(st)
     ELSE [st EXCEPT !.at = @ + Len(b), !.out = Written(@, st.len + 1, b),
                     !.len = @ + d.len, !.done = d.codepoint = 0]

Utf16to8(s) == Iterate([st \in Locals |-> Utf16to8Turn(s, st)], Begin, Len(s))

Utf16to8LenTurn(s, st) ==
  LET d == Utf16Decode(s, st.at)
      b == Utf8Encode(d.codepoint)
  IN IF st.done THEN st
     ELSE IF d.len = 0 THEN Fail(st)
     ELSE [st EXCEPT !.at = @ + d.len, !.len = @ + Len(b), !.done = d.codepoint = 0]

Utf16to8Len(s) == Iterate([st \in Locals |-> Utf16to8LenTurn(s, st)], Begin, Len(s))
----------------------------------------------------------------------------
(* Paths of Windows: "/C:/dir" and "C:\dir" *)

\* "/C:..." loses its slash.
SkipSlash(s) == IF Len(s) > 3 /\ s[1] = Slash /\ s[3] = Colon THEN Tail(s) ELSE s

\* base_fs_tonativepath and the length, in bytes, that base_fs_tonativepathlen
\* tells tonativepath to allocate.
ToNativePath(s) == Utf8to16(SkipSlash(s))
ToNativePathLen(s) == 2 * Utf8to16Len(SkipSlash(s)).len

Drive(s) == Len(s) > 2 /\ s[2] = Colon

\* fromnativepath: what it allocates, and what it leaves there up to the 0.
FromNativePathLen(s) == Utf16to8Len(s).len + (IF Drive(s) THEN 1 ELSE 0) + 1

FromNativePath(s) ==
  LET bytes == Utf16to8(s).out
      slashed == [k \in DOMAIN bytes |-> IF bytes[k] = Backslash THEN Slash ELSE bytes[k]]
      path == (IF Drive(s) THEN <<Slash>> ELSE <<>>) \o slashed
      end == Len(path) - 1
  IN IF end > 0 /\ path[end] = Slash THEN Append(SubSeq(path, 1, end - 1), 0) ELSE path

\* alloc_windows_path: "C:\dir\" becomes "/C:/dir"; one byte more than the
\* length is allocated.
AllocWindowsPathLen(s) == Utf16to8Len(s).len + 1

AllocWindowsPath(s) ==
  LET path == <<Slash>> \o Utf16to8(s).out
      end == Len(path) - 1
  IN [k \in DOMAIN path |->
        IF path[k] = Backslash THEN (IF k = end THEN 0 ELSE Slash) ELSE path[k]]
============================================================================
