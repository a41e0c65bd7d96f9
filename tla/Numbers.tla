------------------------------ MODULE Numbers ------------------------------
(***************************************************************************)
(* The parsers of numbers in src/xlibc/libc.c and string.c: strtol,        *)
(* strtoul, wcstoll, wcstoull and atoi, in integers that wrap around: long *)
(* goes from -Half to Half - 1 (for signed ones C leaves it open, and this *)
(* is what the build produces; int, which atoi uses, is shorter).          *)
(*                                                                         *)
(* A string is its sign, if any, and its letters and digits, each as the   *)
(* number it stands for: 10 is `a' or `A', 33 is `x' or `X'; `upper' says  *)
(* that letters are capitals.  White space in front is left out.           *)
(***************************************************************************)
EXTENDS Integers, Sequences, SequencesExt

CONSTANT Half      \* 2^63: half the numbers a long can be

ASSUME NumbersAssumption == Half \in Nat /\ Half >= 36    \* room for every digit

LongMax == Half - 1
LongMin == -Half
ULongMax == 2 * Half - 1

Signed(n) == ((n + Half) % (2 * Half)) - Half
Unsigned(n) == n % (2 * Half)

\* C's division, which rounds towards 0.
Quotient(a, b) == IF a >= 0 THEN a \div b ELSE -((-a) \div b)

X == 33

Factor(str) == IF str.sign = "-" THEN -1 ELSE 1

\* The characters from position k on that are digits of the base.
DigitsFrom(chars, k, base) ==
  LET wrong == {j \in k .. Len(chars) : chars[j] >= base}
      end == IF wrong = {} THEN Len(chars) ELSE (CHOOSE j \in wrong : \A l \in wrong : j <= l) - 1
  IN SubSeq(chars, k, end)
----------------------------------------------------------------------------
(* strtol and strtoul *)

\* Base 0: the prefix tells it, and is skipped.  Base 16 skips nothing.
StrtolPrefix(chars, base) ==
  IF base # 0 THEN [base |-> base, from |-> 1]
  ELSE IF chars = <<>> \/ chars[1] # 0 THEN [base |-> 10, from |-> 1]
  ELSE IF Len(chars) > 1 /\ chars[2] = X THEN [base |-> 16, from |-> 3]
  ELSE [base |-> 8, from |-> 2]

\* Mutant: the overflow is looked for in the sign of the result.
TakeDigitSign(st, base, digit) ==
  LET next == Signed(st.result * base + digit)
  IN IF st.overflow THEN st ELSE [result |-> next, overflow |-> next < 0]

\* One turn of the loop of both: after an overflow digits are only skipped.
TakeDigit(st, base, digit) ==
  LET next == Signed(st.result * base + digit)
  IN IF st.overflow THEN st
     ELSE [result |-> next, overflow |-> Quotient(next, base) # st.result]

StrtolLoop(digits, base) ==
  LET st[n \in 0 .. Len(digits)] ==
        IF n = 0 THEN [result |-> 0, overflow |-> FALSE] ELSE TakeDigit(st[n - 1], base, digits[n])
  IN st[Len(digits)]

Strtol(str, base) ==
  LET p == StrtolPrefix(str.chars, base)
      end == StrtolLoop(DigitsFrom(str.chars, p.from, p.base), p.base)
  IN [value |-> IF end.overflow THEN (IF str.sign = "-" THEN LongMin ELSE LongMax)
                                ELSE end.result * Factor(str),
      erange |-> end.overflow]

\* No sign is taken, so a string with one has no digits; overflow is not reported.
Strtoul(str, base) ==
  LET p == StrtolPrefix(str.chars, base)
  IN IF str.sign # "none" THEN 0
     ELSE Unsigned(StrtolLoop(DigitsFrom(str.chars, p.from, p.base), p.base).result)
----------------------------------------------------------------------------
(* wcstoll, wcstoull, atoi *)

\* Here the base may also be given along with its prefix; 0X is no prefix.
WcstollPrefix(str, base) ==
  LET zero == str.chars # <<>> /\ str.chars[1] = 0
      hex == zero /\ Len(str.chars) > 1 /\ str.chars[2] = X /\ ~str.upper
  IN IF base \in {0, 16} /\ hex THEN [base |-> 16, from |-> 3]
     ELSE IF base \in {0, 8} /\ zero THEN [base |-> 8, from |-> 2]
     ELSE [base |-> IF base = 0 THEN 10 ELSE base, from |-> 1]

\* The loop of wcstoll and of atoi, which lets the product wrap.
Wrapping(digits, base) ==
  LET result[n \in 0 .. Len(digits)] ==
        IF n = 0 THEN 0 ELSE Signed(result[n - 1] * base + digits[n])
  IN result[Len(digits)]

Wcstoll(str, base) ==
  LET p == WcstollPrefix(str, base)
  IN Signed(Factor(str) * Wrapping(DigitsFrom(str.chars, p.from, p.base), p.base))

\* One turn of the loop of wcstoull, which ends at an overflow.
TakeRoom(st, base, digit) ==
  IF st.overflow THEN st
  ELSE IF st.result > (ULongMax - digit) \div base
    THEN [result |-> st.result, overflow |-> TRUE]
    ELSE [result |-> st.result * base + digit, overflow |-> FALSE]

WcstoullLoop(digits, base) ==
  LET st[n \in 0 .. Len(digits)] ==
        IF n = 0 THEN [result |-> 0, overflow |-> FALSE] ELSE TakeRoom(st[n - 1], base, digits[n])
  IN st[Len(digits)]

\* A minus sign is no digit.
Wcstoull(str, base) ==
  LET p == WcstollPrefix(str, base)
      end == WcstoullLoop(DigitsFrom(str.chars, p.from, p.base), p.base)
  IN IF str.sign = "-" THEN 0 ELSE IF end.overflow THEN ULongMax ELSE end.result

Atoi(str) == Signed(Factor(str) * Wrapping(DigitsFrom(str.chars, 1, 10), 10))
============================================================================
