------------------------------- MODULE Printf -------------------------------
(***************************************************************************)
(* Formatted output, src/xlibc/printf.c: internal_printf makes the text    *)
(* of a format and its arguments, character by character, for a sink that  *)
(* fills a buffer, refuses, or hands full buffers on.                      *)
(*                                                                         *)
(* A format is a sequence of directives: a character that stands for       *)
(* itself, or a conversion with its flag 0, its width (from the format or  *)
(* as an argument, `*'), its modifier and its letter.  Characters are      *)
(* numbers: 0 .. 35 for digits and letters as in Numbers, greater ones for *)
(* the rest.  Capitals are not told apart.                                 *)
(*                                                                         *)
(* The loops are iterations of a turn on their locals, as in Unicode.      *)
(***************************************************************************)
EXTENDS Integers, Sequences, Unicode

CONSTANT HalfOf   \* 2^7, 2^15, ...: half the numbers an integer of a modifier can be

Modifiers == {"hh", "h", "", "l", "ll", "z"}

\* print_number takes all in 64 bits.
ASSUME PrintfAssumption ==
  /\ HalfOf \in [Modifiers -> Nat \ {0}]
  /\ \A m \in Modifiers : HalfOf[m] <= HalfOf["l"]

Star == -1          \* the width is an argument
Minus == 101
Blank == 102
Percent == 103
Stray == 104     \* what nums[] has in front of its first digit

Literal(c) == [conv |-> "literal", char |-> c]
Starred(d) == d.conv # "literal" /\ d.width = Star
TakesArgument(d) == d.conv \notin {"literal", "%"}

\* hh, h, l and ll also tell what %p takes.
Modifier(d) == IF d.conv = "p" /\ d.mod = "" THEN "z" ELSE d.mod

Wrapped(n, half) == n % (2 * half)
SignedWrapped(n, half) == ((n + half) % (2 * half)) - half

(* C's division, which rounds towards 0, and its remainder. *)
Divided(n, by) == IF n >= 0 THEN n \div by ELSE -((-n) \div by)
Digit(n, base) == IF n < 0 /\ (-n) % base # 0 THEN Stray ELSE IF n < 0 THEN 0 ELSE n % base

Making == [left : Int, digits : Seq(Nat), ended : BOOLEAN]

(* One turn of the loop that makes the digits, the last one first.  What is left
   of a sign, in the smallest number, shows in each of them. *)
DigitTurn(base, st) ==
  IF st.ended THEN st
  ELSE [left |-> Divided(st.left, base), digits |-> <<Digit(st.left, base)>> \o st.digits,
        ended |-> Divided(st.left, base) = 0]

(* There are no more turns than the number is great. *)
Digits(number, base) ==
  Iterate([st \in Making |-> DigitTurn(base, st)],
          [left |-> number, digits |-> <<>>, ended |-> FALSE],
          1 + (IF number < 0 THEN -number ELSE number)).digits

(* print_number, on 64 bits for every modifier: the padding goes in front of
   the sign, also with zeros, and the smallest number stays negative when its
   sign is taken away. *)
PrintNumber(number, base, width, zeros) ==
  LET digits == IF number < 0
                  THEN <<Minus>> \o Digits(SignedWrapped(-number, HalfOf["l"]), base)
                  ELSE Digits(number, base)
      missing == IF width > Len(digits) THEN width - Len(digits) ELSE 0
  IN [k \in 1 .. missing |-> IF zeros THEN 0 ELSE Blank] \o digits

Base(conv) == CASE conv = "o" -> 8 [] conv \in {"d", "u"} -> 10 [] OTHER -> 16

(* The argument as the modifier reads it: %zd takes a size_t into an int64_t. *)
Argument(d, arg) ==
  IF d.conv = "d" THEN SignedWrapped(arg, HalfOf[Modifier(d)])
                  ELSE Wrapped(arg, HalfOf[Modifier(d)])

Converted(d, width, arg) ==
  CASE d.conv = "literal" -> <<d.char>>
    [] d.conv = "%" -> <<Percent>>
    [] d.conv = "s" -> arg
    [] d.conv = "p" -> <<0, 33>> \o PrintNumber(Argument(d, arg), 16, width, d.zeros)
    [] OTHER -> PrintNumber(Argument(d, arg), Base(d.conv), width, d.zeros)

\* A width if it is asked for, and what is printed.
Needs(d) == (IF Starred(d) THEN 1 ELSE 0) + (IF TakesArgument(d) THEN 1 ELSE 0)

(* What a directive prints whose arguments begin at the n-th. *)
Printed(d, args, n) ==
  LET width == IF Starred(d) THEN args[n] ELSE IF TakesArgument(d) THEN d.width ELSE 0
      arg == IF TakesArgument(d) THEN args[n + Needs(d) - 1] ELSE 0
  IN Converted(d, width, arg)

Printing == [at : Nat, text : Seq(Nat), next : Nat]

(* One turn of the loop of internal_printf: the directive takes its arguments
   from where the list of them stands. *)
PrintTurn(format, args, st) ==
  LET d == format[st.at]
  IN [at |-> st.at + 1, text |-> st.text \o Printed(d, args, st.next), next |-> st.next + Needs(d)]

InternalPrintf(format, args) ==
  Iterate([st \in Printing |-> PrintTurn(format, args, st)],
          [at |-> 1, text |-> <<>>, next |-> 1], Len(format)).text
----------------------------------------------------------------------------
(* The sinks *)

(* Mutant: the last byte is not kept for the 0. *)
SinkRoomWhole(n) == n

(* How many characters snprintf_puts takes: buf_size - 1, where 0 wraps around
   and has no end. *)
SinkRoom(n) == n - 1

(* snprintf: a text that does not fit is an error, and then no 0 is written. *)
Vsnprintf(n, text) ==
  IF n # 0 /\ Len(text) > SinkRoom(n)
    THEN [ret |-> -1, buf |-> SubSeq(text, 1, SinkRoom(n)), ended |-> FALSE]
    ELSE [ret |-> Len(text), buf |-> text, ended |-> TRUE]

(* vfprintf_puts and debug_puts: each full buffer is written, and at the end
   the rest, which may be nothing. *)
Chunks(text, size) ==
  LET full == Len(text) \div size
  IN [k \in 1 .. full + 1 |->
        SubSeq(text, (k - 1) * size + 1, IF k > full THEN Len(text) ELSE k * size)]
=============================================================================
