------------------------------ MODULE CmdLine ------------------------------
(***************************************************************************)
(* The command line base_proc_exec of src/xlibc/proc.c makes for Windows   *)
(* out of the arguments: wincmdlen computes its size, wincmd writes it.    *)
(* The started program, which is the loader, gets its arguments back from  *)
(* CommandLineToArgvW (src/xload/load_elf.c:967), which is Windows'.       *)
(*                                                                         *)
(* Arguments are valid UTF-8 with their terminating 0; there is at least   *)
(* one.                                                                    *)
(***************************************************************************)
EXTENDS Unicode, SequencesExt

Quote == 34
Space == 32

Escaped(b) == b \in {Backslash, Quote}

\* One argument as 16-bit units, a backslash before each backslash and each quote.
EscapeTurn(arg, st) ==
  LET d == Utf8Decode(arg, st.at)
  IN IF arg[st.at] = 0 THEN st
     ELSE [st EXCEPT !.at = @ + d.len,
                     !.out = @ \o (IF Escaped(arg[st.at]) THEN <<Backslash>> ELSE <<>>)
                               \o Utf16Encode(d.codepoint)]

Escape(arg) == Iterate([st \in Locals |-> EscapeTurn(arg, st)], Begin, Len(arg)).out

\* The last space becomes the terminator.
WinCmd(args) ==
  LET line == FlattenSeq([k \in DOMAIN args |-> <<Quote>> \o Escape(args[k]) \o <<Quote, Space>>])
  IN [line EXCEPT ![Len(line)] = 0]

\* Mutant: the quotes escaped are not counted.
CountTurnUnescaped(arg, st) ==
  LET d == Utf8Decode(arg, st.at)
  IN IF arg[st.at] = 0 THEN st
     ELSE [st EXCEPT !.at = @ + d.len,
                     !.len = @ + (IF arg[st.at] = Backslash THEN 1 ELSE 0)
                               + Len(Utf16Encode(d.codepoint))]

\* What wincmdlen counts for the characters of one argument.
CountTurn(arg, st) ==
  LET d == Utf8Decode(arg, st.at)
  IN IF arg[st.at] = 0 THEN st
     ELSE [st EXCEPT !.at = @ + d.len,
                     !.len = @ + (IF Escaped(arg[st.at]) THEN 1 ELSE 0)
                               + Len(Utf16Encode(d.codepoint))]

Counted(arg) == Iterate([st \in Locals |-> CountTurn(arg, st)], Begin, Len(arg)).len

\* In bytes: a quote on either side and a space or the terminator.
WinCmdLen(args) ==
  LET sum[k \in 0 .. Len(args)] == IF k = 0 THEN 0 ELSE sum[k - 1] + Counted(args[k]) + 3
  IN 2 * sum[Len(args)]
----------------------------------------------------------------------------
(* CommandLineToArgvW (external).  Inside quotes a backslash counts for itself
   unless a quote ends its run: then two of them stand for one, and an odd one
   makes the quote a character.  The first argument knows no escapes. *)

\* The run of backslashes at position p.
Run(line, p) ==
  LET length[q \in p .. Len(line)] == IF line[q] = Backslash THEN 1 + length[q + 1] ELSE 0
  IN length[p]

Take(st, units, n) == [st EXCEPT !.at = @ + n, !.arg = @ \o units]

Backslashes(n) == [k \in 1 .. n |-> Backslash]

Parsing == [at : Nat, quoted : BOOLEAN, args : Seq(Seq(Nat)), arg : Seq(Nat)]

ParseTurn(line, st) ==
  LET u == line[st.at]
      run == Run(line, st.at)
      ends == line[st.at + run] = Quote
      literal == st.args = <<>>       \* the first argument
  IN IF u = 0 THEN st
     ELSE IF u = Space /\ ~st.quoted
       THEN [at |-> st.at + 1, quoted |-> FALSE, args |-> Append(st.args, st.arg), arg |-> <<>>]
     ELSE IF u = Quote THEN [st EXCEPT !.at = @ + 1, !.quoted = ~@]
     ELSE IF u # Backslash \/ literal THEN Take(st, <<u>>, 1)
     ELSE IF ~ends THEN Take(st, Backslashes(run), run)
     ELSE IF run % 2 = 0 THEN Take(st, Backslashes(run \div 2), run)
     ELSE Take(st, Backslashes(run \div 2) \o <<Quote>>, run + 1)

CommandLineToArgv(line) ==
  LET end == Iterate([st \in Parsing |-> ParseTurn(line, st)],
                     [at |-> 1, quoted |-> FALSE, args |-> <<>>, arg |-> <<>>], Len(line))
  IN Append(end.args, end.arg)
============================================================================
