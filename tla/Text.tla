-------------------------------- MODULE Text --------------------------------
(***************************************************************************)
(* The algorithms of Unicode, CmdLine, Paths, Numbers, Printf, Sort and    *)
(* Symbols, each against what it is for.  One of the inputs is given, and  *)
(* the properties say what the code makes of it.  Those of Expand are in   *)
(* Structures.                                                             *)
(***************************************************************************)
EXTENDS CmdLine, Paths, Numbers, Printf, Sort, Symbols

CONSTANTS
  Texts,       \* strings of code points, without the 0
  Malformed,   \* sequences of bytes, without the 0
  CommandLines, \* sequences of strings of code points
  PathInputs,  \* pairs of a flag, absolute or not, and components
  NumberInputs, \* pairs of a string and a base
  PrintInputs, \* sequences of directives with their arguments
  BufferSizes, \* of snprintf and of the buffers that are handed on
  Arrays,      \* sequences of keys
  Relocations, \* a vector of libraries, one of them and a relocation of it
  Templates    \* an object as it is read, and the values of its variables

\* No two files of the vector have the same soname, and a relocation by a symbol
\* is by one that its library has.
ASSUME RelocationsAssumption ==
  \A r \in Relocations :
    /\ \A i \in DOMAIN r.libs : WellFormed(r.libs[i])
    /\ \A i, j \in DOMAIN r.libs :
         r.libs[i].soname = r.libs[j].soname => i = j \/ r.libs[i].soname = NoSoname
    /\ r.k \in DOMAIN r.libs
    /\ r.rela.type = "symbol" => r.rela.sym \in DOMAIN r.libs[r.k].symtab

\* No object has more than half the bytes that size_t counts.
ASSUME ArraysAssumption == \A a \in Arrays : a \in Seq(Int) /\ 2 * Len(a) < Size

\* The terminating 0 is the only one, and half a pair of surrogates is no text.
ASSUME TextsAssumption == Texts \subseteq Seq(Character \ {0})

ASSUME MalformedAssumption == Malformed \subseteq Seq(Byte \ {0})

\* Every program has a name.
ASSUME CommandLinesAssumption ==
  CommandLines \subseteq Seq(Seq(Character \ {0})) \ {<<>>}

ASSUME PathInputsAssumption == PathInputs \subseteq BOOLEAN \X Seq(Components)

\* strtol and strtoul refuse other bases with EINVAL.
ASSUME NumberInputsAssumption ==
  NumberInputs \subseteq
    [sign : {"none", "+", "-"}, chars : Seq(0 .. 35), upper : BOOLEAN] \X ({0} \cup 2 .. 36)

\* %ld prints what strtol reads.
ASSUME LongAssumption == HalfOf["l"] = Half

Directives ==
  [conv : {"literal"}, char : Nat]
  \cup [conv : {"%", "s", "p", "d", "u", "o", "x"}, mod : Modifiers, width : Nat \cup {Star},
        zeros : BOOLEAN]

\* The arguments of a directive: a width if it asks for one, and what it prints.
Serves(args, d) ==
  /\ args \in Seq({args[k] : k \in DOMAIN args})
  /\ Len(args) = Needs(d)
  /\ Starred(d) => args[1] \in Int
  /\ TakesArgument(d) => args[Len(args)] \in (IF d.conv = "s" THEN Seq(Nat) ELSE Int)

\* Otherwise printf reads what nobody passed.
ASSUME PrintInputsAssumption ==
  \A parts \in PrintInputs :
    /\ parts \in Seq({parts[k] : k \in DOMAIN parts})
    /\ \A k \in DOMAIN parts : parts[k].d \in Directives /\ Serves(parts[k].args, parts[k].d)

\* A size of 0 wraps around and has no end.
ASSUME BufferSizesAssumption == BufferSizes \subseteq Nat \ {0}

VARIABLE given

textVars == <<given>>

Nothing == [kind |-> "nothing"]

TextInit == given = Nothing

Give ==
  /\ given = Nothing
  /\ \/ \E t \in Texts : given' = [kind |-> "text", chars |-> Append(t, 0)]
     \/ \E b \in Malformed : given' = [kind |-> "bytes", bytes |-> Append(b, 0)]
     \/ \E c \in CommandLines : given' = [kind |-> "arguments", args |-> c]
     \/ \E p \in PathInputs : given' = [kind |-> "path", absolute |-> p[1], comps |-> p[2]]
     \/ \E n \in NumberInputs : given' = [kind |-> "number", str |-> n[1], base |-> n[2]]
     \/ \E p \in PrintInputs : given' = [kind |-> "print", parts |-> p]
     \/ \E a \in Arrays : given' = [kind |-> "array",
                                    elems |-> [n \in DOMAIN a |-> [key |-> a[n], tag |-> n]]]
     \/ \E r \in Relocations : given' = [kind |-> "relocation", libs |-> r.libs,
                                         k |-> r.k, rela |-> r.rela]
     \/ \E e \in Templates : given' = [kind |-> "template", json |-> e.json, loop |-> e.loop]

TextSpec == TextInit /\ [][Give]_textVars
----------------------------------------------------------------------------
Utf8(chars) == FlattenSeq([k \in DOMAIN chars |-> Utf8Encode(chars[k])])
Utf16(chars) == FlattenSeq([k \in DOMAIN chars |-> Utf16Encode(chars[k])])

Ascii(s) == \A k \in DOMAIN s : s[k] < 128

\* A path of ASCII as the program sees it on Windows: "/C:/dir/file".
WindowsPath(s) ==
  /\ Ascii(s) /\ Len(s) > 3 /\ s[1] = Slash /\ s[3] = Colon
  /\ s[Len(s) - 1] # Slash /\ \A k \in DOMAIN s : s[k] # Backslash

\* utf8to16 and its length function, on any bytes: the same error, and exactly
\* the units the length says, so that tonativepath's allocation is filled and
\* never passed (fs.h:14-17, fs.c:380-386).
SizedRight(bytes) ==
  LET out == Utf8to16(bytes)
      len == Utf8to16Len(bytes)
  IN /\ out.error = len.error
     /\ ~out.error => len.len = Len(out.out)
     /\ ~ToNativePath(bytes).error => ToNativePathLen(bytes) = 2 * Len(ToNativePath(bytes).out)

\* The conversions of a path to Windows fill the memory allocated for them and
\* never pass it, whatever the bytes are, and keep the characters of a text; so
\* does the length counted for the way back.  The way back itself keeps to its
\* memory and its characters for ASCII, and only that is said of it: for other
\* text utf16to8 mixes up its two increments (unicode.c:186-187), leaves gaps
\* and can run past the 0.
ConversionsFit ==
  /\ given.kind = "bytes" => SizedRight(given.bytes)
  /\ given.kind = "text" =>
       LET chars == given.chars
           back == Utf16(chars)
       IN /\ SizedRight(Utf8(chars))
          /\ Utf8to16(Utf8(chars)).out = Utf16([k \in DOMAIN chars |-> Native(chars[k])])
          /\ Utf16to8Len(back).len = Len(Utf8(chars))
          /\ Ascii(chars) =>
               /\ Utf16to8(back).out = chars
               /\ Len(FromNativePath(back)) <= FromNativePathLen(back)
               /\ Len(AllocWindowsPath(back)) <= AllocWindowsPathLen(back)
          /\ WindowsPath(chars) => FromNativePath(ToNativePath(chars).out) = chars

\* The arguments of a command line as bytes, and as units without the 0.
Argv(args) == [k \in DOMAIN args |-> Utf8(Append(args[k], 0))]
Arrived(args) == [k \in DOMAIN args |-> Utf16(args[k])]

\* Every backslash is in a run that a quote or the end of the argument follows.
RunsEndInQuotes(arg) ==
  \A k \in DOMAIN arg : arg[k] = Backslash =>
    k = Len(arg) \/ arg[k + 1] \in {Backslash, Quote}

Twice(units) ==
  FlattenSeq([k \in DOMAIN units |->
                IF units[k] = Backslash THEN <<Backslash, Backslash>> ELSE <<units[k]>>])

\* The command line takes exactly the memory wincmdlen asks for, and the
\* started program gets the arguments it was given.  The first one is the path
\* of the loader (proc.c:152), in which Windows knows no escapes and no file
\* has quotes: it arrives with its backslashes doubled, and the others are not
\* disturbed by it.  Doubled arrive also backslashes that no quote follows in
\* the other arguments (proc.c:81-131).
ArgumentsArrive ==
  given.kind = "arguments" =>
    LET args == given.args
        line == WinCmd(Argv(args))
        got == CommandLineToArgv(line)
    IN /\ 2 * Len(line) = WinCmdLen(Argv(args))
       /\ Quote \notin ToSet(args[1]) =>
            /\ Len(got) = Len(args)
            /\ got[1] = Twice(Arrived(args)[1])
            /\ \A k \in 2 .. Len(args) : RunsEndInQuotes(args[k]) => got[k] = Arrived(args)[k]

\* What a path means: the components that "." and ".." leave.
Follow(left, c) ==
  CASE c \in {Gap, "."} -> left
    [] c = ".." -> IF left = <<>> THEN left ELSE Pop(left)
    [] c \in Names -> Append(left, c)

Meaning(absolute, comps) ==
  LET left[n \in 0 .. Len(comps)] ==
        IF n = 0 THEN Start(absolute) ELSE Follow(left[n - 1], comps[n])
  IN left[Len(comps)]

\* The components that are not empty.
Keep(kept, c) == IF c = Gap THEN kept ELSE Append(kept, c)

Clean(path) ==
  LET kept[n \in 0 .. Len(path)] == IF n = 0 THEN <<>> ELSE Keep(kept[n - 1], path[n])
  IN kept[Len(path)]

\* Each ".." stands right behind a name.
ParentsOfNames(absolute, comps) ==
  \A k \in DOMAIN comps : comps[k] = ".." =>
    IF k = 1 THEN ~absolute /\ Cwd # <<>> ELSE comps[k - 1] \in Names

\* The root of the installation is not itself behind something that looks like it.
RootPlain == Root # <<>> /\ Head(Root) \notin Longer \cup {Alias}

\* The path has room as it is given, behind the working directory if it is
\* relative: with its 0 it ends a character before the buffer.
Fits(absolute, comps) == Chars(Start(absolute)) + Chars(comps) <= BufferSize

\* No slash is copied that closes no name.
NoLooseSlashes(comps) == \A k \in DOMAIN comps : comps[k] \in {Gap, "."} => k = Len(comps)

\* The host is asked for what the path means, with /_zwolf for the root of the
\* installation, or it is not asked.  Where that is not so: a ".." that does
\* not stand right behind a name takes away the wrong component or is refused;
\* the root itself becomes the empty string; "/_zwolf" is not seen behind a
\* doubled slash; a longer first name that begins like it is cut; and an
\* installation whose own path begins like it is mapped twice (fs.c:308-347,
\* 368-377).  With such ".." a path of up to 4198 characters, the working
\* directory in front of a relative one included, is opened.  A longer one may
\* be refused, or go past the end of the buffer by the slashes that "." and
\* empty components copy without a look at its size, which names alone never do
\* (fs.c:294, 321, 326-333).  That getcwd fails (292) is left out.
PathMeaning ==
  given.kind = "path" =>
    LET meaning == Meaning(given.absolute, given.comps)
        opened == Opened(given.absolute, given.comps)
        written == Absolute(given.absolute, given.comps).path
        mapped == meaning[1] = Alias /\ written # <<>> /\ written[1] # Gap
        parents == ParentsOfNames(given.absolute, given.comps)
        plain == meaning # <<>> /\ meaning[1] \notin Longer /\ (mapped => RootPlain)
        fits == Fits(given.absolute, given.comps)
    IN /\ parents /\ plain /\ opened.error = "none" =>
            Clean(opened.path) = IF mapped THEN Root \o Tail(meaning) ELSE meaning
       /\ parents /\ fits => opened.error = "none"
       /\ fits \/ NoLooseSlashes(given.comps) => opened.error # "overrun"

\* The number that digits make.
Worth(digits, base) ==
  LET n[k \in 0 .. Len(digits)] == IF k = 0 THEN 0 ELSE n[k - 1] * base + digits[k]
  IN n[Len(digits)]

HexPrefix(str) == Len(str.chars) > 1 /\ str.chars[1] = 0 /\ str.chars[2] = X

\* The number C says the string is, of any size.
Number(str, base) ==
  LET hex == HexPrefix(str) /\ Len(str.chars) > 2 /\ str.chars[3] < 16
      b == IF base # 0 THEN base
           ELSE IF hex THEN 16
           ELSE IF str.chars # <<>> /\ str.chars[1] = 0 THEN 8 ELSE 10
      from == IF hex /\ b = 16 THEN 3 ELSE 1
  IN Factor(str) * Worth(DigitsFrom(str.chars, from, b), b)

Clamp(n, low, high) == IF n < low THEN low ELSE IF n > high THEN high ELSE n

\* strtol returns the number, or the bound it passes together with ERANGE: the
\* division after each digit finds every overflow, although the product has
\* wrapped by then.  strtoul computes in signed numbers and still returns every
\* number that has room in an unsigned one; wcstoull also stops at its bound,
\* wcstoll and atoi are right for all that fits.  Not so: strtol and strtoul
\* do not skip the 0x of a number in base 16, wcstoll and wcstoull no 0X at all,
\* strtoul and wcstoull know no minus sign, and the smallest number of strtol
\* comes with an ERANGE.
NumbersExact ==
  given.kind = "number" =>
    LET str == given.str
        base == given.base
        n == Number(str, base)
        plain == ~(base = 16 /\ HexPrefix(str))
        wide == ~(base \in {0, 16} /\ HexPrefix(str) /\ str.upper)
    IN /\ plain => Strtol(str, base).value = Clamp(n, LongMin, LongMax)
       /\ plain => Strtol(str, base).erange = (n \notin LongMin + 1 .. LongMax)
       /\ plain /\ str.sign = "none" /\ n <= ULongMax => Strtoul(str, base) = n
       /\ wide /\ n \in LongMin .. LongMax => Wcstoll(str, base) = n
       /\ wide /\ str.sign # "-" => Wcstoull(str, base) = Clamp(n, 0, ULongMax)
       /\ base = 10 /\ n \in LongMin .. LongMax => Atoi(str) = n

\* The value of a number written in the base, or -1 for what is none.
Value(digits, base) ==
  IF digits # <<>> /\ \A k \in DOMAIN digits : digits[k] \in 0 .. base - 1
    THEN Worth(digits, base) ELSE -1

\* The text is the number as C wants it: blanks, sign and digits, and padded with
\* either blanks or zeros up to the width and never further.
IsNumber(text, value, base, width, zeros) ==
  \E blanks \in 0 .. Len(text) :
    LET sign == IF value < 0 THEN <<Minus>> ELSE <<>>
        digits == SubSeq(text, blanks + Len(sign) + 1, Len(text))
    IN /\ text = [k \in 1 .. blanks |-> Blank] \o sign \o digits
       /\ Value(digits, base) = IF value < 0 THEN -value ELSE value
       /\ Len(text) >= width
       /\ blanks > 0 => ~zeros /\ Len(text) = width
       /\ Len(digits) > 1 /\ digits[1] = 0 => zeros /\ Len(text) = width

\* The value C gives to the argument: of the type's range and equal to it but
\* for a multiple of the numbers that the type has.
Meant(d, arg) ==
  LET half == HalfOf[d.mod]
      range == IF d.conv = "d" THEN -half .. half - 1 ELSE 0 .. 2 * half - 1
  IN CHOOSE v \in range : (v - arg) % (2 * half) = 0

\* One conversion of a number with its arguments.  Not as C wants it: zeros go in
\* front of the minus sign, and the smallest number has no digits at all
\* (printf.c:42-67).
ConvertsRight(d, args) ==
  LET text == InternalPrintf(<<d>>, args)
      width == IF Starred(d) THEN args[1] ELSE d.width
      value == Meant(d, args[Len(args)])
      zeroed == d.zeros /\ value < 0 /\ text[1] # Minus
      body == IF text[1] = Minus THEN Tail(text) ELSE text
  IN value # -HalfOf["l"] =>
       /\ ~zeroed => IsNumber(text, value, Base(d.conv), width, d.zeros)
       /\ d.conv = "d" /\ width = 0 =>
            Strtol([sign |-> IF value < 0 THEN "-" ELSE "none", upper |-> FALSE, chars |-> body], 10).value = value

\* The text of a format is that of its directives, each with its own arguments;
\* numbers are printed right and read back by strtol; snprintf stays within its
\* buffer with the 0 and cuts nothing off in silence (a size of 0 aside, which
\* has no end); and the buffers handed to fwrite are full but for the last one
\* and make up the text (printf.c:302-322, 366-391).
PrintedRight ==
  given.kind = "print" =>
    LET parts == given.parts
        text == InternalPrintf([k \in DOMAIN parts |-> parts[k].d],
                               FlattenSeq([k \in DOMAIN parts |-> parts[k].args]))
    IN /\ text = FlattenSeq([k \in DOMAIN parts |-> InternalPrintf(<<parts[k].d>>, parts[k].args)])
       /\ \A k \in DOMAIN parts :
            parts[k].d.conv \in {"d", "u", "o", "x"} => ConvertsRight(parts[k].d, parts[k].args)
       /\ \A n \in BufferSizes :
            LET out == Vsnprintf(n, text)
                chunks == Chunks(text, n)
            IN /\ Len(out.buf) + (IF out.ended THEN 1 ELSE 0) <= n
               /\ out.ended <=> out.buf = text
               /\ out.ret = IF out.ended THEN Len(text) ELSE -1
               /\ FlattenSeq(chunks) = text
               /\ \A k \in DOMAIN chunks : Len(chunks[k]) <= n /\ (k < Len(chunks) => Len(chunks[k]) = n)

\* The file that the version of the symbol names, or else the library itself.
Providers(sym, lib) ==
  LET needs == {v \in ToSet(lib.verneed) : lib.symtab[sym].version \in ToSet(v.versions)}
  IN IF needs = {} THEN {lib.soname} ELSE {v.file : v \in needs}

\* What the relocation of the library at k should be bound to.
BoundRight(libs, k, rela) ==
  LET lib == libs[k]
      name == lib.symtab[rela.sym].name
      to == FindSymbol(rela, k, libs)
      from == Providers(rela.sym, lib)
  IN /\ to.kind = "address" =>
          /\ libs[to.lib].soname \in from
          /\ libs[to.lib].nbucket # 0 => libs[to.lib].symtab[to.idx].name = name
     /\ to.kind = "loader" => from = {Xload} /\ to.name = name
     /\ to = Unbound => \/ from \cap {Xload, NoSoname} # {}
                        \/ \A i \in DOMAIN libs : libs[i].soname \notin from
     /\ \A i \in DOMAIN libs :
          /\ \A j \in DOMAIN libs : libs[j].soname # NoSoname
          /\ libs[i].soname \in from /\ Xload \notin from
          /\ Len(libs[i].symtab) < HalfSize
          /\ \E e \in DOMAIN libs[i].symtab : libs[i].symtab[e].name = name
          => to.kind = "address" /\ to.lib = i
     /\ from = {Xload} /\ name \in Exports => to = OfLoader(name)

\* A symbol is bound to the entry of its name in the file its version names, and
\* whenever there is such an entry among libraries that all have sonames.  It
\* stays null only when that file is not loaded, when the loader does not export
\* it, or when its own library has no soname; and a symbol behind the first 65535
\* of its file may not be found (load_elf.c:611, 635-648, 859).  A file whose hash
\* table has no buckets is exempt: there every name is taken for the symbol
\* without a name (631), and the address is nobody's.
SymbolsBound ==
  given.kind = "relocation" /\ given.rela.type = "symbol" =>
    BoundRight(given.libs, given.k, given.rela)

\* qsort keeps every element and sorts them, and bsearch finds a key in what it
\* made when the key is there and nothing when it is not.  Only for a key below
\* the first element, and in an empty array, the upper bound wraps around and
\* bsearch reads far outside (libc.c:2781, 2794).
SortedAndFound ==
  given.kind = "array" =>
    LET sorted == Qsort(given.elems)
        keys == {e.key : e \in ToSet(sorted)}
    IN /\ Len(sorted) = Len(given.elems) /\ ToSet(sorted) = ToSet(given.elems)
       /\ \A i \in 1 .. Len(sorted) - 1 : sorted[i].key <= sorted[i + 1].key
       /\ \A key \in keys \cup {k + 1 : k \in keys} \cup {k - 1 : k \in keys} \cup {0} :
            LET found == Bsearch(key, sorted)
            IN IF key \in keys
                 THEN \E i \in DOMAIN sorted : sorted[i].key = key /\ found = Element(i - 1)
                 ELSE found = IF \A k \in keys : key < k THEN Wild ELSE NotThere
============================================================================
