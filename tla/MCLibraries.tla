---------------------------- MODULE MCLibraries ----------------------------
(* The parts of xlibc and xgui that share no state with each other, side by   *)
(* side: `part' says which of them a behaviour is about.                      *)
EXTENDS AtExit, AsyncLoop, Streams, Wayland, Structures

VARIABLE part

libVars == <<part, atExitVars, loopVars, streamVars, waylandVars, textVars>>

LibInit ==
  /\ part \in {"exit handlers", "loop", "stream", "window", "text"}
  /\ AtExitInit /\ AsyncInit /\ StreamInit /\ WaylandInit /\ TextInit
  /\ part # "stream" => length = NoFile

LibNext ==
  \/ /\ part = "exit handlers" /\ AtExitNext
     /\ UNCHANGED <<part, loopVars, streamVars, waylandVars, textVars>>
  \/ /\ part = "loop" /\ AsyncNext
     /\ UNCHANGED <<part, atExitVars, streamVars, waylandVars, textVars>>
  \/ /\ part = "stream" /\ StreamNext
     /\ UNCHANGED <<part, atExitVars, loopVars, waylandVars, textVars>>
  \/ /\ part = "window" /\ WaylandNext
     /\ UNCHANGED <<part, atExitVars, loopVars, streamVars, textVars>>
  \/ /\ part = "text" /\ Give
     /\ UNCHANGED <<part, atExitVars, loopVars, streamVars, waylandVars>>

LibSpec == LibInit /\ [][LibNext]_libVars /\ AsyncFairness
----------------------------------------------------------------------------
UpTo(S, n) == UNION {[1 .. k -> S] : k \in 0 .. n}

(* Window: no size, a height only, two sizes; a compositor with everything,   *)
(* one without shared memory, one without a shell.                            *)
MCSizes == {<<0, 0>>, <<0, 2>>, <<1, 1>>, <<2, 1>>}
MCOffers == {Globals, {"wl_compositor", "xdg_wm_base"}, {"wl_shm", "wl_compositor"}}

(* Text: the code points at which the lengths of the encodings change, and    *)
(* the characters that paths and command lines treat specially.               *)
MCTexts ==
  UpTo({Slash, Colon, 67, Backslash, 127, 128, 2047, 2048, 55295, 57344, 65535, 65536,
        MaxCodePoint}, 2)
  \cup {<<Slash, 67, Colon>> \o t : t \in UpTo({Slash, Colon, 97}, 3)}

MCMalformed ==
  UpTo({Slash, 127, 128, 191, 192, 194, 223, 224, 237, 240, 244, 247, 248, 255}, 2)
  \cup UpTo({65, 128, 191, 240, 244, 247}, 4)

(* A loader in a directory, at the root of a drive, and one with a name that   *)
(* only the rule for the first argument ends at the right quote.              *)
MCPrograms == {<<67, Colon, Backslash, 120>>, <<Backslash>>, <<120, Space, Backslash, Backslash>>}
MCCommandLines ==
  {<<p>> \o c : p \in MCPrograms, c \in UpTo(UpTo({Quote, Backslash, 97}, 2), 1)
                                        \cup UpTo(UpTo({Quote, Backslash}, 1), 2)}
  \cup {<<<<120>>>> \o c : c \in UpTo(UpTo({Quote, Backslash, Space, 65536}, 3), 1)
                                 \cup UpTo(UpTo({Quote, Backslash, 97}, 2), 2)}
  \cup {<<a>> : a \in UpTo({Quote, Backslash}, 2)}

MCNames == {"a", "cwd", "dir", "opt", "root", "_zwolf", "_zwolfish"}
MCLonger == {"_zwolfish"}
MCRoot == <<"opt", "root">>
MCCwd == <<"cwd", "dir">>
\* The buffer holds 20 characters: two long names and one slash too many.
MCWidth ==
  [c \in MCNames \cup {"", ".", ".."} |->
    CASE c = "" -> 0 [] c \in {"a", "."} -> 1 [] c = ".." -> 2 [] c \in {"cwd", "dir", "opt"} -> 3
      [] c = "root" -> 4 [] c = "_zwolf" -> 6 [] c = "_zwolfish" -> 8]
MCPathInputs ==
  BOOLEAN \X (UpTo({"a", "_zwolf", "_zwolfish", "", ".", ".."}, 4) \ {<<>>})

(* Numbers of up to nine binary digits for integers of seven bits.            *)
Strings(chars) ==
  {str \in [sign : {"none", "+", "-"}, chars : chars, upper : BOOLEAN] :
    str.upper => HexPrefix(str)}
MCNumberInputs ==
  Strings(UpTo({0, 1, 7, 9, 10, 15, X}, 3)) \X {0, 7, 8, 10, 16, 36}
  \cup Strings(UpTo({0, 1}, 9)) \X {0, 2, 7}

(* Printing: every conversion of one number with int of 5 bits and long of 7, *)
(* and two directives behind each other.                                      *)
MCHalfOf == [m \in Modifiers |->
              CASE m = "hh" -> 4 [] m = "h" -> 8 [] m = "" -> 16 [] OTHER -> 64]
Directive(conv, mod, width, zeros) == [conv |-> conv, mod |-> mod, width |-> width, zeros |-> zeros]
Passed(mod) ==
  {n \in {-64, -63, -17, -16, -15, -1, 0, 7, 8, 10, 15, 16, 31, 63, 64, 127} :
    mod \in {"l", "ll", "z"} \/ n \in -16 .. 31}
Parts(convs, mods, widths) ==
  UNION {{[d |-> Directive(c, m, w, z), args |-> IF w = Star THEN <<4, n>> ELSE <<n>>] :
            c \in convs, w \in widths, z \in BOOLEAN, n \in Passed(m)} : m \in mods}
MCSimple ==
  {[d |-> Literal(c), args |-> <<>>] : c \in {Percent, 20}}
  \cup {[d |-> Directive("%", "", 0, FALSE), args |-> <<>>],
        [d |-> Directive("s", "", 0, FALSE), args |-> <<<<20, 21, 22>>>>],
        [d |-> Directive("s", "", 0, FALSE), args |-> <<<<>>>>],
        [d |-> Directive("p", "", 3, TRUE), args |-> <<5>>],
        [d |-> Directive("p", "hh", 0, FALSE), args |-> <<-1>>]}
MCPrintInputs ==
  {<<p>> : p \in Parts({"d", "u", "o", "x"}, Modifiers, {0, 3})
                 \cup Parts({"d", "x"}, {"", "l"}, {Star})}
  \cup {<<>>} \cup [1 .. 2 -> MCSimple \cup Parts({"d"}, {""}, {0, Star})]
MCBufferSizes == 1 .. 5

MCArrays == UpTo({2, 4, 6, 8}, 5)

(* Symbols: a library that needs versions of another and of the loader; the   *)
(* names f and g fall into one bucket.  An index of three is cut to zero.      *)
MCHash == [n \in {"f", "g", "xload_open"} |-> CASE n = "f" -> 0 [] n = "g" -> 2 [] OTHER -> 3]
Symtabs(n, versions) ==
  {t \in UpTo([name : DOMAIN MCHash, version : versions], n) :
    \A j, k \in DOMAIN t : t[j].name = t[k].name => j = k}
Need(file, versions) == [file |-> file, versions |-> versions]
MCVerneeds ==
  {<<>>, <<Need("b", <<2>>)>>, <<Need("b", <<2, 3>>)>>, <<Need("_xload", <<2>>), Need("b", <<3>>)>>,
   <<Need("b", <<2>>), Need("_xload", <<3>>)>>, <<Need("c", <<2>>), Need("b", <<3>>)>>}
Users ==
  [soname : {"a", NoSoname}, symtab : Symtabs(2, 1 .. 3) \ {<<>>}, nbucket : {2}, verneed : MCVerneeds]
Providing ==
  {l \in [soname : {"b", NoSoname}, symtab : Symtabs(3, {1}), nbucket : 0 .. 2, verneed : {<<>>}] :
    l.nbucket = 0 <=> l.symtab = <<>>}
MCRelocations ==
  [libs : Users \X Providing, k : {1}, rela : [type : {"symbol"}, sym : {1}, addend : {0}]]

(* Templates: keys with no, one and two variables, strings, arrays, arrays    *)
(* and objects in arrays and objects below them; a variable of two values,    *)
(* one of one or two, and one of none.                                        *)
MCNameOrder == <<"A", "B", "C">>
MCFileOrder == <<"B", "C", "A">>
MCLoops == {[v \in {"A", "B", "C"} |-> CASE v = "A" -> <<"1", "2">> [] v = "B" -> b [] OTHER -> <<>>] :
             b \in {<<"3">>, <<"3", "4">>}}
MCKeys == {<<"x">>, <<"A">>, <<"A", "B">>, <<"B", "A", "y">>, <<"C", "x">>}
MCStrings == {String(s) : s \in {<<"z", "A">>, <<"B", "A">>, <<"B", "B">>, <<"C">>}}
MCArraysOf(S, n) == {Array(items) : items \in UpTo(S, n)}
Field(keys, values) == [key : keys, value : values]
MCBelow == MCStrings \cup MCArraysOf(MCStrings, 2)
MCValues ==
  MCBelow \cup {Array(<<Array(<<a>>), b>>) : a, b \in MCStrings}
  \cup {Array(<<Object(<<f>>)>>) : f \in Field({<<"A">>, <<"B">>}, MCStrings)}
  \cup {Object(<<f>>) : f \in Field(MCKeys, MCStrings \cup MCArraysOf(MCStrings, 1))}
MCTemplates ==
  [loop : MCLoops, json : {Object(<<f>>) : f \in Field(MCKeys, MCValues)}
     \cup {Object(<<f, g>>) : f \in Field({<<"A">>, <<"A", "B">>}, MCValues),
                              g \in Field({<<"x">>, <<"B", "A", "y">>}, MCStrings)}]
============================================================================
