------------------------------- MODULE Expand -------------------------------
(***************************************************************************)
(* The variables of xbuild.json and distx-build.json.  A `loop' gives each *)
(* variable a list of values; whatever mentions variables in braces is     *)
(* there once for every choice of them.  src/xbuild/main.cpp and           *)
(* src/distx.py expand the same scheme by different means: the first takes *)
(* a variable out of `loop' and puts it into `map' while it works below a  *)
(* key, in two maps that the whole recursion shares; the second makes      *)
(* tables of its own, and formats a key with lists in them.                *)
(*                                                                         *)
(* A text is a sequence of parts, and a part that is a variable stands for *)
(* its name in braces.  Values mention no variables.  An object is the     *)
(* sequence of its keys with their values, in the order of the walk.       *)
(***************************************************************************)
EXTENDS Naturals, Sequences, SequencesExt, TLC

CONSTANTS
  NameOrder,    \* the variables by their names, as a std::map has them
  FileOrder    \* the variables as the file names them, as a dict of Python does

ASSUME ExpandAssumption ==
  IsInjective(NameOrder) /\ IsInjective(FileOrder) /\ ToSet(NameOrder) = ToSet(FileOrder)

Variables == ToSet(NameOrder)

String(parts) == [kind |-> "string", parts |-> parts]
Array(items) == [kind |-> "array", items |-> items]
Object(fields) == [kind |-> "object", fields |-> fields]

\* An expanded object: keys with values, where a later key replaces an equal one.
NoFields == <<>>
Set(obj, key, value) == (key :> value) @@ obj

Without(f, x) == [y \in DOMAIN f \ {x} |-> f[y]]

Mentioned(parts) == ToSet(parts) \cap Variables

\* The parts with the variables of choice replaced.
Subst(parts, choice) ==
  [k \in DOMAIN parts |-> IF parts[k] \in DOMAIN choice THEN choice[parts[k]] ELSE parts[k]]

\* The variables that have one value only.
Singles(loop) == LET vars == {v \in DOMAIN loop : Len(loop[v]) = 1}
                 IN [v \in vars |-> loop[v][1]]

InOrder(order, vars) == SelectSeq(order, LAMBDA v : v \in vars)
----------------------------------------------------------------------------
(* xbuild: st has the two maps. *)

\* A string in an array becomes one string for each choice.
AppendStrings(st, parts) ==
  FoldLeft(LAMBDA strings, v :
             FlattenSeq([k \in DOMAIN strings |->
               IF v \in Mentioned(strings[k])
                 THEN [j \in DOMAIN st.loop[v] |-> Subst(strings[k], v :> st.loop[v][j])]
                 ELSE <<strings[k]>>]),
           <<Subst(parts, st.map)>>, InOrder(NameOrder, DOMAIN st.loop))

RECURSIVE Replace(_, _), ExpandObject(_, _, _, _)

\* Mutant: the value stays in the map.
TurnsKept(st, obj, key, value, v) ==
  FoldLeft(LAMBDA done, lv :
             ExpandObject([done.st EXCEPT !.map = (v :> lv) @@ @], done.obj,
                          Subst(key, v :> lv), value),
           [st |-> [st EXCEPT !.loop = Without(@, v)], obj |-> obj], st.loop[v])

\* What expandObject does for each value of the variable v in the key.
Turns(st, obj, key, value, v) ==
  FoldLeft(LAMBDA done, lv :
             LET below == ExpandObject([done.st EXCEPT !.map = (v :> lv) @@ @], done.obj,
                                       Subst(key, v :> lv), value)
             IN [below EXCEPT !.st.map = Without(@, v)],
           [st |-> [st EXCEPT !.loop = Without(@, v)], obj |-> obj], st.loop[v])

ExpandObject(st, obj, key, value) ==
  LET found == InOrder(NameOrder, Mentioned(key) \cap DOMAIN st.loop)
      v == found[1]
  IN IF found # <<>>
       THEN LET done == Turns(st, obj, key, value, v)
            IN [done EXCEPT !.st.loop = (v :> st.loop[v]) @@ @]
       ELSE LET new == Replace(st, value)
            IN [st |-> new.st, obj |-> Set(obj, Subst(key, st.map), new.json)]

Replace(st, json) ==
  CASE json.kind = "string" ->
         [st |-> st, json |-> String(Subst(Subst(json.parts, st.map), Singles(st.loop)))]
    [] json.kind = "array" ->
         FoldLeft(LAMBDA done, item :
                    IF item.kind = "string"
                      THEN [done EXCEPT !.json.items =
                              @ \o [k \in DOMAIN AppendStrings(done.st, item.parts) |->
                                     String(AppendStrings(done.st, item.parts)[k])]]
                      ELSE LET new == Replace(done.st, item)
                           IN [st |-> new.st, json |-> Array(Append(done.json.items, new.json))],
                  [st |-> st, json |-> Array(<<>>)], json.items)
    [] json.kind = "object" ->
         LET done == FoldLeft(LAMBDA d, field : ExpandObject(d.st, d.obj, field.key, field.value),
                              [st |-> st, obj |-> NoFields], json.fields)
         IN [st |-> done.st, json |-> Object(done.obj)]
----------------------------------------------------------------------------
(* distx.py *)

\* An exception ends the program: KeyError, when str.format() finds no value for a
\* name in braces, and AttributeError for a list or an object in a list.
Exception == [kind |-> "exception"]
Format(parts, choice) ==
  IF Mentioned(parts) \subseteq DOMAIN choice THEN String(Subst(parts, choice)) ELSE Exception

\* What str.format() writes for a list of one string.
Listed(values) == "['" \o values[1] \o "']"

\* The choices for the variables mentioned, the last one changing fastest; in
\* expand_list a choice has the value of a variable.
Dicts(parts, loops) ==
  FoldLeft(LAMBDA dicts, v :
             FlattenSeq([d \in DOMAIN dicts |->
               [k \in DOMAIN loops[v] |-> (v :> loops[v][k]) @@ dicts[d]]]),
           <<NoFields>>, InOrder(FileOrder, Mentioned(parts)))

\* In expand_table it has a list of that one value.
DictsOfLists(parts, loops) ==
  LET dicts == Dicts(parts, loops)
  IN [d \in DOMAIN dicts |-> [v \in DOMAIN dicts[d] |-> <<dicts[d][v]>>]]

ExpandList(items, loops) ==
  FlattenSeq([i \in DOMAIN items |->
    IF items[i].kind # "string" THEN <<Exception>>
    ELSE LET dicts == Dicts(items[i].parts, loops)
         IN [d \in DOMAIN dicts |-> Format(items[i].parts, dicts[d])]])

RECURSIVE ExpandAny(_, _)

\* Mutant: the lists of the file are there below a key, too.
TableOfAll(fields, loops) ==
  FoldLeft(LAMBDA ret, field :
             FoldLeft(LAMBDA r, dic : Set(r, Subst(field.key, [v \in DOMAIN dic |-> Listed(dic[v])]),
                                          ExpandAny(field.value, loops)),
                      ret, DictsOfLists(field.key, loops)),
           NoFields, fields)

\* The key is formatted with the lists of a choice, and below it they are what the
\* loops have for their variables.
ExpandTable(fields, loops) ==
  FoldLeft(LAMBDA ret, field :
             FoldLeft(LAMBDA r, dic : Set(r, Subst(field.key, [v \in DOMAIN dic |-> Listed(dic[v])]),
                                          ExpandAny(field.value, dic @@ loops)),
                      ret, DictsOfLists(field.key, loops)),
           NoFields, fields)

ExpandAny(json, loops) ==
  CASE json.kind = "string" -> Format(json.parts, Singles(loops))
    [] json.kind = "object" -> Object(ExpandTable(json.fields, loops))
    [] json.kind = "array" -> Array(ExpandList(json.items, loops))
============================================================================
