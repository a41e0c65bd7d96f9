----------------------------- MODULE Structures -----------------------------
(***************************************************************************)
(* The algorithms of Expand on the templates that Text gives, against what *)
(* a template means.                                                       *)
(***************************************************************************)
EXTENDS Text, Expand

\* The choices of a value for each of vars, those for the variables that order
\* names first changing last.
ChoicesOf(vars, loop, order) ==
  LET all == {c \in [vars -> UNION {ToSet(loop[v]) : v \in vars}] :
                \A v \in vars : c[v] \in ToSet(loop[v])}
      At(c, v) == CHOOSE n \in DOMAIN loop[v] : loop[v][n] = c[v]
      Before(c, d) == \E n \in DOMAIN order :
                        /\ order[n] \in vars /\ At(c, order[n]) < At(d, order[n])
                        /\ \A m \in 1 .. n - 1 : order[m] \in vars => c[order[m]] = d[order[m]]
  IN SetToSortSeq(all, Before)

Each(Op(_), s) == FlattenSeq([k \in DOMAIN s |-> Op(s[k])])

\* What the template means where the variables of fixed are chosen: an object has
\* a key for each choice of the variables in it, which holds for all below the
\* key; an array has a string for each choice; elsewhere a variable is replaced
\* when it has one value only.  In a key a value is written as written has it.
RECURSIVE Expanded(_, _, _, _, _)
Expanded(json, fixed, loop, order, written) ==
  LET Open(parts) == Mentioned(parts) \ DOMAIN fixed
      Key(parts, choice) == Subst(parts, [v \in DOMAIN choice |-> written[choice[v]]])
  IN CASE json.kind = "string" -> String(Subst(json.parts, fixed @@ Singles(loop)))
       [] json.kind = "array" ->
            Array(Each(LAMBDA item :
                         IF item.kind # "string" THEN <<Expanded(item, fixed, loop, order, written)>>
                         ELSE Each(LAMBDA c : <<String(Subst(item.parts, fixed @@ c))>>,
                                   ChoicesOf(Open(item.parts), loop, order)),
                       json.items))
       [] json.kind = "object" ->
            Object(FoldFunction(@@, NoFields, [field \in ToSet(json.fields) |->
              FoldFunction(@@, NoFields, [c \in ToSet(ChoicesOf(Open(field.key), loop, order)) |->
                Key(field.key, fixed @@ c)
                  :> Expanded(field.value, fixed @@ c, loop, order, written)])]))

\* The strings of an expanded template, and where distx.py raised an exception.
RECURSIVE Leaves(_)
Leaves(json) ==
  CASE json.kind = "array" -> UNION {Leaves(item) : item \in ToSet(json.items)}
    [] json.kind = "object" -> UNION {Leaves(json.fields[key]) : key \in DOMAIN json.fields}
    [] OTHER -> {json}

RECURSIVE MoreThanStrings(_)
MoreThanStrings(json) ==
  CASE json.kind = "array" -> \E item \in ToSet(json.items) : item.kind # "string"
    [] json.kind = "object" -> \E key \in DOMAIN json.fields : MoreThanStrings(json.fields[key])
    [] OTHER -> FALSE

\* xbuild gives every template its meaning, although all levels of the recursion
\* work on the same two maps, and leaves these as they were (main.cpp:105-115).
\* distx.py differs from it in three ways.  The strings of an array come in the
\* order of the file.  In a key a variable is written as a list of its value
\* (distx.py:43-45): the keys of env in src/xbuild/distx-build.json become
\* "['llvm']-['x86_64']" and the like, while what is below a key has the value
\* itself.  And there is an exception when a string keeps a name in braces that
\* has several values or none, or an array has more in it than strings.
TemplatesExpanded ==
  given.kind = "template" =>
    LET maps == [map |-> NoFields, loop |-> given.loop]
        values == UNION {ToSet(given.loop[v]) : v \in Variables}
        distx == ExpandAny(given.json, given.loop)
        read == Expanded(given.json, NoFields, given.loop, FileOrder,
                         [value \in values |-> Listed(<<value>>)])
    IN /\ Replace(maps, given.json) =
            [st |-> maps,
             json |-> Expanded(given.json, NoFields, given.loop, NameOrder,
                               [value \in values |-> value])]
       /\ Exception \notin Leaves(distx) => distx = read
       /\ Exception \in Leaves(distx) <=>
            MoreThanStrings(read) \/ \E leaf \in Leaves(read) : Mentioned(leaf.parts) # {}
============================================================================
