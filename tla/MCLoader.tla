----------------------------- MODULE MCLoader -----------------------------
(* Every program of an executable and two libraries: all dependency lists, *)
(* cycles included, and at most one file without a soname.                 *)
EXTENDS Loader

CONSTANTS exe, a, b

MCLibs == {exe, a, b}

\* The lists without repetition of what f may need: anything but itself.
ListsOf(f) ==
  {l \in {<<>>} \cup {<<x>> : x \in MCLibs} \cup (MCLibs \X MCLibs) :
     /\ \A k \in DOMAIN l : l[k] # f
     /\ Len(l) = 2 => l[1] # l[2]}

MCDisks ==
  {[f \in MCLibs |-> [needed |-> n[f], soname |-> f \notin s]] :
     n \in {m \in [MCLibs -> UNION {ListsOf(f) : f \in MCLibs}] :
              \A f \in MCLibs : m[f] \in ListsOf(f)},
     s \in {{}} \cup {{f} : f \in MCLibs}}
============================================================================
