-------------------------------- MODULE Sort --------------------------------
(***************************************************************************)
(* qsort (src/xlibc/qsort.c) and bsearch (src/xlibc/libc.c).  An element   *)
(* is a record whose `key' is what compar looks at; indexes count from 0   *)
(* as in the code and wrap around at Size.                                 *)
(***************************************************************************)
EXTENDS Integers, Sequences, SequencesExt

CONSTANT Size      \* SIZE_MAX + 1

ASSUME SortAssumption == Size \in Nat \ {0}

Compar(a, b) == a - b

Swap(s, i, j) == [s EXCEPT ![i + 1] = s[j + 1], ![j + 1] = s[i + 1]]

\* One turn of Lomuto's loop: what is not greater than the last element goes to
\* the front.
Gather(st, j) ==
  IF Compar(st.s[j + 1].key, st.s[Len(st.s)].key) <= 0
    THEN [s |-> Swap(st.s, st.i, j), i |-> st.i + 1] ELSE st

Gathered(s) ==
  LET st[j \in 0 .. Len(s) - 1] == IF j = 0 THEN [s |-> s, i |-> 0] ELSE Gather(st[j - 1], j - 1)
  IN st[Len(s) - 1]

\* Mutant: the pivot stays at the end.
PartitionInPlace(s) == Gathered(s)

Partition(s) ==
  LET end == Gathered(s)
  IN [s |-> Swap(end.s, end.i, Len(s) - 1), i |-> end.i]

Qsort(s) ==
  LET sorted[t \in Seq(ToSet(s))] ==
        IF Len(t) <= 1 THEN t
        ELSE LET p == Partition(t)
             IN sorted[SubSeq(p.s, 1, p.i)] \o <<p.s[p.i + 1]>>
                  \o sorted[SubSeq(p.s, p.i + 2, Len(t))]
  IN sorted[s]

Searching == [kind |-> "searching"]
NotThere == [kind |-> "null"]
Wild == [kind |-> "wild"]        \* an element outside of the array is read
Element(n) == [kind |-> "element", index |-> n]

Bounds(left, right, found) == [left |-> left, right |-> right, found |-> found]

\* One turn of the loop of bsearch.
Search(key, s, st) ==
  LET mid == st.left + (st.right - st.left) \div 2
      result == Compar(key, s[mid + 1].key)
  IN IF st.found # Searching THEN st
     ELSE IF st.left > st.right THEN Bounds(st.left, st.right, NotThere)
     ELSE IF mid >= Len(s) THEN Bounds(st.left, st.right, Wild)
     ELSE IF result = 0 THEN Bounds(st.left, st.right, Element(mid))
     ELSE IF result < 0 THEN Bounds(st.left, (mid - 1) % Size, Searching)
     ELSE Bounds(mid + 1, st.right, Searching)

\* Each turn but the last leaves out an element at least.
Bsearch(key, s) ==
  LET st[n \in 0 .. Len(s) + 1] ==
        IF n = 0 THEN Bounds(0, (Len(s) - 1) % Size, Searching) ELSE Search(key, s, st[n - 1])
  IN st[Len(s) + 1].found
=============================================================================
