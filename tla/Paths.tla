------------------------------- MODULE Paths -------------------------------
(***************************************************************************)
(* The way of a path from fopen to the host: alloc_libc_to_base_path of    *)
(* src/xlibc/fs.c makes it absolute, takes out "." and ".." and maps       *)
(* "/_zwolf" to the root of the installation, and tonativepath, which      *)
(* base_fs_open calls, maps that prefix again.                             *)
(*                                                                         *)
(* A path is what stands between its slashes: "/a//b" is the absolute path *)
(* <<"a", "", "b">>, "b/" the relative one <<"b", "">>.  The buffer        *)
(* abspath, between two rounds of the loop, is a sequence of components    *)
(* each closed by its slash, and its characters are counted: each one of a *)
(* name is written only up to a limit, the slashes and the 0 without one.  *)
(***************************************************************************)
EXTENDS Naturals, Sequences, SequencesExt

CONSTANTS
  Names,     \* ordinary components
  Alias,     \* "_zwolf"
  Longer,    \* components of which Alias is a proper prefix
  Root,      \* the components of xload_root
  Cwd,       \* the components getcwd returns
  Width,     \* the characters of a component
  Limit      \* 4197, where the last character of a name may be written

Gap == ""      \* what is between two slashes in a row

Components == Names \cup {Gap, ".", ".."}

ASSUME PathsAssumption ==
  /\ Alias \in Names /\ Longer \in SUBSET (Names \ {Alias})
  /\ Root \in Seq(Names) /\ Cwd \in Seq(Names)
  /\ {Gap, ".", ".."} \cap Names = {}
  /\ Limit \in Nat /\ Width \in [Components -> Nat]
  /\ Width[Gap] = 0 /\ Width["."] = 1 /\ Width[".."] = 2 /\ \A c \in Names : Width[c] > 0

\* The size of abspath_orig: 4200.
BufferSize == Limit + 3

\* Refused with EINVAL, or over the end of the buffer, after which C says nothing.
PathErrors == {"none", "EINVAL", "overrun"}

Pop(s) == SubSeq(s, 1, Len(s) - 1)
----------------------------------------------------------------------------
(* alloc_libc_to_base_path *)

\* abspath - abspath_orig for a buffer of these components.
Chars(path) ==
  LET n[k \in 0 .. Len(path)] == IF k = 0 THEN 1 ELSE n[k - 1] + Width[path[k]] + 1
  IN n[Len(path)]

\* abspath[0] = '/', wherever that is.
PutSlash(st) ==
  IF Chars(st.abspath) >= BufferSize THEN [st EXCEPT !.error = "overrun"]
  ELSE [st EXCEPT !.abspath = Append(@, Gap)]

\* One round of the loop, at component k of n with abspath before it.  After
\* "." and ".." the slash that follows is copied although abspath ends in one.
\* Two slashes in a row are skipped, of three the last is copied.

Here(st) ==
  LET next == [st EXCEPT !.k = @ + 1]
  IN IF st.k < Len(st.comps) THEN PutSlash(next) ELSE next

\* Mutant: abspath -= 1, which finds the slash it stands behind.
ParentOneBack(st) == IF st.abspath = <<>> THEN [st EXCEPT !.error = "EINVAL"] ELSE Here(st)

\* abspath -= 2 and back to the slash before: the last component goes, and
\* where there is none left the path is refused.
Parent(st) ==
  IF st.abspath \in {<<>>, <<Gap>>} THEN [st EXCEPT !.error = "EINVAL"]
  ELSE Here([st EXCEPT !.abspath = Pop(@)])

Empty(st) ==
  IF st.k + 1 < Len(st.comps) /\ st.comps[st.k + 1] = Gap THEN PutSlash([st EXCEPT !.k = @ + 2])
  ELSE [st EXCEPT !.k = @ + 1]

\* Mutant: one look at the size before the name, none at its characters.
NameCheckedOnce(st) ==
  IF Chars(st.abspath) > Limit THEN [st EXCEPT !.error = "EINVAL"]
  ELSE [st EXCEPT !.k = @ + 1, !.abspath = Append(@, st.comps[st.k])]

\* The slash behind a name that fits has room.
Name(st) ==
  LET c == st.comps[st.k]
  IN IF Chars(st.abspath) + Width[c] - 1 > Limit THEN [st EXCEPT !.error = "EINVAL"]
     ELSE [st EXCEPT !.k = @ + 1, !.abspath = Append(@, c)]

Round(st) ==
  IF st.error # "none" \/ st.k > Len(st.comps) THEN st
  ELSE CASE st.comps[st.k] = ".."     -> Parent(st)
         [] st.comps[st.k] = "."      -> Here(st)
         [] st.comps[st.k] = Gap      -> Empty(st)
         [] st.comps[st.k] \in Names  -> Name(st)

Start(absolute) == IF absolute THEN <<>> ELSE Cwd

\* The working directory is copied up to the same limit as a name.
Outset(absolute, comps) ==
  [k |-> 1, comps |-> comps, abspath |-> Start(absolute),
   error |-> IF Chars(Start(absolute)) - 2 > Limit THEN "EINVAL" ELSE "none"]

\* The loop, the 0 behind it, and the last slash taken off.  No component is
\* left of the root: its path is the empty string.
Absolute(absolute, comps) ==
  LET after[n \in 0 .. Len(comps)] ==
        IF n = 0 THEN Outset(absolute, comps) ELSE Round(after[n - 1])
      end == after[Len(comps)]
  IN IF end.error # "none" THEN [error |-> end.error, path |-> <<>>]
     ELSE IF Chars(end.abspath) >= BufferSize THEN [error |-> "overrun", path |-> <<>>]
     ELSE [error |-> "none", path |-> end.abspath]

\* "/_zwolf", alone or before a slash.
LibcToBasePath(absolute, comps) ==
  LET a == Absolute(absolute, comps)
  IN IF a.path # <<>> /\ Head(a.path) = Alias THEN [a EXCEPT !.path = Root \o Tail(@)] ELSE a
----------------------------------------------------------------------------
(* tonativepath: the same prefix again, but whatever follows it is glued to the
   last component of the root, which makes a name of nothing that is there. *)

Glued == "glued"

ToNativeBase(path) ==
  IF path = <<>> \/ Head(path) \notin Longer \cup {Alias} THEN path
  ELSE IF Head(path) = Alias THEN Root \o Tail(path)
  ELSE Pop(Root) \o <<Glued>> \o Tail(path)

\* What the host's open is called with.
Opened(absolute, comps) ==
  LET b == LibcToBasePath(absolute, comps)
  IN IF b.error # "none" THEN b ELSE [b EXCEPT !.path = ToNativeBase(@)]
============================================================================
