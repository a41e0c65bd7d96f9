------------------------------ MODULE Symbols ------------------------------
(***************************************************************************)
(* How link() of src/xload/load_elf.c finds the address of a relocation:   *)
(* verneedstr tells from the version of the symbol which file it comes     *)
(* from, lookup walks the hash table of that file, and findSymbol puts the *)
(* two together over the vector of libraries.                              *)
(*                                                                         *)
(* A library is its soname, its symbols from index 1 on, each with its     *)
(* name and its version index, the number of its hash buckets and the      *)
(* versions it needs of which file.  Index 0 is the symbol without a name  *)
(* that every table begins with.                                           *)
(***************************************************************************)
EXTENDS Integers, Sequences, FiniteSetsExt, Functions

CONSTANTS
  Hash,        \* elf_Hash, a function on the names of symbols
  Xload,       \* the soname "_xload" of the loader itself
  Exports,     \* the names findSymbol knows of it: xload_write, xload_open, ...
  Sonames,     \* those that files have or name
  NoSoname,    \* a null zwolf_path
  HalfSize     \* 2^16: lookup holds an index in an Elf64_Half

ASSUME SymbolsAssumption ==
  /\ Hash \in [DOMAIN Hash -> Nat]
  /\ Xload \in Sonames /\ NoSoname \notin Sonames
  /\ HalfSize \in Nat \ {0}

Fault == [kind |-> "error"]                    \* ERR: the process ends
Unbound == [kind |-> "null"]
OfLoader(name) == [kind |-> "loader", name |-> name]
Address(k, idx) == [kind |-> "address", lib |-> k, idx |-> idx]
----------------------------------------------------------------------------
(* A file as the static linker writes it (external).  A version is of one of
   the files it needs. *)

WellFormed(lib) ==
  /\ lib.soname \in (Sonames \ {Xload}) \cup {NoSoname}
  /\ lib.symtab \in Seq([name : DOMAIN Hash, version : Nat])
  /\ lib.nbucket \in Nat
  /\ lib.verneed \in Seq([file : Sonames, versions : Seq(Nat)])
  /\ \A v, w \in DOMAIN lib.verneed :
       Range(lib.verneed[v].versions) \cap Range(lib.verneed[w].versions) # {} => v = w

(* Its hash table: each symbol, defined or not, in the chain of its bucket, the
   last one first. *)

InBucket(lib, h, below) ==
  {i \in DOMAIN lib.symtab : i < below /\ Hash[lib.symtab[i].name] % lib.nbucket = h}

Bucket(lib, h) == Max({0} \cup InBucket(lib, h, Len(lib.symtab) + 1))

Chain(lib, idx) ==
  Max({0} \cup InBucket(lib, Hash[lib.symtab[idx].name] % lib.nbucket, idx))
----------------------------------------------------------------------------
(* lookup, verneedstr and findSymbol *)

NotFound == -1

\* The index of the first symbol of the name in its chain, whatever its version
\* and defined or not; 0 when there are no buckets at all.  Each index is cut to
\* sixteen bits, which may lead into another chain or to its end.
Lookup(name, lib) ==
  IF lib.nbucket = 0 THEN 0
  ELSE LET at[n \in 0 .. Len(lib.symtab)] ==
             IF n = 0 THEN Bucket(lib, Hash[name] % lib.nbucket) % HalfSize
             ELSE IF at[n - 1] = 0 \/ lib.symtab[at[n - 1]].name = name THEN at[n - 1]
             ELSE Chain(lib, at[n - 1]) % HalfSize
           end == at[Len(lib.symtab)]
       IN IF end = 0 THEN NotFound ELSE end

\* Mutant: only the first version of each file is looked at.
VerneedStrFirst(sym, lib) ==
  LET with == {v \in DOMAIN lib.verneed : lib.verneed[v].versions[1] = lib.symtab[sym].version}
  IN IF with = {} THEN NoSoname ELSE lib.verneed[Min(with)].file

\* The file that the version of the symbol comes from, if it is one of those.
VerneedStr(sym, lib) ==
  LET with == {v \in DOMAIN lib.verneed :
                 lib.symtab[sym].version \in Range(lib.verneed[v].versions)}
  IN IF with = {} THEN NoSoname ELSE lib.verneed[Min(with)].file

\* Without such a file the symbol is looked for in the library itself.
SymbolFile(sym, lib) ==
  IF VerneedStr(sym, lib) # NoSoname THEN VerneedStr(sym, lib) ELSE lib.soname

\* The loop over the vector: it does not stop at the file, so that a library
\* without soname is met wherever it is, and the last of two files would win.
InFile(file, name, libs) ==
  LET hits == {i \in DOMAIN libs : libs[i].soname = file}
  IN IF \E i \in DOMAIN libs : libs[i].soname = NoSoname THEN Fault
     ELSE IF \E i \in hits : Lookup(name, libs[i]) = NotFound THEN Fault
     ELSE IF hits = {} THEN Unbound
     ELSE Address(Max(hits), Lookup(name, libs[Max(hits)]))

\* A relocation by a symbol of library k, before the addend is added.
BySymbol(sym, k, libs) ==
  LET lib == libs[k]
      name == lib.symtab[sym].name
      file == SymbolFile(sym, lib)
  IN IF VerneedStr(sym, lib) = Xload
       THEN IF name \in Exports THEN OfLoader(name) ELSE Unbound
     ELSE IF file = NoSoname THEN Unbound
     ELSE InFile(file, name, libs)

\* A relative relocation has no symbol, and is not known without an addend.
FindSymbol(rela, k, libs) ==
  CASE rela.type = "relative" /\ rela.sym = 0 /\ rela.addend # 0 -> Address(k, 0)
    [] rela.type = "symbol" -> BySymbol(rela.sym, k, libs)
    [] OTHER -> Fault
============================================================================
