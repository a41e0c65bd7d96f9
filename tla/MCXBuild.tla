------------------------------ MODULE MCXBuild ------------------------------
(* Projects of up to three targets in five shapes: a chain, a diamond, a  *)
(* cycle, an undefined dependency, a target called "target"; and the ways in  *)
(* which the repository's own xbuild.json files declare a target, and others. *)
EXTENDS XBuild, TLC

CONSTANTS root, lib, app, target, src

MCNames == {root, lib, app, target}
MCSources == {src}

\* The lists of dependencies.
Shapes ==
  {root :> <<lib>> @@ lib :> <<target>> @@ target :> <<>>,
   root :> <<lib, app>> @@ lib :> <<>> @@ app :> <<lib>>,
   root :> <<target, lib>> @@ lib :> <<>> @@ target :> <<>>,
   root :> <<lib>> @@ lib :> <<root>>,
   root :> <<lib>>}

\* An executable, an object file, an archive made by two commands, a target
\* that says nothing of what it makes, and one that only has dependencies.
Declare(kind, t, deps) ==
  LET direct == {deps[k] : k \in DOMAIN deps}
      read   == IF kind = "phony" THEN {} ELSE {src} \cup direct
  IN [targets  |-> deps,
      makeDeps |-> kind \in {"object", "archive"},
      outputs  |-> IF kind \in {"program", "archive"} THEN {t} ELSE {},
      inputs   |-> IF kind = "program" THEN read ELSE {},
      exec     |-> CASE kind = "phony" -> 0 [] kind = "archive" -> 2 [] OTHER -> 1,
      reads    |-> read,
      makes    |-> kind # "phony"]

MCProjects ==
  {[t \in DOMAIN s |-> Declare(k[t], t, s[t])] :
     s \in Shapes,
     k \in {f \in [MCNames -> {"program", "object", "archive", "silent", "phony"}] :
              /\ <<f[root], f[app]>> \in {<<"program", "object">>, <<"phony", "program">>}
              /\ f[target] = f[app]
              /\ f[lib] \in {"program", "object", "archive", "silent"}}}
============================================================================
