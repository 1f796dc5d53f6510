------------------------------ MODULE Targets ------------------------------
(***************************************************************************)
(* What Analyze knows of a target, as values: the name of the target in    *)
(* suite and workspace paths, and the dependencies a command selects from  *)
(* it.  Dependency names are sequences of path components, purls too.      *)
(*                                                                         *)
(* A target: the package names its root manifests declare, the base names  *)
(* of its origin remote and of its https remotes in sorted order, of its   *)
(* repository root and of its directory ("" for none), its path below the  *)
(* repository root, and its dependencies in manifest order.  Text with     *)
(* slashes, a package name or a path, is the sequence of its parts.        *)
(***************************************************************************)
EXTENDS Naturals, Sequences, FiniteSets, SequencesExt

CONSTANTS
  Fold,       \* text to its lower-case, dashed and trimmed form, one part
  Indexed     \* ecosystems with a usage indexer

IsSequence(s) == s \in Seq(Range(s))

(* The elements of s that are in S, in their order. *)
Keep(s, S) == FoldLeft(LAMBDA out, x : IF x \in S THEN Append(out, x) ELSE out, <<>>, s)

(* A manifest names the target only when no other root manifest disagrees. *)
PackageName(t) == IF Cardinality(t.packages) = 1 THEN CHOOSE p \in t.packages : TRUE ELSE <<>>

RemoteName(t) ==
  IF t.origin # "" THEN t.origin ELSE IF t.https # <<>> THEN t.https[1] ELSE ""

NormalizeUnhashed(value) == [name |-> Fold[value], hashes |-> <<>>]  \* mutant: no hash after a change

(* Whatever normalising changes is told apart by a hash of the original,   *)
(* here the original.                                                      *)
NormalizeTargetName(value) ==
  [name |-> Fold[value], hashes |-> IF Fold[value] = value THEN <<>> ELSE <<value>>]

(* Without one package name: the remote's name, else the directory's.      *)
FallbackName(t) ==
  IF RemoteName(t) # "" THEN RemoteName(t) ELSE IF t.root # "" THEN t.root ELSE t.dir

(* What the name of a target is made from: the text that is normalised,    *)
(* and the path of a nested package, of which the name gets a hash.        *)
Identity(t) ==
  IF PackageName(t) # <<>> THEN <<PackageName(t), t.rel>>
  ELSE <<<<FallbackName(t)>> \o t.rel, <<>>>>

DetectTargetName(t) ==
  LET n == NormalizeTargetName(Identity(t)[1])
      path == Identity(t)[2]
  IN [name |-> n.name, hashes |-> IF path = <<>> THEN n.hashes ELSE Append(n.hashes, path)]

-----------------------------------------------------------------------------
(* Selection.  A dependency: name, purl, eco, direct, scope, version (the  *)
(* constraint) and minimum (its inclusive lower bound, "" when none).      *)

Purl(eco, name) == <<"pkg", eco>> \o name

NoDep == [name |-> <<>>, purl |-> <<>>, eco |-> "", direct |-> FALSE, scope |-> "",
          version |-> "", minimum |-> ""]

IsDep(d) == d = [f \in DOMAIN NoDep |-> d[f]]

(* A name that no manifest has may still be an imported transitive one: it *)
(* gets the first ecosystem of the target that has an indexer.             *)
FindDep(t, name) ==
  LET known == {k \in DOMAIN t.deps : name \in {t.deps[k].name, t.deps[k].purl}}
      indexed == {k \in DOMAIN t.deps : t.deps[k].eco \in Indexed}
  IN IF known # {} THEN t.deps[Min(known)]
     ELSE IF indexed # {}
     THEN LET eco == t.deps[Min(indexed)].eco
          IN [NoDep EXCEPT !.name = name, !.eco = eco, !.purl = Purl(eco, name)]
     ELSE NoDep

SelectDeps(t, names) ==
  LET found == [k \in DOMAIN names |-> FindDep(t, names[k])]
  IN IF names = <<>>
     THEN Keep(t.deps, {d \in Range(t.deps) : d.direct /\ d.scope \notin {"development", "dev"}})
     ELSE Keep(found, Range(found) \ {NoDep})

NoOverride == [baseline |-> "", skip |-> ""]

(* Fields of a purl entry win over those of a name entry. *)
DependencyConfigFor(dep, overrides) ==
  LET At(key) == IF key \in DOMAIN overrides THEN overrides[key] ELSE NoOverride
      First(a, b) == IF a # "" THEN a ELSE b
  IN [baseline |-> First(At(dep.purl).baseline, At(dep.name).baseline),
      skip |-> First(At(dep.purl).skip, At(dep.name).skip)]

(* A configured skip only counts when no dependency was asked for by name. *)
SelectGenDeps(t, names, overrides) ==
  LET conf(d) == DependencyConfigFor(d, overrides)
      selected == SelectDeps(t, names)
      skipped == {d \in Range(selected) : names = <<>> /\ conf(d).skip = "yes"}
      kept == Keep(selected, Range(selected) \ skipped)
      versioned(d) ==
        IF conf(d).baseline # "" THEN [d EXCEPT !.version = conf(d).baseline] ELSE d
  IN [k \in DOMAIN kept |-> versioned(kept[k])]

(* validateRelativePath: a path that stays below its root. *)
SafeName(name) == name # <<>> /\ ".." \notin Range(name)
=============================================================================
