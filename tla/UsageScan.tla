------------------------------ MODULE UsageScan ------------------------------
(***************************************************************************)
(* usage.IndexManyWithOptions: the usage surfaces of several dependencies, *)
(* from one walk over the target's files per ecosystem.  Every file is     *)
(* parsed once and its imports, activation strings and member references   *)
(* are handed out to the collectors of all dependencies of the ecosystem.  *)
(*                                                                         *)
(* A name is a sequence of segments; a member of m is m \o <<member>>.     *)
(* What outline.Imports, outline.Refs and quotedLiterals find in a file,   *)
(* and which modules a dependency provides, are inputs.                    *)
(***************************************************************************)
EXTENDS Naturals, Sequences, FiniteSets, SequencesExt

CONSTANTS
  Deps,         \* dependency PURLs
  Ecosystem,    \* of each dependency
  Unresolvable, \* dependencies for which resolveTarget fails
  Provides,     \* the modules of each dependency
  Activations,  \* the configured activation strings of each, a sequence
  Seeded,       \* ecosystems that allow a name to be used without an import
  DefaultAlias, \* the local name a module is bound to without an alias, or None
  Locals,       \* local identifiers
  None,         \* no alias
  Requests,     \* the sequences of dependencies that may be asked for
  Trees         \* the sequences of files that may be walked

(* A file: the ecosystems its extension belongs to; whether it is excluded *)
(* by the options, cannot be read, cannot be parsed or is parsed; what is  *)
(* found in it.  An import binds names, or a module, or nothing.           *)
Statuses == {"excluded", "unreadable", "unparsed", "parsed"}
ImportKinds == {"named", "module", "effect"}

IsSequence(s) == s \in Seq(Range(s))

ASSUME UsageScanAssumption ==
  /\ Unresolvable \subseteq Deps
  /\ Requests \subseteq Seq(Deps)
  /\ \A d \in Deps : IsSequence(Activations[d])
  /\ None \notin Locals
  /\ \A t \in Trees : IsSequence(t) /\ \A f \in DOMAIN t :
       /\ t[f].status \in Statuses
       /\ IsSequence(t[f].imports) /\ IsSequence(t[f].literals) /\ IsSequence(t[f].refs)
       /\ \A i \in DOMAIN t[f].imports :
            /\ t[f].imports[i].kind \in ImportKinds
            /\ IsSequence(t[f].imports[i].names)
       /\ \A i \in DOMAIN t[f].refs : t[f].refs[i].receiver \in Locals

VARIABLES
  requests, tree,  \* the inputs
  pc,
  next,        \* the next request to resolve
  order,       \* ecosystems in the order of their first dependency
  groups,      \* the resolved dependencies of each ecosystem, in order
  file,        \* the file of the walk
  receivers,   \* per dependency: what the file's local identifiers stand for
  sites,       \* per dependency: the collector, as the sites added to it
  results,     \* per dependency: what IndexMany returns
  cancelled    \* the context

inputs == <<requests, tree>>
vars == <<inputs, pc, next, order, groups, file, receivers, sites, results, cancelled>>

Ecosystems == {Ecosystem[d] : d \in Deps}
NoExport == <<>>
Unbound == [l \in Locals |-> NoExport]
Current == tree[file]
Targets == IF order = <<>> THEN {} ELSE Range(groups[Head(order)])

Site(name, activation, line) ==
  [name |-> name, activation |-> activation, file |-> file, line |-> line]

Init ==
  /\ requests \in Requests /\ tree \in Trees
  /\ pc = "resolve" /\ next = 1 /\ order = <<>> /\ file = 1
  /\ groups = [e \in Ecosystems |-> <<>>]
  /\ receivers = [d \in Deps |-> Unbound]
  /\ sites = [d \in Deps |-> <<>>]
  /\ results = [d \in Deps |-> "none"]
  /\ cancelled = FALSE

Cancel ==
  /\ ~cancelled /\ pc \notin {"done", "stopped"}
  /\ cancelled' = TRUE
  /\ UNCHANGED <<inputs, pc, next, order, groups, file, receivers, sites, results>>

(* Every loop looks at the context before it goes on.  The surfaces that   *)
(* scanManyWithOptions returns with its error are dropped.                 *)
Stop ==
  /\ cancelled /\ pc \notin {"done", "stopped"}
  /\ pc' = "stopped"
  /\ results' = [d \in Deps |-> "none"]
  /\ UNCHANGED <<inputs, next, order, groups, file, receivers, sites, cancelled>>

ResolveRejected ==                              \* mutant: scanned although it has an error
  /\ pc = "resolve" /\ next <= Len(requests) /\ ~cancelled
  /\ next' = next + 1
  /\ LET d == requests[next]
         e == Ecosystem[d]
         seen == \E i \in 1..(next - 1) : requests[i] = d
     IN /\ results' = IF d \in Unresolvable THEN [results EXCEPT ![d] = "error"]
                      ELSE results
        /\ IF seen THEN UNCHANGED <<groups, order>>
           ELSE /\ groups' = [groups EXCEPT ![e] = Append(@, d)]
                /\ order' = IF groups[e] = <<>> THEN Append(order, e) ELSE order
  /\ UNCHANGED <<inputs, pc, file, receivers, sites, cancelled>>

ResolveUntilError ==                            \* mutant: the first error ends the loop
  /\ pc = "resolve" /\ next <= Len(requests) /\ ~cancelled
  /\ LET d == requests[next]
         e == Ecosystem[d]
         seen == \E i \in 1..(next - 1) : requests[i] = d
     IN /\ next' = IF d \in Unresolvable THEN Len(requests) + 1 ELSE next + 1
        /\ results' = IF d \in Unresolvable THEN [results EXCEPT ![d] = "error"]
                      ELSE results
        /\ IF seen \/ d \in Unresolvable THEN UNCHANGED <<groups, order>>
           ELSE /\ groups' = [groups EXCEPT ![e] = Append(@, d)]
                /\ order' = IF groups[e] = <<>> THEN Append(order, e) ELSE order
  /\ UNCHANGED <<inputs, pc, file, receivers, sites, cancelled>>

(* A PURL asked for twice is resolved once; one that cannot be resolved    *)
(* has a result of its own.                                                *)
Resolve ==
  /\ pc = "resolve" /\ next <= Len(requests) /\ ~cancelled
  /\ next' = next + 1
  /\ LET d == requests[next]
         e == Ecosystem[d]
         seen == \E i \in 1..(next - 1) : requests[i] = d
     IN /\ results' = IF d \in Unresolvable THEN [results EXCEPT ![d] = "error"]
                      ELSE results
        /\ IF seen \/ d \in Unresolvable THEN UNCHANGED <<groups, order>>
           ELSE /\ groups' = [groups EXCEPT ![e] = Append(@, d)]
                /\ order' = IF groups[e] = <<>> THEN Append(order, e) ELSE order
  /\ UNCHANGED <<inputs, pc, file, receivers, sites, cancelled>>

StartWalk ==
  /\ pc = "resolve" /\ next > Len(requests)
  /\ pc' = IF order = <<>> THEN "done" ELSE "file"
  /\ UNCHANGED <<inputs, next, order, groups, file, receivers, sites, results, cancelled>>

(* Files with another extension, excluded by path or scope, or unreadable  *)
(* are passed over.                                                        *)
SkipFile ==
  /\ pc = "file" /\ file <= Len(tree) /\ ~cancelled
  /\ Head(order) \notin Current.ecosystems \/ Current.status \in {"excluded", "unreadable"}
  /\ file' = file + 1
  /\ UNCHANGED <<inputs, pc, next, order, groups, receivers, sites, results, cancelled>>

SeedReceivers(d) ==
  [l \in Locals |-> IF Head(order) \in Seeded /\ <<l>> \in Provides[d] THEN <<l>> ELSE NoExport]

OpenFileKeepingReceivers ==                     \* mutant: bindings of the last file stay
  /\ pc = "file" /\ file <= Len(tree) /\ ~cancelled
  /\ Head(order) \in Current.ecosystems /\ Current.status \in {"unparsed", "parsed"}
  /\ pc' = IF Current.status = "parsed" THEN "imports" ELSE "activations"
  /\ UNCHANGED <<inputs, receivers, next, order, groups, file, sites, results, cancelled>>

OpenFile ==
  /\ pc = "file" /\ file <= Len(tree) /\ ~cancelled
  /\ Head(order) \in Current.ecosystems /\ Current.status \in {"unparsed", "parsed"}
  /\ pc' = IF Current.status = "parsed" THEN "imports" ELSE "activations"
  /\ receivers' = [d \in Deps |-> IF d \in Targets THEN SeedReceivers(d) ELSE Unbound]
  /\ UNCHANGED <<inputs, next, order, groups, file, sites, results, cancelled>>

(* recordImport: the names one import adds, and how it binds locals. *)
ImportedNames(import) ==
  IF import.kind = "named" THEN [i \in DOMAIN import.names |-> <<import.names[i].name>>]
  ELSE <<import.module>>

Local(n) == IF n.alias = None THEN n.name ELSE n.alias

ModuleAlias(import) ==
  IF import.names # <<>> /\ import.names[1].alias # None THEN import.names[1].alias
  ELSE DefaultAlias[import.module]

BindName(bound, n) == [bound EXCEPT ![Local(n)] = <<n.name>>]

Bind(bound, import) ==
  CASE import.kind = "named" ->
         FoldLeft(LAMBDA b, name : BindName(b, name), bound, import.names)
    [] import.kind = "module" /\ ModuleAlias(import) # None ->
         [bound EXCEPT ![ModuleAlias(import)] = import.module]
    [] OTHER -> bound

(* recordMatchingImports: an import of something else is passed over. *)
RecordImport(d, s, import) ==
  IF import.module \notin Provides[d] THEN s
  ELSE s \o [i \in DOMAIN ImportedNames(import) |->
               Site(ImportedNames(import)[i], FALSE, import.line)]

BindImport(d, bound, import) ==
  IF import.module \notin Provides[d] THEN bound ELSE Bind(bound, import)

RecordImports ==
  /\ pc = "imports" /\ ~cancelled
  /\ pc' = "activations"
  /\ sites' = [d \in Deps |-> IF d \notin Targets THEN sites[d] ELSE
       FoldLeft(LAMBDA s, import : RecordImport(d, s, import), sites[d], Current.imports)]
  /\ receivers' = [d \in Deps |-> IF d \notin Targets THEN receivers[d] ELSE
       FoldLeft(LAMBDA b, import : BindImport(d, b, import), receivers[d], Current.imports)]
  /\ UNCHANGED <<inputs, next, order, groups, file, results, cancelled>>

HasActivationSite(s, literal) ==                \* mutant: import sites are not looked up
  \E i \in DOMAIN s : s[i] = Site(literal.text, TRUE, literal.line)

(* A site of that name, of either kind, on the same line. *)
HasSite(s, literal) ==
  \E i \in DOMAIN s : \E kind \in BOOLEAN : s[i] = Site(literal.text, kind, literal.line)

AddActivation(s, literal) ==
  IF HasSite(s, literal) THEN s ELSE Append(s, Site(literal.text, TRUE, literal.line))

AddIfConfigured(s, activation, literal) ==
  IF activation = literal.text THEN AddActivation(s, literal) ELSE s

(* activationCollectors lists a dependency as often as the activation is   *)
(* configured for it.                                                      *)
RecordLiteral(d, s, literal) ==
  FoldLeft(LAMBDA t, activation : AddIfConfigured(t, activation, literal), s, Activations[d])

RecordActivations ==
  /\ pc = "activations" /\ ~cancelled
  /\ pc' = IF Current.status = "parsed" THEN "refs" ELSE "file"
  /\ file' = IF Current.status = "parsed" THEN file ELSE file + 1
  /\ sites' = [d \in Deps |-> IF d \notin Targets THEN sites[d] ELSE
       FoldLeft(LAMBDA s, literal : RecordLiteral(d, s, literal), sites[d], Current.literals)]
  /\ UNCHANGED <<inputs, next, order, groups, receivers, results, cancelled>>

(* recordRefs: a reference is a member of whatever its receiver stands for *)
(* in each of the dependencies that own it.                                *)
RecordRef(d, s, ref) ==
  LET export == receivers[d][ref.receiver]
  IN IF export = NoExport THEN s ELSE Append(s, Site(Append(export, ref.member), FALSE, ref.line))

RecordRefs ==
  /\ pc = "refs" /\ ~cancelled
  /\ pc' = "file" /\ file' = file + 1
  /\ sites' = [d \in Deps |-> IF d \notin Targets THEN sites[d] ELSE
       FoldLeft(LAMBDA s, ref : RecordRef(d, s, ref), sites[d], Current.refs)]
  /\ UNCHANGED <<inputs, next, order, groups, receivers, results, cancelled>>

(* The walk of one ecosystem is over.  A signal after its last check of    *)
(* the context goes unnoticed.                                             *)
EndWalk ==
  /\ pc = "file" /\ file > Len(tree)
  /\ results' = [d \in Deps |-> IF d \in Targets THEN "surface" ELSE results[d]]
  /\ order' = Tail(order)
  /\ file' = 1
  /\ pc' = IF order' = <<>> THEN "done" ELSE "file"
  /\ UNCHANGED <<inputs, next, groups, receivers, sites, cancelled>>

Finished == pc \in {"done", "stopped"} /\ UNCHANGED vars

Next ==
  \/ Cancel \/ Stop \/ Resolve \/ StartWalk \/ SkipFile \/ OpenFile
  \/ RecordImports \/ RecordActivations \/ RecordRefs \/ EndWalk \/ Finished

Spec == Init /\ [][Next]_vars

-----------------------------------------------------------------------------
TypeOK ==
  /\ pc \in {"resolve", "file", "imports", "activations", "refs", "done", "stopped"}
  /\ next \in 1..(Len(requests) + 1)
  /\ file \in 1..(Len(tree) + 1)
  /\ \A e \in Ecosystems : \A i \in DOMAIN groups[e] :
       groups[e][i] \in Deps \ Unresolvable
  /\ results \in [Deps -> {"none", "error", "surface"}]
  /\ cancelled \in BOOLEAN

(* What the surface of dependency d should say of file f, whichever other  *)
(* dependencies and files are scanned.                                     *)
ImportsFound(d, f) ==
  {i \in DOMAIN tree[f].imports :
     tree[f].status = "parsed" /\ tree[f].imports[i].module \in Provides[d]}

BoundNames(import, local) ==
  IF import.kind = "named"
  THEN {i \in DOMAIN import.names : Local(import.names[i]) = local}
  ELSE IF import.kind = "module" /\ ModuleAlias(import) = local THEN {0} ELSE {}

(* The last import to bind a local identifier decides what it stands for;  *)
(* without one, a name the dependency provides may stand for itself.       *)
StandsFor(d, f, local) ==
  LET binding == {i \in ImportsFound(d, f) : BoundNames(tree[f].imports[i], local) # {}}
      import == tree[f].imports[Max(binding)]
  IN IF binding # {}
     THEN IF import.kind = "named"
          THEN <<import.names[Max(BoundNames(import, local))].name>>
          ELSE import.module
     ELSE IF Ecosystem[d] \in Seeded /\ <<local>> \in Provides[d] THEN <<local>> ELSE NoExport

NamesAt(d, f) ==
  UNION {Range(ImportedNames(tree[f].imports[i])) \X {tree[f].imports[i].line} :
           i \in ImportsFound(d, f)}

MembersAt(d, f) ==
  IF tree[f].status # "parsed" THEN {}
  ELSE {<<Append(StandsFor(d, f, r.receiver), r.member), r.line>> :
          r \in {x \in Range(tree[f].refs) : StandsFor(d, f, x.receiver) # NoExport}}

ActivationsAt(d, f) ==
  {<<l.text, l.line>> : l \in {x \in Range(tree[f].literals) : x.text \in Range(Activations[d])}}
    \ NamesAt(d, f)

ExpectedSites(d) ==
  UNION { {[name |-> p[1], activation |-> FALSE, file |-> f, line |-> p[2]] :
             p \in NamesAt(d, f) \cup MembersAt(d, f)}
          \cup {[name |-> p[1], activation |-> TRUE, file |-> f, line |-> p[2]] :
             p \in ActivationsAt(d, f)} :
          f \in {g \in DOMAIN tree : /\ Ecosystem[d] \in tree[g].ecosystems
                                     /\ tree[g].status \in {"unparsed", "parsed"}} }

(* IndexMany: a surface that is returned says of its dependency what a     *)
(* scan of the whole target for it alone would say.  Sharing the walk and  *)
(* the receivers leaks nothing from one dependency or file to another, a   *)
(* dependency that cannot be resolved costs the others nothing, and a scan *)
(* that was interrupted leaves no partial surface behind.                  *)
SurfaceComplete ==
  \A d \in Deps : results[d] = "surface" => Range(sites[d]) = ExpectedSites(d)

(* Every dependency asked for has a result when IndexMany succeeds, however *)
(* often it was asked for and whatever became of the others.               *)
EveryRequestAnswered ==
  pc = "done" =>
    \A d \in Deps : results[d] = IF d \notin Range(requests) THEN "none"
                                 ELSE IF d \in Unresolvable THEN "error" ELSE "surface"

(* An activation is recorded once per line, and not where an import has    *)
(* recorded the same name, though the string may be quoted twice and be    *)
(* configured twice: batches and costs are counted in sites.               *)
ActivationSitesOnce ==
  \A d \in Deps : \A j \in DOMAIN sites[d] : sites[d][j].activation =>
    \A i \in 1..(j - 1) :
      ~ \E kind \in BOOLEAN : sites[d][i] = [sites[d][j] EXCEPT !.activation = kind]
=============================================================================
