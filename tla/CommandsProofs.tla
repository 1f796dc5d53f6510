---------------------------- MODULE CommandsProofs ----------------------------
(***************************************************************************)
(* Proofs about Commands: what the loops of gen, corpus and check do with  *)
(* every element, which suites stay on disk, and what the results of a     *)
(* verification stand for.                                                 *)
(***************************************************************************)
EXTENDS Commands, Induction, SequenceTheorems

(* Lists: sequences of anything.                                           *)

LEMMA ListFacts ==
  ASSUME NEW s, IsSequence(s)
  PROVE  /\ Len(s) \in Nat /\ DOMAIN s = 1..Len(s)
         /\ (s = <<>> <=> Len(s) = 0)
         /\ \A k \in DOMAIN s : s[k] \in Range(s)
         /\ \A x \in Range(s) : \E k \in DOMAIN s : s[k] = x
  BY DEF IsSequence, Range

LEMMA ListOf ==
  ASSUME NEW S, NEW s \in Seq(S)
  PROVE  IsSequence(s) /\ Range(s) \subseteq S
<1>1. s \in [1..Len(s) -> S] /\ Len(s) \in Nat /\ DOMAIN s = 1..Len(s)
  OBVIOUS
<1>2. Range(s) \subseteq S
  BY <1>1 DEF Range
<1>3. s \in Seq(Range(s))
  <2>1. \A k \in 1..Len(s) : s[k] \in Range(s)
    BY <1>1 DEF Range
  <2> QED BY <2>1, <1>1
<1> QED BY <1>2, <1>3 DEF IsSequence

LEMMA TailList ==
  ASSUME NEW s, IsSequence(s), s # <<>>
  PROVE  /\ IsSequence(Tail(s)) /\ Len(Tail(s)) = Len(s) - 1 /\ Len(s) \in Nat \ {0}
         /\ Head(s) = s[1] /\ 1 \in DOMAIN s
         /\ \A k \in DOMAIN Tail(s) : k + 1 \in DOMAIN s /\ Tail(s)[k] = s[k + 1]
         /\ \A k \in DOMAIN s : k # 1 => k - 1 \in DOMAIN Tail(s)
<1> DEFINE t == Tail(s)
<1>1. s \in Seq(Range(s)) /\ Len(s) \in Nat \ {0} /\ Head(s) = s[1] /\ DOMAIN s = 1..Len(s)
  BY DEF IsSequence
<1>2. t \in Seq(Range(s)) /\ Len(t) = Len(s) - 1 /\ \A k \in 1..Len(t) : t[k] = s[k + 1]
  BY <1>1, HeadTailProperties
<1> HIDE DEF t
<1>3. IsSequence(t) /\ DOMAIN t = 1..Len(t)
  BY <1>2, ListOf
<1> QED BY <1>1, <1>2, <1>3 DEF t

LEMMA AppendList ==
  ASSUME NEW s, IsSequence(s), NEW x
  PROVE  /\ IsSequence(Append(s, x)) /\ Len(Append(s, x)) = Len(s) + 1 /\ Len(s) \in Nat
         /\ Append(s, x) # <<>>
         /\ DOMAIN Append(s, x) = DOMAIN s \cup {Len(s) + 1}
         /\ Append(s, x)[Len(s) + 1] = x /\ Len(s) + 1 \notin DOMAIN s
         /\ \A k \in DOMAIN s : Append(s, x)[k] = s[k] /\ k < Len(s) + 1
         /\ Range(Append(s, x)) = Range(s) \cup {x}
<1> DEFINE E == Range(s) \cup {x}
           t == Append(s, x)
<1>1. s \in Seq(E) /\ x \in E /\ DOMAIN s = 1..Len(s) /\ Len(s) \in Nat
  <2>1. s \in Seq(Range(s))
    BY DEF IsSequence
  <2> QED BY <2>1
<1>2. /\ t \in Seq(E) /\ Len(t) = Len(s) + 1 /\ DOMAIN t = 1..(Len(s) + 1)
      /\ t[Len(s) + 1] = x /\ \A k \in 1..Len(s) : t[k] = s[k]
  <2> HIDE DEF E
  <2> QED BY <1>1
<1> HIDE DEF t, E
<1>3. IsSequence(t)
  BY <1>2, ListOf
<1>4. Range(t) = E
  BY <1>1, <1>2 DEF Range, E
<1>5. t # <<>> /\ DOMAIN t = DOMAIN s \cup {Len(s) + 1}
  BY <1>1, <1>2
<1> QED BY <1>1, <1>2, <1>3, <1>4, <1>5 DEF t, E

LEMMA FunctionList ==
  ASSUME NEW n \in Nat, NEW f, f = [k \in 1..n |-> f[k]]
  PROVE  IsSequence(f) /\ Len(f) = n
<1>1. f \in Seq(Range(f)) /\ Len(f) = n
  BY DEF Range
<1> QED BY <1>1 DEF IsSequence

(* Keep drops nothing but what is not in S, and adds nothing.              *)
LEMMA KeepElements ==
  ASSUME NEW s, IsSequence(s), NEW S
  PROVE  IsSequence(Keep(s, S)) /\ Range(Keep(s, S)) = Range(s) \cap S
<1> DEFINE n == Len(s)
           V == Seq(Range(s))
           next(out, x) == IF x \in S THEN Append(out, x) ELSE out
           step == [p \in V \X (1..n) |-> next(p[1], s[p[2]])]
           Rec(f) == f = [u \in SUBSET (1..n) |-> IF u = {} THEN <<>>
                            ELSE next(f[u \ {Max(u)}], s[Max(u)])]
           iter == CHOOSE f : Rec(f)
<1>1. n \in Nat /\ DOMAIN s = 1..n /\ \A k \in 1..n : s[k] \in Range(s)
  BY ListFacts
<1>2. step \in [V \X (1..n) -> V]
  <2>1. ASSUME NEW out \in V, NEW k \in 1..n PROVE next(out, s[k]) \in V
    <3>1. s[k] \in Range(s)
      BY <1>1
    <3> QED BY <3>1, AppendProperties
  <2> HIDE DEF V, next, n
  <2> QED BY <2>1
<1>3. PICK g, f : Runs(g, f, V, <<>>, n, step)
  <2>1. <<>> \in V
    OBVIOUS
  <2> HIDE DEF step, n, V
  <2> QED BY <1>1, <1>2, <2>1, Loop
<1>4. Rec(f)
  <2> HIDE DEF next, n
  <2> QED BY <1>3 DEF Runs
<1>5. Rec(iter)
  <2> HIDE DEF Rec
  <2> QED BY <1>4
<1>6. Keep(s, S) = iter[1..n]
  <2>1. Keep(s, S) = iter[DOMAIN s]
    BY <1>1, Zenon DEF Keep, FoldLeft, MapThenFoldSet
  <2> QED BY <2>1, <1>1
<1> HIDE DEF iter, n, next, V
<1>7. iter[1..n] = g[n]
  <2>1. iter[{}] = <<>>
    BY <1>5
  <2>2. ASSUME NEW k \in 1..n, iter[1..(k - 1)] \in V
        PROVE  iter[1..k] = step[<<iter[1..(k - 1)], k>>]
    BY <1>1, <1>5, <2>2, FirstPositions
  <2> QED BY <2>1, <2>2, <1>3 DEF Runs
<1>8. /\ g \in [0..n -> V] /\ g[0] = <<>>
      /\ \A k \in 1..n : g[k - 1] \in V /\ g[k] = next(g[k - 1], s[k])
  BY <1>3 DEF Runs
<1> DEFINE T == {k \in Nat : k <= n =>
                   Range(g[k]) = {s[j] : j \in 1..k} \cap S}
<1>9. 0 \in T
  BY <1>8 DEF Range
<1>10. ASSUME NEW k \in Nat, k \in T PROVE k + 1 \in T
  <2> SUFFICES ASSUME k + 1 <= n PROVE Range(g[k + 1]) = {s[j] : j \in 1..(k + 1)} \cap S
    BY <1>1
  <2>1. Range(g[k]) = {s[j] : j \in 1..k} \cap S
    BY <1>1, <1>10
  <2>2. g[k] \in V /\ g[k + 1] = next(g[k], s[k + 1])
    BY <1>8
  <2>3. {s[j] : j \in 1..(k + 1)} = {s[j] : j \in 1..k} \cup {s[k + 1]}
    OBVIOUS
  <2>4. Range(Append(g[k], s[k + 1])) = Range(g[k]) \cup {s[k + 1]}
    BY <2>2, ListOf, AppendList DEF V
  <2>5. CASE s[k + 1] \in S
    <3>1. g[k + 1] = Append(g[k], s[k + 1])
      BY <2>2, <2>5 DEF next
    <3> QED BY <3>1, <2>1, <2>3, <2>4, <2>5
  <2>6. CASE s[k + 1] \notin S
    <3>1. g[k + 1] = g[k]
      BY <2>2, <2>6 DEF next
    <3> QED BY <3>1, <2>1, <2>3, <2>6
  <2> QED BY <2>5, <2>6
<1>11. n \in T
  <2> HIDE DEF T
  <2> QED BY <1>1, <1>9, <1>10, NextNumbers
<1>12. Range(g[n]) = Range(s) \cap S
  BY <1>1, <1>11 DEF Range
<1>13. IsSequence(g[n])
  BY <1>1, <1>8, ListOf DEF V
<1> QED BY <1>6, <1>7, <1>12, <1>13

-----------------------------------------------------------------------------
(* The inductive invariant.                                                *)

(* The suite of the element at the head of the queue is written, its       *)
(* meta.json is not.                                                       *)
Incomplete == pc \in {"verify", "verifying", "meta"}

(* The loop that pc belongs to is that of the command.                     *)
ControlInv ==
  /\ IsSequence(queue) /\ IsSequence(outcomes) /\ runs \in Nat
  /\ pc \in {"idle", "end"} => queue = <<>>
  /\ pc = "clone" => cmd.kind = "corpus"
  /\ pc \in {"index", "stage"} \/ Incomplete => cmd.kind \in {"gen", "corpus"}
  /\ pc \in {"suite", "checking"} => cmd.kind = "check"
  /\ pc \in {"verify", "verifying"} => cmd.verify
  /\ pc # "idle" => cmd # NoCommand

IsSuite(s) ==
  s = [path |-> s.path, item |-> s.item, run |-> s.run, files |-> s.files,
       complete |-> s.complete, verify |-> s.verify]

(* Whose suite lies where.                                                 *)
DiskInv ==
  /\ \A s, u \in disk : s.run = u.run => s = u
  /\ \A s \in disk : s.path = s.item.path /\ IsSuite(s)
  /\ Incomplete => /\ Written \in disk /\ Written.item = Head(queue)
                   /\ Written.run = runs /\ ~Written.complete
                   /\ \A k \in DOMAIN outcomes : outcomes[k].run < runs

(* An item is of the target of gen, or of a dependent of corpus.           *)
OfCommand(i) ==
  /\ i.path.name = i.dep.name
  /\ cmd.kind = "gen" => i.identity = Identity(cmd.target)
  /\ cmd.kind = "corpus" => \E t \in Range(cmd.dependents) :
       t.rel = <<>> /\ i.identity = Identity(t) /\ i.path.from = DetectTargetName(t)

ItemsInv ==
  /\ cmd.kind = "gen" => \A k \in DOMAIN queue : OfCommand(queue[k])
  /\ pc \in {"index", "stage"} \/ Incomplete => OfCommand(Head(queue))
  /\ \A k \in DOMAIN outcomes : outcomes[k].run # 0 =>
       OfCommand(outcomes[k].item) /\ cmd.kind \in {"gen", "corpus"}

(* Generated under one dependency name for one identity.                   *)
Alike(i, j) == i.dep.name = j.dep.name /\ i.identity = j.identity

(* What was generated is there until something alike is generated.         *)
Replaced(k) ==
  \/ \E j \in DOMAIN outcomes : j > k /\ outcomes[j].run # 0
                                 /\ Alike(outcomes[j].item, outcomes[k].item)
  \/ Incomplete /\ Alike(Head(queue), outcomes[k].item)

KeptInv ==
  \A k \in DOMAIN outcomes : outcomes[k].ok /\ outcomes[k].run # 0 /\ ~Replaced(k) =>
    \E s \in disk : s.run = outcomes[k].run /\ s.item = outcomes[k].item /\ s.complete

(* Everything a command was to go through is behind it or in its queue.    *)
Names(i) == {i.dep.name, i.dep.purl}

CoverInv ==
  /\ cmd.kind = "gen" /\ pc = "index" => outcomes = <<>>
  /\ cmd.kind = "gen" /\ (queue # <<>> \/ outcomes # <<>>) =>
       \A n \in Range(cmd.deps) : FindDep(cmd.target, n) # NoDep =>
         \/ \E k \in DOMAIN outcomes : n \in Names(outcomes[k].item)
         \/ \E k \in DOMAIN queue : n \in Names(queue[k])
  /\ cmd.kind = "corpus" /\ (pc # "idle" \/ outcomes # <<>>) =>
       /\ Len(outcomes) + Len(queue) = Len(cmd.dependents)
       /\ \A k \in DOMAIN queue : k # 1 \/ pc = "clone" =>
            queue[k] = cmd.dependents[Len(outcomes) + k]
  /\ cmd.kind = "check" /\ (pc # "idle" \/ exit = "ok") =>
       /\ Len(outcomes) + Len(queue) = Len(cmd.specs)
       /\ \A k \in DOMAIN queue : queue[k] = cmd.specs[Len(outcomes) + k]

ExitInv ==
  pc = "idle" /\ cmd # NoCommand =>
    /\ exit = "ok" => outcomes # <<>> /\ \A k \in DOMAIN outcomes : outcomes[k].ok
    /\ outcomes # <<>> /\ (\A k \in DOMAIN outcomes : outcomes[k].ok)
         => cmd.kind = "check" \/ exit = "ok"

(* A check that ended well, and one that is going on.                      *)
Tested(spec) ==
  \E e \in Range(log) :
    /\ e.name = spec.name /\ e.version = Wanted(spec) /\ e.installed = e.version
    /\ e.files = ReadGeneratedFiles(spec.name) /\ e.files # {}
    /\ e.output.clean
    /\ ParseTestOutput(e.output)[1] > 0 /\ ParseTestOutput(e.output)[2] = 0

TestedInv ==
  cmd.kind = "check" => \A k \in DOMAIN outcomes : outcomes[k].ok => Tested(cmd.specs[k])

CheckingInv ==
  pc = "checking" =>
    LET spec == Head(queue)
    IN /\ job.name = spec.name /\ job.files = ReadGeneratedFiles(spec.name)
       /\ job.files # {} /\ Wanted(spec) # ""
       /\ job.versions = <<Wanted(spec)>> \/ (job.versions = <<>> /\ results # <<>>)
       /\ \A r \in Range(results) : Passed(r) => r.version = Wanted(spec)

(* What stands in the scratch directory, and what the results are about.   *)
MeasureInv ==
  /\ IsSequence(results) /\ IsSequence(log) /\ IsSequence(job.versions)
  /\ \A e \in Range(log) : e.output \in Outputs
  /\ scratch = [state |-> scratch.state, installed |-> scratch.installed]
  /\ job = [name |-> job.name, files |-> job.files, versions |-> job.versions]
  /\ scratch.state = "installed" => scratch.installed = Head(job.versions)
  /\ cmd.kind # "check" /\ (cmd = NoCommand \/ ~cmd.verify) => results = <<>>
  /\ \A r \in Range(results) : Claims(r) => Measured(r, job.name, job.files)
  /\ pc = "verifying" => job.name = Head(queue).dep.name /\ job.files = Written.files
  /\ pc = "meta" => \A r \in Range(results) :
                      Claims(r) => Measured(r, Head(queue).dep.name, Written.files)
  /\ \A s \in disk : s.complete /\ (\E k \in DOMAIN outcomes : outcomes[k].run = s.run) =>
       \A r \in Range(s.verify) : Claims(r) => Measured(r, s.path.name, s.files)

LoopInv == ControlInv /\ DiskInv /\ ItemsInv /\ KeptInv /\ CoverInv /\ ExitInv

CommandsInv == TypeOK /\ LoopInv /\ TestedInv /\ CheckingInv /\ MeasureInv

(* Two targets at the roots of their repositories that get one name have   *)
(* one identity: the only hash in such a name is that of a changed text.   *)
LEMMA NamesApart ==
  ASSUME NEW t, NEW u, t.rel = <<>>, u.rel = <<>>, DetectTargetName(t) = DetectTargetName(u)
  PROVE  Identity(t) = Identity(u)
<1>1. ASSUME NEW v, v.rel = <<>>
      PROVE  /\ Identity(v) = <<Identity(v)[1], <<>>>>
             /\ DetectTargetName(v) = NormalizeTargetName(Identity(v)[1])
  <2>1. Identity(v) = <<Identity(v)[1], Identity(v)[2]>> /\ Identity(v)[2] = <<>>
    BY <1>1 DEF Identity
  <2>2. DetectTargetName(v).name = NormalizeTargetName(Identity(v)[1]).name
        /\ DetectTargetName(v).hashes = NormalizeTargetName(Identity(v)[1]).hashes
    BY <2>1 DEF DetectTargetName
  <2> QED BY <2>1, <2>2 DEF DetectTargetName, NormalizeTargetName
<1> DEFINE a == Identity(t)[1]
           b == Identity(u)[1]
<1>2. NormalizeTargetName(a) = NormalizeTargetName(b)
  BY <1>1
<1>3. a = b
  <2> HIDE DEF a, b
  <2> QED BY <1>2 DEF NormalizeTargetName
<1> QED BY <1>1, <1>3

(* findDep returns what was asked for, by name or by purl, or nothing.     *)
LEMMA FoundDep ==
  ASSUME NEW t, IsSequence(t.deps), \A d \in Range(t.deps) : IsDep(d), NEW n,
         FindDep(t, n) # NoDep
  PROVE  IsDep(FindDep(t, n)) /\ n \in {FindDep(t, n).name, FindDep(t, n).purl}
<1> DEFINE known == {k \in DOMAIN t.deps : n \in {t.deps[k].name, t.deps[k].purl}}
           indexed == {k \in DOMAIN t.deps : t.deps[k].eco \in Indexed}
<1>1. known \subseteq Nat /\ known \subseteq DOMAIN t.deps
  BY ListFacts
<1>2. CASE known # {}
  <2>1. Min(known) \in known
    <3>1. \E x \in known : \A y \in known : x <= y
      BY <1>1, <1>2, Smallest
    <3> HIDE DEF known
    <3> QED BY <3>1 DEF Min
  <2>2. FindDep(t, n) = t.deps[Min(known)]
    BY <1>2 DEF FindDep
  <2>3. t.deps[Min(known)] \in Range(t.deps)
    BY <2>1 DEF Range
  <2> QED BY <2>1, <2>2, <2>3
<1>3. CASE known = {}
  <2> DEFINE eco == t.deps[Min(indexed)].eco
             d == [NoDep EXCEPT !.name = n, !.eco = eco, !.purl = Purl(eco, n)]
  <2>1. FindDep(t, n) = d
    BY <1>3 DEF FindDep
  <2>2. d.name = n /\ IsDep(d)
    <3> HIDE DEF eco
    <3> QED BY DEF NoDep, IsDep
  <2> QED BY <2>1, <2>2
<1> QED BY <1>2, <1>3

(* What gen goes through: all that was asked for by name and that exists.  *)
LEMMA Selected ==
  ASSUME NEW t, IsSequence(t.deps), \A d \in Range(t.deps) : IsDep(d),
         NEW names, IsSequence(names), NEW overrides
  PROVE  LET deps == SelectGenDeps(t, names, overrides)
         IN /\ IsSequence(deps)
            /\ \A n \in Range(names) : FindDep(t, n) # NoDep =>
                 \E k \in DOMAIN deps : n \in {deps[k].name, deps[k].purl}
<1> DEFINE conf(d) == DependencyConfigFor(d, overrides)
           selected == SelectDeps(t, names)
           skipped == {d \in Range(selected) : names = <<>> /\ conf(d).skip = "yes"}
           kept == Keep(selected, Range(selected) \ skipped)
           versioned(d) ==
             IF conf(d).baseline # "" THEN [d EXCEPT !.version = conf(d).baseline] ELSE d
           found == [k \in DOMAIN names |-> FindDep(t, names[k])]
           deps == [k \in DOMAIN kept |-> versioned(kept[k])]
<1>1. SelectGenDeps(t, names, overrides) = deps
  BY DEF SelectGenDeps
<1>2. IsSequence(found)
  <2>1. found = [k \in 1..Len(names) |-> found[k]] /\ Len(names) \in Nat
    BY ListFacts
  <2> HIDE DEF found
  <2> QED BY <2>1, FunctionList
<1>3. /\ IsSequence(selected)
      /\ names # <<>> => Range(selected) = Range(found) \ {NoDep}
  <2> DEFINE direct == {d \in Range(t.deps) : d.direct /\ d.scope \notin {"development", "dev"}}
  <2>1. selected = IF names = <<>> THEN Keep(t.deps, direct)
                   ELSE Keep(found, Range(found) \ {NoDep})
    BY DEF SelectDeps
  <2> HIDE DEF selected, direct, found
  <2> QED BY <2>1, <1>2, KeepElements
<1>4. IsSequence(kept) /\ Range(kept) = Range(selected) \ skipped
  <2> HIDE DEF selected
  <2> QED BY <1>3, KeepElements
<1> HIDE DEF selected, kept
<1>5. IsSequence(deps)
  <2>1. deps = [k \in 1..Len(kept) |-> deps[k]] /\ Len(kept) \in Nat
    BY <1>4, ListFacts
  <2> HIDE DEF deps
  <2> QED BY <2>1, FunctionList
<1>6. ASSUME NEW n \in Range(names), FindDep(t, n) # NoDep
      PROVE  \E k \in DOMAIN deps : n \in {deps[k].name, deps[k].purl}
  <2>1. names # <<>>
    BY ListFacts
  <2> DEFINE d == FindDep(t, n)
  <2>2. d \in Range(found)
    <3>1. PICK k \in DOMAIN names : names[k] = n
      BY DEF Range
    <3> QED BY <3>1 DEF Range
  <2>3. d \in Range(kept)
    <3> HIDE DEF d, found
    <3> QED BY <2>1, <2>2, <1>3, <1>4, <1>6 DEF d
  <2>4. PICK k \in DOMAIN kept : kept[k] = d
    BY <2>3, <1>4, ListFacts
  <2>5. IsDep(d) /\ n \in {d.name, d.purl}
    BY <1>6, FoundDep
  <2>6. versioned(d).name = d.name /\ versioned(d).purl = d.purl
    <3> HIDE DEF d
    <3>1. d = [f \in DOMAIN NoDep |-> d[f]]
      BY <2>5 DEF IsDep
    <3>2. \A x : [d EXCEPT !.version = x].name = d.name /\ [d EXCEPT !.version = x].purl = d.purl
      BY <3>1 DEF NoDep
    <3> QED BY <3>2
  <2>7. deps[k] = versioned(d) /\ k \in DOMAIN deps
    BY <2>4
  <2> HIDE DEF d, deps, versioned
  <2> QED BY <2>5, <2>6, <2>7
<1> QED BY <1>1, <1>5, <1>6

-----------------------------------------------------------------------------
(* The kinds of steps.                                                     *)

(* An element of the loop is finished.                                     *)
Finishes(ok, run) ==
  /\ IsSequence(queue') /\ IsSequence(outcomes') /\ outcomes' # <<>>
  /\ Len(queue') = Len(queue) - 1 /\ Len(outcomes') = Len(outcomes) + 1
  /\ Len(queue) \in Nat \ {0} /\ Len(outcomes) \in Nat
  /\ 1 \in DOMAIN queue /\ queue[1] = Head(queue)
  /\ \A k \in DOMAIN queue' : k + 1 \in DOMAIN queue /\ queue'[k] = queue[k + 1]
  /\ \A k \in DOMAIN queue : k # 1 => k - 1 \in DOMAIN queue'
  /\ DOMAIN outcomes' = DOMAIN outcomes \cup {Len(outcomes) + 1}
  /\ \A k \in DOMAIN outcomes : outcomes'[k] = outcomes[k] /\ k < Len(outcomes) + 1
  /\ outcomes'[Len(outcomes) + 1] = [item |-> Head(queue), ok |-> ok, run |-> run]
  /\ cmd' = cmd /\ exit' = exit /\ started' = started
  /\ queue' = <<>> <=> pc' = "end"
  /\ pc' \in {"end", "stage", "clone", "suite"}
  /\ pc' = "stage" => cmd.kind = "gen"
  /\ pc' = "clone" => cmd.kind = "corpus"
  /\ pc' = "suite" => cmd.kind = "check"

Command == GenCommands \cup CorpusCommands \cup CheckCommands

LEMMA Kinds ==
  /\ \A c \in GenCommands : c.kind = "gen"
  /\ \A c \in CorpusCommands : c.kind = "corpus"
  /\ \A c \in CheckCommands : c.kind = "check"
  /\ NoCommand.kind = "none"
  BY CommandsAssumption DEF NoCommand

LEMMA FinishFacts ==
  ASSUME TypeOK, ControlInv, pc \notin {"idle", "end"}, NEW ok, NEW run,
         Finish(Head(queue), ok, run)
  PROVE  Finishes(ok, run)
<1> DEFINE o == [item |-> Head(queue), ok |-> ok, run |-> run]
<1>1. /\ outcomes' = Append(outcomes, o) /\ queue' = Tail(queue)
      /\ cmd' = cmd /\ exit' = exit /\ started' = started
  BY DEF Finish
<1>2. pc' = IF Tail(queue) = <<>> THEN "end"
            ELSE IF cmd.kind = "gen" THEN "stage"
            ELSE IF cmd.kind = "corpus" THEN "clone" ELSE "suite"
  BY Zenon DEF Finish
<1>3. cmd.kind \in {"gen", "corpus", "check"}
  BY Kinds DEF TypeOK, ControlInv
<1>4. queue # <<>> /\ IsSequence(queue) /\ IsSequence(outcomes)
  BY DEF TypeOK, ControlInv
<1> HIDE DEF o
<1>5. /\ IsSequence(queue') /\ Len(queue') = Len(queue) - 1 /\ Len(queue) \in Nat \ {0}
      /\ 1 \in DOMAIN queue /\ queue[1] = Head(queue)
      /\ \A k \in DOMAIN queue' : k + 1 \in DOMAIN queue /\ queue'[k] = queue[k + 1]
      /\ \A k \in DOMAIN queue : k # 1 => k - 1 \in DOMAIN queue'
  BY <1>1, <1>4, TailList
<1>6. /\ IsSequence(outcomes') /\ outcomes' # <<>>
      /\ Len(outcomes') = Len(outcomes) + 1 /\ Len(outcomes) \in Nat
      /\ DOMAIN outcomes' = DOMAIN outcomes \cup {Len(outcomes) + 1}
      /\ \A k \in DOMAIN outcomes : outcomes'[k] = outcomes[k] /\ k < Len(outcomes) + 1
      /\ outcomes'[Len(outcomes) + 1] = o
  BY <1>1, <1>4, AppendList
<1>7. /\ queue' = <<>> <=> pc' = "end"
      /\ pc' \in {"end", "stage", "clone", "suite"}
      /\ pc' = "stage" => cmd.kind = "gen"
      /\ pc' = "clone" => cmd.kind = "corpus"
      /\ pc' = "suite" => cmd.kind = "check"
  BY <1>1, <1>2, <1>3
<1> QED BY <1>1, <1>5, <1>6, <1>7 DEF Finishes, o

LEMMA EmptyList ==
  IsSequence(<<>>) /\ DOMAIN <<>> = {} /\ Range(<<>>) = {} /\ Len(<<>>) = 0
<1>1. DOMAIN <<>> = {} /\ <<>> \in Seq({}) /\ Len(<<>>) = 0
  OBVIOUS
<1> QED BY <1>1 DEF IsSequence, Range

LEMMA CommandsInit == Init => CommandsInv
<1> SUFFICES ASSUME Init PROVE CommandsInv
  OBVIOUS
<1>1. /\ pc = "idle" /\ cmd = NoCommand /\ queue = <<>> /\ outcomes = <<>> /\ exit = "ok"
      /\ started = 0 /\ runs = 0 /\ disk = {} /\ job = NoJob /\ scratch = NoScratch
      /\ results = <<>> /\ log = <<>>
  BY DEF Init, VerificationInit
<1>2. scratch.state = "none" /\ job.versions = <<>>
  BY <1>1 DEF NoScratch, NoJob
<1>3. TypeOK
  <2>1. pc \in States /\ started \in 0..MaxCommands
    BY <1>1, CommandsAssumption DEF States
  <2>2. DOMAIN outcomes = {} /\ disk = {}
    BY <1>1, EmptyList
  <2> QED BY <1>1, <1>2, <2>1, <2>2 DEF TypeOK
<1>4. ControlInv /\ DiskInv /\ KeptInv /\ ExitInv /\ CheckingInv
  BY <1>1, EmptyList DEF ControlInv, DiskInv, KeptInv, ExitInv, CheckingInv, Incomplete
<1>5. ItemsInv /\ CoverInv /\ TestedInv
  BY <1>1, EmptyList, Kinds DEF ItemsInv, CoverInv, TestedInv, Incomplete
<1>6. MeasureInv
  <2>1. /\ scratch = [state |-> scratch.state, installed |-> scratch.installed]
        /\ job = [name |-> job.name, files |-> job.files, versions |-> job.versions]
    BY <1>1 DEF NoScratch, NoJob
  <2> QED BY <1>1, <1>2, <2>1, EmptyList DEF MeasureInv
<1> QED BY <1>3, <1>4, <1>5, <1>6 DEF CommandsInv, LoopInv

-----------------------------------------------------------------------------
(* A command starts.                                                       *)

Starts(c, state, elements) ==
  /\ cmd' = c /\ outcomes' = <<>> /\ exit' = "ok" /\ queue' = elements
  /\ started \in Nat /\ started < MaxCommands /\ started' = started + 1
  /\ pc' = IF elements = <<>> THEN "end" ELSE state
  /\ job' = NoJob /\ scratch' = NoScratch /\ results' = <<>> /\ log' = <<>>
  /\ runs' = runs /\ disk' = disk

LEMMA StartsFacts ==
  ASSUME TypeOK, NEW c, NEW state, NEW elements, Start(c, state, elements)
  PROVE  Starts(c, state, elements)
<1>1. started \in Nat
  BY CommandsAssumption DEF TypeOK
<1> QED BY <1>1 DEF Start, Starts

LEMMA StartKeeps ==
  ASSUME CommandsInv, NEW c \in Command, NEW state, NEW elements, IsSequence(elements),
         Starts(c, state, elements),
         \/ state = "index" /\ c.kind = "gen"
         \/ state = "clone" /\ c.kind = "corpus"
         \/ state = "suite" /\ c.kind = "check"
  PROVE  TypeOK' /\ ControlInv' /\ DiskInv' /\ KeptInv' /\ ExitInv' /\ TestedInv'
         /\ CheckingInv' /\ MeasureInv'
<1>1. /\ cmd' = c /\ outcomes' = <<>> /\ exit' = "ok" /\ queue' = elements
      /\ started \in Nat /\ started < MaxCommands /\ started' = started + 1
      /\ pc' \in {"end", "index", "clone", "suite"}
      /\ pc' # "end" <=> elements # <<>>
      /\ pc' \in {"end", state}
      /\ job' = NoJob /\ scratch' = NoScratch /\ results' = <<>> /\ log' = <<>>
      /\ runs' = runs /\ disk' = disk
  BY DEF Starts
<1>2. /\ scratch'.state = "none" /\ job'.versions = <<>> /\ DOMAIN outcomes' = {}
      /\ scratch' = [state |-> scratch'.state, installed |-> scratch'.installed]
      /\ job' = [name |-> job'.name, files |-> job'.files, versions |-> job'.versions]
  BY <1>1, EmptyList DEF NoScratch, NoJob
<1>3. ~Incomplete' /\ runs \in Nat
  BY <1>1 DEF Incomplete, CommandsInv, LoopInv, ControlInv
<1>4. c # NoCommand
  BY Kinds DEF Command
<1>5. TypeOK'
  <2>1. started' \in 0..MaxCommands
    BY <1>1, CommandsAssumption
  <2>2. \A s \in disk' : s.run \in 1..runs' /\ {u \in disk' : u.path = s.path} = {s}
    BY <1>1 DEF CommandsInv, TypeOK, At
  <2>3. \A s \in disk' : s.run \in 1..runs' /\ At(s.path)' = {s}
    BY <2>2 DEF At
  <2>4. pc' \in States /\ cmd' \in GenCommands \cup CorpusCommands \cup CheckCommands
    BY <1>1 DEF States, Command
  <2>5. scratch'.state \in {"none", "fresh", "ready", "installed"}
        /\ (scratch'.state = "installed" => job'.versions # <<>> /\ pc' \in {"verifying", "checking"})
    BY <1>2
  <2> QED BY <1>1, <1>2, <2>1, <2>3, <2>4, <2>5 DEF TypeOK
<1>6. ControlInv'
  BY <1>1, <1>3, <1>4, EmptyList DEF ControlInv
<1>7. DiskInv'
  BY <1>1, <1>3 DEF DiskInv, CommandsInv, LoopInv
<1>8. KeptInv' /\ ExitInv' /\ TestedInv' /\ CheckingInv'
  BY <1>1, <1>2 DEF KeptInv, ExitInv, TestedInv, CheckingInv
<1>9. MeasureInv'
  <2>1. Range(results)' = {} /\ Range(log)' = {}
    BY <1>1, EmptyList
  <2> QED BY <1>1, <1>2, <2>1, EmptyList DEF MeasureInv
<1> QED BY <1>5, <1>6, <1>7, <1>8, <1>9

LEMMA StartCorpusKeeps ==
  ASSUME CommandsInv, StartCorpus
  PROVE  CommandsInv'
<1>1. PICK c \in CorpusCommands : Start(c, "clone", c.dependents)
  BY DEF StartCorpus
<1>2. c \in Command /\ IsSequence(c.dependents) /\ c.kind = "corpus"
  BY CommandsAssumption DEF Command
<1>3. Starts(c, "clone", c.dependents)
  BY <1>1, StartsFacts DEF CommandsInv
<1>4. TypeOK' /\ ControlInv' /\ DiskInv' /\ KeptInv' /\ ExitInv' /\ TestedInv'
      /\ CheckingInv' /\ MeasureInv'
  BY <1>2, <1>3, StartKeeps
<1>5. cmd' = c /\ outcomes' = <<>> /\ queue' = c.dependents /\ pc' \in {"end", "clone"}
  BY <1>3 DEF Starts
<1>6. ItemsInv'
  BY <1>2, <1>5, EmptyList DEF ItemsInv, Incomplete
<1>7. CoverInv'
  <2>1. Len(c.dependents) \in Nat /\ \A k \in DOMAIN c.dependents : k \in Nat
    BY <1>2, ListFacts
  <2>2. /\ Len(outcomes') = 0
        /\ \A k \in DOMAIN c.dependents : c.dependents[Len(outcomes') + k] = c.dependents[k]
    BY <1>5, <2>1, EmptyList
  <2> QED BY <1>2, <1>5, <2>1, <2>2 DEF CoverInv
<1> QED BY <1>4, <1>6, <1>7 DEF CommandsInv, LoopInv

LEMMA StartCheckKeeps ==
  ASSUME CommandsInv, StartCheck
  PROVE  CommandsInv'
<1>1. PICK c \in CheckCommands : Start(c, "suite", c.specs)
  BY DEF StartCheck
<1>2. c \in Command /\ IsSequence(c.specs) /\ c.kind = "check"
  BY CommandsAssumption DEF Command
<1>3. Starts(c, "suite", c.specs)
  BY <1>1, StartsFacts DEF CommandsInv
<1>4. TypeOK' /\ ControlInv' /\ DiskInv' /\ KeptInv' /\ ExitInv' /\ TestedInv'
      /\ CheckingInv' /\ MeasureInv'
  BY <1>2, <1>3, StartKeeps
<1>5. cmd' = c /\ outcomes' = <<>> /\ queue' = c.specs /\ pc' \in {"end", "suite"}
  BY <1>3 DEF Starts
<1>6. ItemsInv'
  BY <1>2, <1>5, EmptyList DEF ItemsInv, Incomplete
<1>7. CoverInv'
  <2>1. Len(c.specs) \in Nat /\ \A k \in DOMAIN c.specs : k \in Nat
    BY <1>2, ListFacts
  <2>2. Len(outcomes') = 0 /\ \A k \in DOMAIN c.specs : c.specs[Len(outcomes') + k] = c.specs[k]
    BY <1>5, <2>1, EmptyList
  <2> QED BY <1>2, <1>5, <2>1, <2>2 DEF CoverInv
<1> QED BY <1>4, <1>6, <1>7 DEF CommandsInv, LoopInv

LEMMA StartGenKeeps ==
  ASSUME CommandsInv, StartGen
  PROVE  CommandsInv'
<1>1. PICK c \in GenCommands : \E from, root, overrides, accepted :
        LET deps == SelectGenDeps(c.target, c.deps, overrides)
        IN Start(c, "index", IF accepted
                             THEN [k \in DOMAIN deps |-> Item(c.target, deps[k], from, root)]
                             ELSE <<>>)
  BY DEF StartGen
<1>2. PICK from, root, overrides, accepted :
        LET deps == SelectGenDeps(c.target, c.deps, overrides)
        IN Start(c, "index", IF accepted
                             THEN [k \in DOMAIN deps |-> Item(c.target, deps[k], from, root)]
                             ELSE <<>>)
  BY <1>1
<1> DEFINE deps == SelectGenDeps(c.target, c.deps, overrides)
           items == [k \in DOMAIN deps |-> Item(c.target, deps[k], from, root)]
           elements == IF accepted THEN items ELSE <<>>
<1>3. /\ c \in Command /\ c.kind = "gen" /\ IsSequence(c.deps) /\ IsSequence(c.target.deps)
      /\ \A d \in Range(c.target.deps) : IsDep(d)
  BY CommandsAssumption DEF Command
<1>4. IsSequence(deps) /\ \A n \in Range(c.deps) : FindDep(c.target, n) # NoDep =>
                            \E k \in DOMAIN deps : n \in {deps[k].name, deps[k].purl}
  BY <1>3, Selected
<1> HIDE DEF deps
<1>5. IsSequence(elements)
  <2>1. items = [k \in 1..Len(deps) |-> items[k]] /\ Len(deps) \in Nat
    BY <1>4, ListFacts
  <2> HIDE DEF items
  <2>2. IsSequence(items)
    BY <2>1, FunctionList
  <2> QED BY <2>2, EmptyList
<1>6. \A k \in DOMAIN items : /\ items[k].dep = deps[k] /\ items[k].identity = Identity(c.target)
                              /\ items[k].path.name = items[k].dep.name
  BY DEF Item
<1>7. elements # <<>> => elements = items
  OBVIOUS
<1>8. DOMAIN items = DOMAIN deps
  OBVIOUS
<1>9. Start(c, "index", elements)
  BY <1>2 DEF deps
<1> HIDE DEF elements, items
<1>10. Starts(c, "index", elements)
  BY <1>9, StartsFacts DEF CommandsInv
<1>11. TypeOK' /\ ControlInv' /\ DiskInv' /\ KeptInv' /\ ExitInv' /\ TestedInv'
       /\ CheckingInv' /\ MeasureInv'
  BY <1>3, <1>5, <1>10, StartKeeps
<1>12. /\ cmd' = c /\ outcomes' = <<>> /\ queue' = elements
       /\ pc' \in {"end", "index"} /\ (pc' = "index" => elements # <<>>)
  BY <1>10 DEF Starts
<1>13. ASSUME NEW k \in DOMAIN elements PROVE OfCommand(elements[k])'
  <2>1. elements = items
    BY <1>7, EmptyList
  <2> QED BY <1>3, <1>6, <1>12, <2>1 DEF OfCommand
<1>14. ItemsInv'
  <2>1. \A k \in DOMAIN queue' : OfCommand(queue[k])'
    BY <1>12, <1>13 DEF OfCommand
  <2>2. pc' = "index" => 1 \in DOMAIN elements /\ Head(elements) = elements[1]
    BY <1>5, <1>12, TailList
  <2>3. pc' = "index" => OfCommand(Head(queue))'
    BY <1>12, <1>13, <2>2 DEF OfCommand
  <2> QED BY <1>12, <2>1, <2>3, EmptyList DEF ItemsInv, Incomplete
<1>15. CoverInv'
  <2>1. ASSUME elements # <<>>, NEW n \in Range(c.deps), FindDep(c.target, n) # NoDep
        PROVE  \E k \in DOMAIN elements : n \in Names(elements[k])
    <3>1. PICK k \in DOMAIN deps : n \in {deps[k].name, deps[k].purl}
      BY <1>4, <2>1
    <3>2. k \in DOMAIN elements /\ n \in Names(elements[k])
      BY <1>6, <1>7, <1>8, <2>1, <3>1 DEF Names
    <3> QED BY <3>2
  <2> QED BY <1>3, <1>12, <2>1 DEF CoverInv
<1> QED BY <1>11, <1>14, <1>15 DEF CommandsInv, LoopInv

-----------------------------------------------------------------------------
(* A command ends.                                                         *)

LEMMA ViewKept ==
  ASSUME cmd' = cmd, disk' = disk
  PROVE  /\ \A n : ReadGeneratedFiles(n)' = ReadGeneratedFiles(n)
         /\ \A spec : Wanted(spec)' = Wanted(spec)
  BY DEF ReadGeneratedFiles, IsBelow, Wanted

LEMMA TestedKept ==
  ASSUME cmd' = cmd, disk' = disk, Range(log) \subseteq Range(log)', NEW spec, Tested(spec)
  PROVE  Tested(spec)'
<1>1. ReadGeneratedFiles(spec.name)' = ReadGeneratedFiles(spec.name)
      /\ Wanted(spec)' = Wanted(spec)
  BY ViewKept
<1> QED BY <1>1 DEF Tested

LEMMA ExitKeeps ==
  ASSUME CommandsInv, NEW status \in {"ok", "error"}, Exit(status),
         UNCHANGED <<runs, disk, verification>>,
         \/ pc = "end"
         \/ pc = "index" /\ cmd.kind = "gen"
         \/ pc = "suite",
         status = "ok" => pc = "end" /\ outcomes # <<>> /\ \A k \in DOMAIN outcomes : outcomes[k].ok,
         status = "error" => cmd.kind = "check" \/ outcomes = <<>>
                             \/ \E k \in DOMAIN outcomes : ~outcomes[k].ok
  PROVE  CommandsInv'
<1>1. /\ pc' = "idle" /\ exit' = status /\ queue' = <<>> /\ cmd' = cmd /\ outcomes' = outcomes
      /\ started' = started /\ runs' = runs /\ disk' = disk
      /\ job' = job /\ scratch' = scratch /\ results' = results /\ log' = log
  BY DEF Exit, verification
<1>2. ~Incomplete /\ ~Incomplete' /\ pc \in {"end", "index", "suite"}
  BY <1>1 DEF Incomplete
<1>3. TypeOK'
  BY <1>1, <1>2 DEF CommandsInv, TypeOK, At, States
<1>4. ControlInv'
  BY <1>1, <1>2, EmptyList DEF CommandsInv, LoopInv, ControlInv
<1>5. DiskInv'
  BY <1>1, <1>2 DEF CommandsInv, LoopInv, DiskInv
<1>6. ItemsInv'
  BY <1>1, <1>2, EmptyList DEF CommandsInv, LoopInv, ItemsInv, OfCommand
<1>7. KeptInv'
  BY <1>1, <1>2 DEF CommandsInv, LoopInv, KeptInv, Replaced
<1>8. CoverInv'
  <2>1. outcomes # <<>> => queue = <<>> \/ cmd.kind = "check"
    BY DEF CommandsInv, LoopInv, ControlInv, CoverInv
  <2>2. exit' = "ok" => queue = <<>> /\ pc # "idle"
    BY <1>1 DEF CommandsInv, LoopInv, ControlInv
  <2>3. CoverInv
    BY DEF CommandsInv, LoopInv
  <2>4. cmd.kind = "gen" /\ outcomes # <<>> =>
          \A n \in Range(cmd.deps) : FindDep(cmd.target, n) # NoDep =>
            \E k \in DOMAIN outcomes : n \in Names(outcomes[k].item)
    BY <2>1, <2>3, EmptyList DEF CoverInv
  <2>5. cmd.kind = "corpus" /\ outcomes # <<>> => Len(outcomes) + Len(<<>>) = Len(cmd.dependents)
    BY <2>1, <2>3 DEF CoverInv
  <2>6. cmd.kind = "check" /\ exit' = "ok" => Len(outcomes) + Len(<<>>) = Len(cmd.specs)
    BY <2>2, <2>3 DEF CoverInv
  <2> QED BY <1>1, <2>4, <2>5, <2>6, EmptyList DEF CoverInv
<1>9. ExitInv'
  BY <1>1 DEF ExitInv
<1>10. TestedInv'
  <2> SUFFICES ASSUME cmd.kind = "check", NEW k \in DOMAIN outcomes, outcomes[k].ok,
                      NEW spec, spec = cmd.specs[k]
               PROVE  Tested(spec)'
    BY <1>1 DEF TestedInv
  <2>1. Tested(spec)
    BY DEF CommandsInv, TestedInv
  <2> QED BY <1>1, <2>1, TestedKept
<1>11. CheckingInv'
  BY <1>1 DEF CheckingInv
<1>12. MeasureInv'
  BY <1>1, <1>2 DEF CommandsInv, MeasureInv, Measured
<1> QED BY <1>3, <1>4, <1>5, <1>6, <1>7, <1>8, <1>9, <1>10, <1>11, <1>12 DEF CommandsInv, LoopInv

LEMMA NothingKeeps ==
  ASSUME CommandsInv, Nothing
  PROVE  CommandsInv'
  BY ExitKeeps DEF Nothing

LEMMA EndKeeps ==
  ASSUME CommandsInv, End
  PROVE  CommandsInv'
<1>1. PICK status \in {"ok", "error"} :
        /\ Exit(status) /\ (status = "ok" <=> \A k \in DOMAIN outcomes : outcomes[k].ok)
        /\ pc = "end" /\ outcomes # <<>> /\ UNCHANGED <<runs, disk, verification>>
  BY DEF End
<1> QED BY <1>1, ExitKeeps

LEMMA CheckRefusedKeeps ==
  ASSUME CommandsInv, CheckRefused
  PROVE  CommandsInv'
<1>1. cmd.kind = "check"
  BY DEF CheckRefused, CommandsInv, LoopInv, ControlInv
<1> QED BY <1>1, ExitKeeps DEF CheckRefused

LEMMA IndexFailsGenKeeps ==
  ASSUME CommandsInv, IndexFails, cmd.kind = "gen"
  PROVE  CommandsInv'
<1>1. pc = "index" /\ Exit("error") /\ UNCHANGED <<runs, disk, verification>>
  BY DEF IndexFails
<1>2. outcomes = <<>>
  BY <1>1 DEF CommandsInv, LoopInv, CoverInv
<1> QED BY <1>1, <1>2, ExitKeeps

-----------------------------------------------------------------------------
(* A verification goes on.                                                 *)

(* pc moves along the steps of one element.                                *)
Moves ==
  \/ pc' = pc
  \/ pc = "index" /\ pc' = "stage"
  \/ pc = "verify" /\ pc' \in {"verifying", "meta"}
  \/ pc = "verifying" /\ pc' = "meta"
  \/ pc = "suite" /\ pc' = "checking"

ScratchType ==
  /\ scratch.state \in {"none", "fresh", "ready", "installed"}
  /\ scratch.state = "installed" => job.versions # <<>> /\ pc \in {"verifying", "checking"}

LEMMA MoveKeeps ==
  ASSUME CommandsInv, UNCHANGED <<cmd, queue, outcomes, exit, started, runs, disk>>, Moves,
         ScratchType'
  PROVE  TypeOK' /\ LoopInv'
<1>1. pc' \in States /\ (pc' # pc => pc \notin {"idle", "end"} /\ pc' \notin {"idle", "end"})
  BY DEF Moves, CommandsInv, TypeOK, States
<1>2. TypeOK'
  <2>1. \A s \in disk : s.run \in 1..runs /\ {u \in disk : u.path = s.path} = {s}
    BY DEF CommandsInv, TypeOK, At
  <2>2. \A s \in disk' : s.run \in 1..runs' /\ At(s.path)' = {s}
    BY <2>1 DEF At
  <2> QED BY <1>1, <2>2 DEF CommandsInv, TypeOK, ScratchType
<1>3. Written' = Written
  BY DEF Written, At
<1>4. Incomplete' <=> Incomplete
  BY DEF Moves, Incomplete
<1>5. ControlInv'
  BY <1>1, <1>4 DEF CommandsInv, LoopInv, ControlInv, Moves, Incomplete
<1>6. DiskInv'
  BY <1>3, <1>4 DEF CommandsInv, LoopInv, DiskInv
<1>7. ItemsInv'
  <2>1. pc' \in {"index", "stage"} => pc \in {"index", "stage"}
    BY DEF Moves
  <2> QED BY <1>4, <2>1 DEF CommandsInv, LoopInv, ItemsInv, OfCommand
<1>8. KeptInv'
  BY <1>4 DEF CommandsInv, LoopInv, KeptInv, Replaced
<1>9. CoverInv'
  <2>1. (pc' = "index" => pc = "index") /\ (pc' = "clone" => pc = "clone")
    BY DEF Moves
  <2>2. pc' # "idle" => pc # "idle"
    BY <1>1
  <2> QED BY <2>1, <2>2 DEF CommandsInv, LoopInv, CoverInv
<1>10. ExitInv'
  <2>1. pc' = "idle" => pc = "idle"
    BY <1>1
  <2> QED BY <2>1 DEF CommandsInv, LoopInv, ExitInv
<1> QED BY <1>2, <1>5, <1>6, <1>7, <1>8, <1>9, <1>10 DEF LoopInv

LEMMA TestedInvKept ==
  ASSUME CommandsInv, UNCHANGED <<cmd, outcomes, disk>>, Range(log) \subseteq Range(log)'
  PROVE  TestedInv'
<1> SUFFICES ASSUME cmd.kind = "check", NEW k \in DOMAIN outcomes, outcomes[k].ok,
                    NEW spec, spec = cmd.specs[k]
             PROVE  Tested(spec)'
  BY DEF TestedInv
<1>1. Tested(spec)
  BY DEF CommandsInv, TestedInv
<1> QED BY <1>1, TestedKept

LEMMA MeasuredKept ==
  ASSUME Range(log) \subseteq Range(log)'
  PROVE  \A r, n, f : Measured(r, n, f) => Measured(r, n, f)'
  BY DEF Measured

LEMMA ErrorClaimsNothing == \A v : ~Claims(ErrorResult(v)) /\ ~Passed(ErrorResult(v))
  BY DEF Claims, Passed, ErrorResult

LEMMA SingleList ==
  ASSUME NEW x
  PROVE  /\ IsSequence(<<x>>) /\ Range(<<x>>) = {x} /\ <<x>> # <<>> /\ <<x>>[1] = x
         /\ Head(<<x>>) = x /\ Tail(<<x>>) = <<>> /\ DOMAIN <<x>> = {1} /\ Len(<<x>>) = 1
<1>1. <<x>> \in Seq({x}) /\ DOMAIN <<x>> = {1} /\ <<x>>[1] = x /\ Len(<<x>>) = 1
  OBVIOUS
<1>2. Range(<<x>>) = {x}
  BY <1>1 DEF Range
<1>3. Head(<<x>>) = x /\ <<x>> # <<>>
  OBVIOUS
<1>4. Tail(<<x>>) = <<>>
  <2>1. Len(Tail(<<x>>)) = 0 /\ Tail(<<x>>) \in Seq({x})
    BY <1>1, <1>3, HeadTailProperties
  <2> QED BY <2>1
<1> QED BY <1>1, <1>2, <1>3, <1>4 DEF IsSequence

(* What VerifyMatrix adds to the results, it can show.                     *)
Adds(new) ==
  /\ IsSequence(results') /\ Range(results)' \subseteq Range(results) \cup new
  /\ IsSequence(log') /\ Range(log) \subseteq Range(log)'
  /\ \A e \in Range(log)' : e.output \in Outputs
  /\ job' = [name |-> job.name, files |-> job.files, versions |-> job'.versions]
  /\ job'.name = job.name /\ job'.files = job.files
  /\ IsSequence(job'.versions)
  /\ scratch' = [state |-> scratch'.state, installed |-> scratch'.installed]
  /\ scratch'.state \in {"none", "fresh", "ready", "installed"}
  /\ scratch'.state = "installed" => scratch'.installed = Head(job'.versions)
                                     /\ job'.versions # <<>>
  /\ \/ job'.versions = job.versions /\ results' = results
     \/ job'.versions = Tail(job.versions) /\ job.versions # <<>>
        /\ Head(job.versions) = "" /\ results' = results
     \/ job'.versions = Tail(job.versions) /\ job.versions # <<>> /\ results' # <<>>
     \/ job'.versions = <<>> /\ results' # <<>>

LEMMA RunTestsAdds ==
  ASSUME MeasureInv, RunTests, job.versions # <<>>
  PROVE  \E r : /\ Adds({r}) /\ r.version = Head(job.versions)
                /\ \A n, f : n = job.name /\ f = job.files => Measured(r, n, f)'
<1>1. PICK o \in Outputs :
        LET version == Head(job.versions)
            count == ParseTestOutput(o)
        IN /\ log' = Append(log, [name |-> job.name, version |-> version, files |-> job.files,
                                  installed |-> scratch.installed, output |-> o])
           /\ results' = Append(results, [version |-> version, pass |-> count[1],
                                          fail |-> count[2], error |-> ~o.clean])
  BY DEF RunTests
<1>2. PICK version : version = Head(job.versions)
  OBVIOUS
<1> DEFINE count == ParseTestOutput(o)
<1>3. PICK e : e = [name |-> job.name, version |-> version, files |-> job.files,
                    installed |-> scratch.installed, output |-> o]
  OBVIOUS
<1>4. PICK r : r = [version |-> version, pass |-> count[1], fail |-> count[2],
                    error |-> ~o.clean]
  OBVIOUS
<1>5. log' = Append(log, e) /\ results' = Append(results, r)
  BY <1>1, <1>2, <1>3, <1>4
<1>6. /\ scratch.state = "installed"
      /\ job' = [job EXCEPT !.versions = Tail(@)]
      /\ scratch' = [scratch EXCEPT !.state = "ready"]
  BY DEF RunTests
<1>7. /\ IsSequence(results) /\ IsSequence(log) /\ IsSequence(job.versions)
      /\ \A x \in Range(log) : x.output \in Outputs
      /\ scratch = [state |-> scratch.state, installed |-> scratch.installed]
      /\ job = [name |-> job.name, files |-> job.files, versions |-> job.versions]
      /\ scratch.installed = version
  BY <1>2, <1>6 DEF MeasureInv
<1>8. job' = [name |-> job.name, files |-> job.files, versions |-> Tail(job.versions)]
  BY <1>6, <1>7, Zenon
<1>9. scratch' = [state |-> "ready", installed |-> scratch.installed]
  BY <1>6, <1>7
<1>10. /\ job'.name = job.name /\ job'.files = job.files /\ job'.versions = Tail(job.versions)
       /\ scratch'.state = "ready" /\ scratch'.installed = scratch.installed
  BY <1>8, <1>9
<1>11. /\ IsSequence(log') /\ Range(log)' = Range(log) \cup {e}
       /\ IsSequence(results') /\ Range(results)' = Range(results) \cup {r} /\ results' # <<>>
       /\ IsSequence(Tail(job.versions))
  BY <1>5, <1>7, AppendList, TailList
<1>12. Adds({r})
  <2>1. \A x \in Range(log)' : x.output \in Outputs
    BY <1>3, <1>7, <1>11
  <2>2. /\ scratch' = [state |-> scratch'.state, installed |-> scratch'.installed]
        /\ job' = [name |-> job.name, files |-> job.files, versions |-> job'.versions]
    BY <1>8, <1>9, <1>10
  <2>3. job.versions # <<>>
    OBVIOUS
  <2> QED BY <1>10, <1>11, <2>1, <2>2, <2>3 DEF Adds
<1>13. ASSUME NEW n, NEW f, n = job.name, f = job.files PROVE Measured(r, n, f)'
  <2>1. /\ e.name = n /\ e.files = f /\ e.version = r.version
        /\ e.installed = r.version /\ r.pass = ParseTestOutput(e.output)[1]
        /\ r.fail = ParseTestOutput(e.output)[2] /\ r.error = ~e.output.clean
    BY <1>3, <1>4, <1>7, <1>13
  <2>2. ParseTestOutput(o) \in Nat \X Nat
    BY VerificationAssumption DEF ParseTestOutput
  <2>3. <<r.pass, r.fail>> = ParseTestOutput(e.output)
    BY <1>3, <2>1, <2>2
  <2>4. e \in Range(log)'
    BY <1>11
  <2> QED BY <2>1, <2>3, <2>4 DEF Measured
<1>14. r.version = Head(job.versions)
  BY <1>2, <1>4
<1> QED BY <1>12, <1>13, <1>14

LEMMA VerifyAdds ==
  ASSUME MeasureInv, Verify, ScratchType
  PROVE  \E r : /\ Adds({r})
                /\ \/ ~Claims(r) /\ ~Passed(r)
                   \/ /\ job.versions # <<>> /\ r.version = Head(job.versions)
                      /\ \A n, f : n = job.name /\ f = job.files => Measured(r, n, f)'
<1>1. /\ IsSequence(results) /\ IsSequence(log) /\ IsSequence(job.versions)
      /\ \A x \in Range(log) : x.output \in Outputs
      /\ scratch = [state |-> scratch.state, installed |-> scratch.installed]
      /\ job = [name |-> job.name, files |-> job.files, versions |-> job.versions]
      /\ scratch.state = "installed" => scratch.installed = Head(job.versions)
  BY DEF MeasureInv
<1>2. PICK none : none = ErrorResult("")
  OBVIOUS
<1>3. ~Claims(none) /\ ~Passed(none)
  BY <1>2, ErrorClaimsNothing
<1>4. CASE MatrixFails
  <2>1. /\ results' = <<none>> /\ job' = [job EXCEPT !.versions = <<>>]
        /\ scratch' = [scratch EXCEPT !.state = "ready"] /\ log' = log
    BY <1>2, <1>4 DEF MatrixFails
  <2>2. /\ job' = [name |-> job.name, files |-> job.files, versions |-> <<>>]
        /\ scratch' = [state |-> "ready", installed |-> scratch.installed]
    BY <1>1, <2>1
  <2>3. IsSequence(results') /\ Range(results)' = {none} /\ results' # <<>>
    BY <2>1, SingleList
  <2>4. Adds({none})
    BY <1>1, <2>1, <2>2, <2>3, EmptyList DEF Adds
  <2> QED BY <1>3, <2>4
<1>5. CASE InitManager
  <2>1. /\ scratch' = [state |-> "ready", installed |-> scratch.installed]
        /\ job' = job /\ results' = results /\ log' = log
    BY <1>1, <1>5 DEF InitManager
  <2>2. scratch'.state = "ready" /\ scratch' = [state |-> scratch'.state, installed |-> scratch'.installed]
    BY <2>1
  <2>3. Adds({none})
    BY <1>1, <2>1, <2>2 DEF Adds
  <2> QED BY <1>3, <2>3
<1>6. CASE SkipVersion
  <2>1. /\ scratch.state = "ready" /\ job.versions # <<>> /\ Head(job.versions) = ""
        /\ job' = [job EXCEPT !.versions = Tail(@)]
        /\ scratch' = scratch /\ results' = results /\ log' = log
    BY <1>6 DEF SkipVersion
  <2>2. job' = [name |-> job.name, files |-> job.files, versions |-> Tail(job.versions)]
    BY <1>1, <2>1, Zenon
  <2>3. job'.name = job.name /\ job'.files = job.files /\ job'.versions = Tail(job.versions)
    BY <2>2
  <2>4. IsSequence(Tail(job.versions))
    BY <1>1, <2>1, TailList
  <2>5. Adds({none})
    BY <1>1, <2>1, <2>2, <2>3, <2>4 DEF Adds
  <2> QED BY <1>3, <2>5
<1>7. CASE Install
  <2>1. /\ job.versions # <<>> /\ scratch' = [state |-> "installed", installed |-> Head(job.versions)]
        /\ job' = job /\ results' = results /\ log' = log
    BY <1>7 DEF Install, Pending
  <2>2. /\ scratch'.state = "installed" /\ scratch'.installed = Head(job.versions)
        /\ scratch' = [state |-> scratch'.state, installed |-> scratch'.installed]
    BY <2>1
  <2>3. Adds({none})
    BY <1>1, <2>1, <2>2 DEF Adds
  <2> QED BY <1>3, <2>3
<1>8. CASE InstallFails
  <2>1. PICK r : r = ErrorResult(Head(job.versions))
    OBVIOUS
  <2>2. /\ scratch.state = "ready" /\ job.versions # <<>>
        /\ job' = [job EXCEPT !.versions = Tail(@)]
        /\ scratch' \in {scratch, [state |-> "ready", installed |-> ""]}
        /\ results' = Append(results, r) /\ log' = log
    BY <1>8, <2>1 DEF InstallFails, Pending
  <2>3. job' = [name |-> job.name, files |-> job.files, versions |-> Tail(job.versions)]
    BY <1>1, <2>2, Zenon
  <2>4. job'.name = job.name /\ job'.files = job.files /\ job'.versions = Tail(job.versions)
    BY <2>3
  <2>5. IsSequence(Tail(job.versions))
    BY <1>1, <2>2, TailList
  <2>6. scratch'.state = "ready" /\ scratch' = [state |-> scratch'.state, installed |-> scratch'.installed]
    <3>1. scratch.state = "ready" /\ scratch' \in {scratch, [state |-> "ready", installed |-> ""]}
      BY <2>2, Zenon
    <3>2. scratch = [state |-> scratch.state, installed |-> scratch.installed]
      BY <1>1
    <3>3. CASE scratch' = scratch
      BY <3>1, <3>2, <3>3
    <3>4. CASE scratch' = [state |-> "ready", installed |-> ""]
      BY <3>4
    <3> QED BY <3>1, <3>3, <3>4
  <2>7. IsSequence(results') /\ Range(results)' = Range(results) \cup {r} /\ results' # <<>>
    BY <1>1, <2>2, AppendList
  <2>8. Adds({r})
    BY <1>1, <2>2, <2>3, <2>4, <2>5, <2>6, <2>7 DEF Adds
  <2>9. ~Claims(r) /\ ~Passed(r)
    BY <2>1, ErrorClaimsNothing
  <2> QED BY <2>8, <2>9
<1>9. CASE RunTests
  <2>1. job.versions # <<>>
    BY <1>9 DEF ScratchType, RunTests
  <2> QED BY <1>9, <2>1, RunTestsAdds
<1> QED BY <1>4, <1>5, <1>6, <1>7, <1>8, <1>9 DEF Verify

LEMMA VerifyingKeeps ==
  ASSUME CommandsInv, Verifying
  PROVE  CommandsInv'
<1>1. /\ pc \in {"verifying", "checking"} /\ Verify
      /\ pc' = pc /\ cmd' = cmd /\ queue' = queue /\ outcomes' = outcomes /\ exit' = exit
      /\ started' = started /\ runs' = runs /\ disk' = disk
  BY DEF Verifying, command
<1>2. ScratchType /\ MeasureInv
  BY DEF CommandsInv, TypeOK, ScratchType
<1>3. PICK r : /\ Adds({r})
               /\ \/ ~Claims(r) /\ ~Passed(r)
                  \/ /\ job.versions # <<>> /\ r.version = Head(job.versions)
                     /\ \A n, f : n = job.name /\ f = job.files => Measured(r, n, f)'
  BY <1>1, <1>2, VerifyAdds
<1>4. /\ Range(results)' \subseteq Range(results) \cup {r}
      /\ Range(log) \subseteq Range(log)' /\ job'.name = job.name /\ job'.files = job.files
  BY <1>3 DEF Adds
<1>5. TypeOK' /\ LoopInv'
  <2>1. ScratchType'
    BY <1>1, <1>3 DEF Adds, ScratchType
  <2> QED BY <1>1, <2>1, MoveKeeps DEF Moves
<1>6. TestedInv'
  BY <1>1, <1>4, TestedInvKept
<1>7. CheckingInv'
  <2> SUFFICES ASSUME pc = "checking" PROVE CheckingInv'
    BY <1>1 DEF CheckingInv
  <2>1. PICK spec : spec = Head(queue)
    OBVIOUS
  <2>2. PICK w : w = Wanted(spec)
    OBVIOUS
  <2>3. /\ ReadGeneratedFiles(spec.name)' = ReadGeneratedFiles(spec.name)
        /\ Wanted(spec)' = w
    BY <1>1, <2>2, ViewKept
  <2>4. /\ job.name = spec.name /\ job.files = ReadGeneratedFiles(spec.name)
        /\ job.files # {} /\ w # ""
        /\ job.versions = <<w>> \/ (job.versions = <<>> /\ results # <<>>)
        /\ \A x \in Range(results) : Passed(x) => x.version = w
    BY <2>1, <2>2 DEF CommandsInv, CheckingInv
  <2>5. job'.versions = <<w>> \/ (job'.versions = <<>> /\ results' # <<>>)
    <3>1. \/ job'.versions = job.versions /\ results' = results
          \/ job'.versions = Tail(job.versions) /\ job.versions # <<>>
             /\ Head(job.versions) = "" /\ results' = results
          \/ job'.versions = Tail(job.versions) /\ job.versions # <<>> /\ results' # <<>>
          \/ job'.versions = <<>> /\ results' # <<>>
      BY <1>3 DEF Adds
    <3>2. CASE job.versions = <<w>>
      <4>1. Head(job.versions) # "" /\ Tail(job.versions) = <<>>
        BY <2>4, <3>2, SingleList
      <4> QED BY <3>1, <3>2, <4>1
    <3>3. CASE job.versions = <<>> /\ results # <<>>
      BY <3>1, <3>3
    <3> QED BY <2>4, <3>2, <3>3
  <2>6. ASSUME NEW x \in Range(results)', Passed(x) PROVE x.version = w
    BY <1>3, <1>4, <2>4, <2>6, SingleList
  <2> QED BY <1>1, <1>4, <2>1, <2>3, <2>4, <2>5, <2>6 DEF CheckingInv
<1>8. MeasureInv'
  <2>1. cmd.kind = "check" \/ (cmd # NoCommand /\ cmd.verify)
    BY <1>1 DEF CommandsInv, LoopInv, ControlInv
  <2>2. PICK n, f : n = job.name /\ f = job.files
    OBVIOUS
  <2>3. ASSUME NEW x \in Range(results)', Claims(x) PROVE Measured(x, job.name, job.files)'
    <3>1. Measured(x, n, f)'
      <4>1. CASE x \in Range(results)
        BY <1>2, <1>4, <2>2, <2>3, <4>1, MeasuredKept DEF MeasureInv
      <4>2. CASE x = r
        BY <1>3, <2>2, <2>3, <4>2
      <4> QED BY <1>4, <4>1, <4>2
    <3> QED BY <1>4, <2>2, <3>1 DEF Measured
  <2>4. Written' = Written
    BY <1>1 DEF Written, At
  <2>5. ASSUME NEW s \in disk, s.complete, \E k \in DOMAIN outcomes : outcomes[k].run = s.run,
               NEW x \in Range(s.verify), Claims(x)
        PROVE  Measured(x, s.path.name, s.files)'
    <3>1. Measured(x, s.path.name, s.files)
      BY <1>2, <2>5 DEF MeasureInv
    <3> QED BY <1>4, <3>1, MeasuredKept
  <2>6. pc' = "verifying" => job'.name = Head(queue).dep.name /\ job'.files = Written.files
    BY <1>1, <1>2, <1>4 DEF MeasureInv
  <2>7. /\ IsSequence(results') /\ IsSequence(log') /\ IsSequence(job'.versions)
        /\ \A e \in Range(log)' : e.output \in Outputs
        /\ scratch' = [state |-> scratch'.state, installed |-> scratch'.installed]
        /\ job' = [name |-> job'.name, files |-> job'.files, versions |-> job'.versions]
        /\ scratch'.state = "installed" => scratch'.installed = Head(job'.versions)
    BY <1>3, <1>4 DEF Adds
  <2> QED BY <1>1, <2>1, <2>3, <2>4, <2>5, <2>6, <2>7 DEF MeasureInv
<1> QED BY <1>5, <1>6, <1>7, <1>8 DEF CommandsInv

(* Steps that only go on with the element: what a verification knew of the *)
(* suites it still knows.                                                  *)
LEMMA WrittenMeasures ==
  ASSUME UNCHANGED <<cmd, queue, outcomes, exit, started, runs, disk>>,
         Range(log) \subseteq Range(log)', MeasureInv
  PROVE  /\ Written' = Written
         /\ \A s \in disk' : s.complete /\ (\E k \in DOMAIN outcomes' : outcomes'[k].run = s.run) =>
              \A r \in Range(s.verify) : Claims(r) => Measured(r, s.path.name, s.files)'
<1>1. Written' = Written
  BY DEF Written, At
<1>2. ASSUME NEW s \in disk, s.complete, \E k \in DOMAIN outcomes : outcomes[k].run = s.run,
             NEW r \in Range(s.verify), Claims(r)
      PROVE  Measured(r, s.path.name, s.files)'
  <2>1. Measured(r, s.path.name, s.files)
    BY <1>2 DEF MeasureInv
  <2> QED BY <2>1, MeasuredKept
<1> QED BY <1>1, <1>2

LEMMA IndexBuiltKeeps ==
  ASSUME CommandsInv, IndexBuilt
  PROVE  CommandsInv'
<1>1. /\ pc = "index" /\ pc' = "stage"
      /\ cmd' = cmd /\ queue' = queue /\ outcomes' = outcomes /\ exit' = exit
      /\ started' = started /\ runs' = runs /\ disk' = disk
      /\ job' = job /\ scratch' = scratch /\ results' = results /\ log' = log
  BY DEF IndexBuilt, verification
<1>2. TypeOK' /\ LoopInv'
  <2>1. ScratchType'
    BY <1>1 DEF ScratchType, CommandsInv, TypeOK
  <2> QED BY <1>1, <2>1, MoveKeeps DEF Moves
<1>3. TestedInv'
  BY <1>1, TestedInvKept
<1>4. CheckingInv'
  BY <1>1 DEF CheckingInv
<1>5. MeasureInv'
  BY <1>1 DEF CommandsInv, MeasureInv, Measured
<1> QED BY <1>2, <1>3, <1>4, <1>5 DEF CommandsInv

LEMMA VerifiedKeeps ==
  ASSUME CommandsInv, Verified
  PROVE  CommandsInv'
<1>1. /\ pc = "verifying" /\ pc' = "meta"
      /\ cmd' = cmd /\ queue' = queue /\ outcomes' = outcomes /\ exit' = exit
      /\ started' = started /\ runs' = runs /\ disk' = disk
      /\ job' = job /\ scratch' = scratch /\ results' = results /\ log' = log
      /\ scratch.state = "ready"
  BY DEF Verified, verification, MatrixDone
<1>2. TypeOK' /\ LoopInv'
  <2>1. ScratchType'
    BY <1>1 DEF ScratchType, CommandsInv, TypeOK
  <2> QED BY <1>1, <2>1, MoveKeeps DEF Moves
<1>3. TestedInv'
  BY <1>1, TestedInvKept
<1>4. CheckingInv'
  BY <1>1 DEF CheckingInv
<1>5. MeasureInv'
  <2>1. Written' = Written
    BY <1>1 DEF Written, At
  <2>2. /\ job.name = Head(queue).dep.name /\ job.files = Written.files
        /\ \A r \in Range(results) : Claims(r) => Measured(r, job.name, job.files)
    BY <1>1 DEF CommandsInv, MeasureInv
  <2> QED BY <1>1, <2>1, <2>2 DEF CommandsInv, MeasureInv, Measured
<1> QED BY <1>2, <1>3, <1>4, <1>5 DEF CommandsInv

LEMMA VerifyUnavailableKeeps ==
  ASSUME CommandsInv, VerifyUnavailable
  PROVE  CommandsInv'
<1>1. PICK none : none = ErrorResult("")
  OBVIOUS
<1>2. /\ pc = "verify" /\ pc' = "meta" /\ results' = <<none>>
      /\ cmd' = cmd /\ queue' = queue /\ outcomes' = outcomes /\ exit' = exit
      /\ started' = started /\ runs' = runs /\ disk' = disk
      /\ job' = job /\ scratch' = scratch /\ log' = log
  BY <1>1 DEF VerifyUnavailable
<1>3. IsSequence(results') /\ \A r \in Range(results)' : ~Claims(r)
  <2>1. IsSequence(results') /\ Range(results)' = {none}
    BY <1>2, SingleList
  <2>2. ~Claims(none)
    BY <1>1, ErrorClaimsNothing
  <2> QED BY <2>1, <2>2
<1>4. cmd.kind # "check" /\ cmd # NoCommand /\ cmd.verify
  BY <1>2 DEF CommandsInv, LoopInv, ControlInv, Incomplete
<1>5. TypeOK' /\ LoopInv'
  <2>1. ScratchType'
    BY <1>2 DEF ScratchType, CommandsInv, TypeOK
  <2> QED BY <1>2, <2>1, MoveKeeps DEF Moves
<1>6. TestedInv'
  BY <1>2, TestedInvKept
<1>7. CheckingInv'
  BY <1>2 DEF CheckingInv
<1>8. MeasureInv'
  <2>1. MeasureInv
    BY DEF CommandsInv
  <2> QED BY <1>2, <1>3, <1>4, <2>1, WrittenMeasures DEF MeasureInv
<1> QED BY <1>5, <1>6, <1>7, <1>8 DEF CommandsInv

LEMMA BeginVerifyKeeps ==
  ASSUME CommandsInv, BeginVerify
  PROVE  CommandsInv'
<1>1. PICK versions : /\ IsSequence(versions)
                      /\ BeginMatrix(Head(queue).dep.name, Written.files, versions)
  <2>1. PICK v, w : BeginMatrix(Head(queue).dep.name, Written.files, <<v, w>>)
    BY DEF BeginVerify
  <2>2. <<v, w>> \in Seq({v, w})
    OBVIOUS
  <2> QED BY <2>1, <2>2, ListOf
<1>2. PICK n, f : n = Head(queue).dep.name /\ f = Written.files
  OBVIOUS
<1>3. /\ pc = "verify" /\ pc' = "verifying" /\ results' = <<>>
      /\ cmd' = cmd /\ queue' = queue /\ outcomes' = outcomes /\ exit' = exit
      /\ started' = started /\ runs' = runs /\ disk' = disk /\ log' = log
      /\ job' = [name |-> n, files |-> f, versions |-> versions]
      /\ scratch' = [state |-> "fresh", installed |-> ""]
  BY <1>1, <1>2 DEF BeginVerify, BeginMatrix
<1>4. /\ job'.name = n /\ job'.files = f /\ job'.versions = versions
      /\ job' = [name |-> job'.name, files |-> job'.files, versions |-> job'.versions]
      /\ scratch'.state = "fresh"
      /\ scratch' = [state |-> scratch'.state, installed |-> scratch'.installed]
  BY <1>3
<1>5. cmd.kind # "check" /\ cmd # NoCommand /\ cmd.verify
  BY <1>3 DEF CommandsInv, LoopInv, ControlInv, Incomplete
<1>6. TypeOK' /\ LoopInv'
  <2>1. ScratchType'
    BY <1>4 DEF ScratchType
  <2> QED BY <1>3, <2>1, MoveKeeps DEF Moves
<1>7. TestedInv'
  BY <1>3, TestedInvKept
<1>8. CheckingInv'
  BY <1>3 DEF CheckingInv
<1>9. MeasureInv'
  <2>1. MeasureInv
    BY DEF CommandsInv
  <2>2. IsSequence(results') /\ Range(results)' = {}
    BY <1>3, EmptyList
  <2> QED BY <1>1, <1>2, <1>3, <1>4, <1>5, <2>1, <2>2, WrittenMeasures DEF MeasureInv
<1> QED BY <1>6, <1>7, <1>8, <1>9 DEF CommandsInv

LEMMA BeginCheckKeeps ==
  ASSUME CommandsInv, BeginCheck
  PROVE  CommandsInv'
<1>1. PICK spec : spec = Head(queue)
  OBVIOUS
<1>2. PICK f, w : f = ReadGeneratedFiles(spec.name) /\ w = Wanted(spec)
  OBVIOUS
<1>3. /\ pc = "suite" /\ pc' = "checking" /\ results' = <<>> /\ w # "" /\ f # {}
      /\ cmd' = cmd /\ queue' = queue /\ outcomes' = outcomes /\ exit' = exit
      /\ started' = started /\ runs' = runs /\ disk' = disk /\ log' = log
      /\ job' = [name |-> spec.name, files |-> f, versions |-> <<w>>]
      /\ scratch' = [state |-> "fresh", installed |-> ""]
  BY <1>1, <1>2 DEF BeginCheck, BeginMatrix, Checkable
<1>4. /\ job'.name = spec.name /\ job'.files = f /\ job'.versions = <<w>>
      /\ job' = [name |-> job'.name, files |-> job'.files, versions |-> job'.versions]
      /\ scratch'.state = "fresh"
      /\ scratch' = [state |-> scratch'.state, installed |-> scratch'.installed]
      /\ IsSequence(<<w>>)
  BY <1>3, SingleList
<1>5. cmd.kind = "check"
  BY <1>3 DEF CommandsInv, LoopInv, ControlInv
<1>6. TypeOK' /\ LoopInv'
  <2>1. ScratchType'
    BY <1>4 DEF ScratchType
  <2> QED BY <1>3, <2>1, MoveKeeps DEF Moves
<1>7. TestedInv'
  BY <1>3, TestedInvKept
<1>8. IsSequence(results') /\ Range(results)' = {}
  BY <1>3, EmptyList
<1>9. CheckingInv'
  <2>1. ReadGeneratedFiles(spec.name)' = f /\ Wanted(spec)' = w
    BY <1>2, <1>3, ViewKept
  <2>2. Head(queue)' = spec
    BY <1>1, <1>3
  <2> QED BY <1>3, <1>4, <1>8, <2>1, <2>2 DEF CheckingInv
<1>10. MeasureInv'
  <2>1. MeasureInv
    BY DEF CommandsInv
  <2> QED BY <1>3, <1>4, <1>5, <1>8, <2>1, WrittenMeasures DEF MeasureInv
<1> QED BY <1>6, <1>7, <1>9, <1>10 DEF CommandsInv

LEMMA ReplaceHead ==
  ASSUME NEW s, IsSequence(s), s # <<>>, NEW x, NEW t, t = <<x>> \o Tail(s)
  PROVE  /\ IsSequence(t) /\ t # <<>> /\ Head(t) = x /\ Len(t) = Len(s) /\ Len(s) \in Nat \ {0}
         /\ DOMAIN t = DOMAIN s /\ \A k \in DOMAIN s : k # 1 => t[k] = s[k]
<1> DEFINE E == Range(s) \cup {x}
           u == Tail(s)
<1>1. u \in Seq(E) /\ Len(u) = Len(s) - 1 /\ Len(s) \in Nat \ {0} /\ DOMAIN s = 1..Len(s)
      /\ \A k \in 1..Len(u) : u[k] = s[k + 1]
  <2>1. s \in Seq(Range(s)) /\ Len(s) \in Nat \ {0} /\ DOMAIN s = 1..Len(s)
    BY DEF IsSequence
  <2>2. /\ u \in Seq(Range(s)) /\ Len(u) = Len(s) - 1
        /\ \A k \in 1..Len(u) : u[k] = s[k + 1]
    BY <2>1, HeadTailProperties
  <2> QED BY <2>1, <2>2
<1>2. <<x>> \in Seq(E) /\ Len(<<x>>) = 1 /\ <<x>>[1] = x
  <2>1. x \in E
    OBVIOUS
  <2> QED BY <2>1
<1> HIDE DEF E, u
<1>3. t \in Seq(E) /\ Len(t) = Len(s) /\ t[1] = x /\ \A k \in 2..Len(s) : t[k] = u[k - 1]
  <2> DEFINE a == <<x>>
  <2>1. t = a \o u /\ a \in Seq(E) /\ Len(a) = 1 /\ a[1] = x
    BY <1>2 DEF u
  <2> HIDE DEF a
  <2>2. u \in Seq(E) /\ a \in Seq(E)
    BY <1>1, <2>1
  <2>3. /\ a \o u \in Seq(E) /\ Len(a \o u) = Len(a) + Len(u)
        /\ \A i \in 1..Len(a) + Len(u) : (a \o u)[i] = IF i <= Len(a) THEN a[i] ELSE u[i - Len(a)]
    BY ONLY <2>2, ConcatProperties, Zenon
  <2>4. Len(a) + Len(u) = Len(s) /\ 1 \in 1..Len(s)
    BY <1>1, <2>1
  <2>5. ASSUME NEW k \in 2..Len(s) PROVE (a \o u)[k] = u[k - 1]
    BY <1>1, <2>1, <2>3, <2>4
  <2>6. (a \o u)[1] = x
    BY <1>1, <2>1, <2>3, <2>4
  <2> QED BY <2>1, <2>3, <2>4, <2>5, <2>6
<1>4. IsSequence(t) /\ DOMAIN t = 1..Len(s) /\ t # <<>> /\ Head(t) = x
  <2>1. IsSequence(t)
    BY <1>3, ListOf
  <2>2. DOMAIN t = 1..Len(s) /\ t # <<>> /\ Head(t) = x
    BY <1>1, <1>3
  <2> QED BY <2>1, <2>2
<1>5. ASSUME NEW k \in DOMAIN s, k # 1 PROVE t[k] = s[k]
  <2>1. k \in 2..Len(s) /\ k - 1 \in 1..Len(u)
    BY <1>1, <1>5
  <2>2. t[k] = u[k - 1] /\ u[k - 1] = s[k - 1 + 1] /\ k - 1 + 1 = k
    BY <1>1, <1>3, <2>1
  <2> QED BY <2>2
<1> QED BY <1>1, <1>3, <1>4, <1>5

LEMMA CloneDependentKeeps ==
  ASSUME CommandsInv, CloneDependent
  PROVE  CommandsInv'
<1>1. PICK t : t = Head(queue)
  OBVIOUS
<1>2. PICK dep, from : dep = Upstream(t) /\ from = DetectTargetName(t)
  OBVIOUS
<1>3. PICK i : i = Item(t, dep, from, "flag")
  OBVIOUS
<1>4. /\ pc = "clone" /\ pc' = "index" /\ queue' = <<i>> \o Tail(queue)
      /\ cmd' = cmd /\ outcomes' = outcomes /\ exit' = exit
      /\ started' = started /\ runs' = runs /\ disk' = disk
      /\ job' = job /\ scratch' = scratch /\ results' = results /\ log' = log
  BY <1>1, <1>2, <1>3 DEF CloneDependent, verification
<1>5. i.identity = Identity(t) /\ i.path.from = from /\ i.path.name = i.dep.name
  BY <1>3 DEF Item
<1>6. queue # <<>> /\ IsSequence(queue) /\ cmd.kind = "corpus" /\ cmd \in CorpusCommands
  BY <1>4, Kinds DEF CommandsInv, TypeOK, LoopInv, ControlInv
<1>7. /\ IsSequence(queue') /\ queue' # <<>> /\ Head(queue') = i /\ Len(queue') = Len(queue)
      /\ Len(queue) \in Nat \ {0} /\ DOMAIN queue' = DOMAIN queue
      /\ \A k \in DOMAIN queue : k # 1 => queue'[k] = queue[k]
  BY <1>4, <1>6, ReplaceHead
<1>8. t \in Range(cmd.dependents)
  <2>1. /\ Len(outcomes) + Len(queue) = Len(cmd.dependents)
        /\ \A k \in DOMAIN queue : queue[k] = cmd.dependents[Len(outcomes) + k]
    BY <1>4, <1>6 DEF CommandsInv, LoopInv, CoverInv
  <2>2. 1 \in DOMAIN queue /\ queue[1] = t
    BY <1>1, <1>6, TailList
  <2>3. t = cmd.dependents[Len(outcomes) + 1]
    BY <2>1, <2>2
  <2>4. IsSequence(cmd.dependents) /\ IsSequence(outcomes)
    BY <1>6, CommandsAssumption DEF CommandsInv, LoopInv, ControlInv
  <2>5. Len(outcomes) + 1 \in DOMAIN cmd.dependents
    BY <1>7, <2>1, <2>4, ListFacts
  <2> QED BY <2>3, <2>5 DEF Range
<1>9. OfCommand(i)'
  <2>1. t.rel = <<>>
    BY <1>6, <1>8, CommandsAssumption
  <2> QED BY <1>2, <1>4, <1>5, <1>6, <1>8, <2>1 DEF OfCommand
<1>10. ~Incomplete /\ ~Incomplete'
  BY <1>4 DEF Incomplete
<1>11. TypeOK'
  <2>1. \A s \in disk : s.run \in 1..runs /\ {u \in disk : u.path = s.path} = {s}
    BY DEF CommandsInv, TypeOK, At
  <2>2. \A s \in disk' : s.run \in 1..runs' /\ At(s.path)' = {s}
    BY <1>4, <2>1 DEF At
  <2> QED BY <1>4, <1>7, <2>2 DEF CommandsInv, TypeOK, States
<1>12. ControlInv'
  BY <1>4, <1>6, <1>7, <1>10 DEF CommandsInv, LoopInv, ControlInv
<1>13. DiskInv'
  BY <1>4, <1>10 DEF CommandsInv, LoopInv, DiskInv
<1>14. ItemsInv'
  <2>1. \A k \in DOMAIN outcomes' : outcomes'[k].run # 0 =>
          OfCommand(outcomes[k].item)' /\ cmd'.kind \in {"gen", "corpus"}
    BY <1>4 DEF CommandsInv, LoopInv, ItemsInv, OfCommand
  <2>2. OfCommand(Head(queue))'
    BY <1>7, <1>9 DEF OfCommand
  <2> QED BY <1>4, <1>6, <2>1, <2>2 DEF ItemsInv
<1>15. KeptInv'
  BY <1>4, <1>10 DEF CommandsInv, LoopInv, KeptInv, Replaced
<1>16. CoverInv'
  BY <1>4, <1>6, <1>7 DEF CommandsInv, LoopInv, CoverInv
<1>17. ExitInv' /\ CheckingInv'
  BY <1>4 DEF ExitInv, CheckingInv
<1>18. TestedInv'
  BY <1>4, TestedInvKept
<1>19. MeasureInv'
  BY <1>4 DEF CommandsInv, MeasureInv, Measured
<1> QED BY <1>11, <1>12, <1>13, <1>14, <1>15, <1>16, <1>17, <1>18, <1>19 DEF CommandsInv, LoopInv

-----------------------------------------------------------------------------
(* An element is finished.                                                 *)

(* What a command puts in one directory is of one dependency name and one  *)
(* identity.                                                               *)
LEMMA SamePathAlike ==
  ASSUME cmd.kind \in {"gen", "corpus"}, NEW i, NEW j, OfCommand(i), OfCommand(j),
         i.path = j.path
  PROVE  Alike(i, j)
<1>1. i.dep.name = j.dep.name
  BY DEF OfCommand
<1>2. CASE cmd.kind = "gen"
  BY <1>1, <1>2 DEF OfCommand, Alike
<1>3. CASE cmd.kind = "corpus"
  <2>1. PICK t : t.rel = <<>> /\ i.identity = Identity(t) /\ i.path.from = DetectTargetName(t)
    BY <1>3 DEF OfCommand
  <2>2. PICK u : u.rel = <<>> /\ j.identity = Identity(u) /\ j.path.from = DetectTargetName(u)
    BY <1>3 DEF OfCommand
  <2>3. Identity(t) = Identity(u)
    BY <2>1, <2>2, NamesApart
  <2> QED BY <1>1, <2>1, <2>2, <2>3 DEF Alike
<1> QED BY <1>2, <1>3

(* The suites that were complete stay, unless they lie where the element   *)
(* at the head of the queue was generated.                                 *)
LEMMA KeptFinishing ==
  ASSUME CommandsInv, NEW ok, NEW run, Finishes(ok, run),
         Incomplete => run # 0,
         run # 0 => cmd.kind \in {"gen", "corpus"} /\ OfCommand(Head(queue)),
         pc' \in {"end", "stage", "clone", "suite"},
         \A s \in disk : s.complete /\ (run # 0 => s.path # Head(queue).path) => s \in disk',
         ok /\ run # 0 => \E s \in disk' : s.run = run /\ s.item = Head(queue) /\ s.complete
  PROVE  KeptInv'
<1> SUFFICES ASSUME NEW k \in DOMAIN outcomes', outcomes'[k].ok, outcomes'[k].run # 0,
                    ~Replaced(k)'
             PROVE  \E s \in disk' : s.run = outcomes'[k].run /\ s.item = outcomes'[k].item
                                     /\ s.complete
  BY DEF KeptInv
<1> DEFINE last == Len(outcomes) + 1
<1>1. /\ DOMAIN outcomes' = DOMAIN outcomes \cup {last}
      /\ \A j \in DOMAIN outcomes : outcomes'[j] = outcomes[j] /\ j < last
      /\ outcomes'[last] = [item |-> Head(queue), ok |-> ok, run |-> run]
  BY DEF Finishes
<1> HIDE DEF last
<1>2. /\ outcomes'[last].item = Head(queue) /\ outcomes'[last].ok = ok
      /\ outcomes'[last].run = run
  BY <1>1
<1>3. CASE k = last
  BY <1>2, <1>3
<1>4. CASE k \in DOMAIN outcomes
  <2> DEFINE o == outcomes[k]
  <2>1. outcomes'[k] = o /\ k < last
    BY <1>1, <1>4
  <2>2. run # 0 => ~Alike(Head(queue), o.item)
    BY <1>1, <1>2, <2>1 DEF Replaced
  <2>3. ~Replaced(k)
    <3>1. ~\E j \in DOMAIN outcomes : j > k /\ outcomes[j].run # 0
                                       /\ Alike(outcomes[j].item, o.item)
      BY <1>1, <2>1 DEF Replaced
    <3> QED BY <2>2, <3>1 DEF Replaced
  <2>4. PICK s \in disk : s.run = o.run /\ s.item = o.item /\ s.complete
    BY <1>4, <2>1, <2>3 DEF CommandsInv, LoopInv, KeptInv
  <2>5. run # 0 => s.path # Head(queue).path
    <3> SUFFICES ASSUME run # 0, s.path = Head(queue).path PROVE FALSE
      OBVIOUS
    <3>1. s.path = o.item.path
      BY <2>4 DEF CommandsInv, LoopInv, DiskInv
    <3>2. OfCommand(o.item)
      BY <1>4, <2>1 DEF CommandsInv, LoopInv, ItemsInv
    <3>3. Alike(Head(queue), o.item)
      BY <3>1, <3>2, SamePathAlike
    <3> QED BY <2>2, <3>3
  <2>6. s \in disk'
    BY <2>4, <2>5
  <2> QED BY <2>1, <2>4, <2>6
<1> QED BY <1>1, <1>3, <1>4

(* What every finished element has in common.                              *)
DiskFacts ==
  /\ \A s \in disk : s.run \in 1..runs /\ {u \in disk : u.path = s.path} = {s}
  /\ \A s, u \in disk : s.run = u.run => s = u
  /\ \A s \in disk : s.path = s.item.path /\ IsSuite(s)

SuitesMeasured ==
  \A s \in disk : s.complete /\ (\E k \in DOMAIN outcomes : outcomes[k].run = s.run) =>
    \A r \in Range(s.verify) : Claims(r) => Measured(r, s.path.name, s.files)

LEMMA FinishKeeps ==
  ASSUME CommandsInv, NEW ok \in BOOLEAN, NEW run \in 0..runs', Finishes(ok, run),
         runs \in Nat, runs' \in Nat, runs <= runs',
         pc \in {"clone", "index", "stage", "meta", "checking"},
         run # 0 => pc \in {"stage", "meta"},
         UNCHANGED verification, scratch.state # "installed",
         cmd.kind = "check" => disk' = disk /\ (ok => Tested(cmd.specs[Len(outcomes) + 1])),
         DiskFacts', KeptInv', SuitesMeasured'
  PROVE  CommandsInv'
<1>1. /\ job' = job /\ scratch' = scratch /\ results' = results /\ log' = log
      /\ cmd' = cmd /\ exit' = exit /\ started' = started
      /\ pc' \in {"end", "stage", "clone", "suite"}
      /\ queue' = <<>> <=> pc' = "end"
  BY DEF verification, Finishes
<1>2. ~Incomplete' /\ pc' # "checking"
  BY <1>1 DEF Incomplete
<1> DEFINE last == Len(outcomes) + 1
<1>3. /\ DOMAIN outcomes' = DOMAIN outcomes \cup {last}
      /\ \A j \in DOMAIN outcomes : outcomes'[j] = outcomes[j] /\ j < last
      /\ outcomes'[last] = [item |-> Head(queue), ok |-> ok, run |-> run]
  BY DEF Finishes
<1> HIDE DEF last
<1>4. /\ outcomes'[last].item = Head(queue) /\ outcomes'[last].ok = ok
      /\ outcomes'[last].run = run
  BY <1>3
<1>5. TypeOK'
  <2>1. ASSUME NEW k \in DOMAIN outcomes'
        PROVE  outcomes'[k].ok \in BOOLEAN /\ outcomes'[k].run \in 0..runs'
    <3>1. CASE k = last
      BY <1>4, <3>1
    <3>2. CASE k \in DOMAIN outcomes
      <4>1. outcomes[k].ok \in BOOLEAN /\ outcomes[k].run \in 0..runs
        BY <3>2 DEF CommandsInv, TypeOK
      <4> QED BY <1>3, <3>2, <4>1
    <3> QED BY <1>3, <3>1, <3>2
  <2>2. \A s \in disk' : s.run \in 1..runs' /\ At(s.path)' = {s}
    BY DEF DiskFacts, At
  <2> QED BY <1>1, <2>1, <2>2 DEF CommandsInv, TypeOK, States
<1>6. ControlInv'
  <2>1. IsSequence(queue') /\ IsSequence(outcomes')
    BY DEF Finishes
  <2>2. /\ pc' = "stage" => cmd.kind = "gen"
        /\ pc' = "clone" => cmd.kind = "corpus"
        /\ pc' = "suite" => cmd.kind = "check"
    BY DEF Finishes
  <2>3. cmd # NoCommand
    BY DEF CommandsInv, LoopInv, ControlInv
  <2> QED BY <1>1, <1>2, <2>1, <2>2, <2>3 DEF ControlInv
<1>7. DiskInv'
  BY <1>2 DEF DiskInv, DiskFacts
<1>8. ItemsInv'
  <2>1. ItemsInv
    BY DEF CommandsInv, LoopInv
  <2>2. ASSUME cmd.kind = "gen", NEW k \in DOMAIN queue' PROVE OfCommand(queue'[k])
    <3>1. k + 1 \in DOMAIN queue /\ queue'[k] = queue[k + 1]
      BY DEF Finishes
    <3> QED BY <2>1, <2>2, <3>1 DEF ItemsInv
  <2>3. ASSUME pc' = "stage" PROVE OfCommand(Head(queue'))
    <3>1. 1 \in DOMAIN queue' /\ Head(queue') = queue'[1]
      BY <1>1, <2>3, TailList DEF Finishes
    <3>2. cmd.kind = "gen"
      BY <2>3 DEF Finishes
    <3> QED BY <2>2, <3>1, <3>2
  <2>4. ASSUME NEW k \in DOMAIN outcomes', outcomes'[k].run # 0
        PROVE  OfCommand(outcomes'[k].item) /\ cmd.kind \in {"gen", "corpus"}
    <3>1. CASE k = last
      <4>1. pc \in {"stage", "meta"}
        BY <1>4, <2>4, <3>1
      <4> QED BY <1>4, <2>1, <3>1, <4>1 DEF ItemsInv, CommandsInv, LoopInv, ControlInv, Incomplete
    <3>2. CASE k \in DOMAIN outcomes
      BY <1>3, <2>1, <2>4, <3>2 DEF ItemsInv
    <3> QED BY <1>3, <3>1, <3>2
  <2> QED BY <1>1, <1>2, <2>2, <2>3, <2>4 DEF ItemsInv, OfCommand
<1>9. CoverInv'
  <2>1. CoverInv
    BY DEF CommandsInv, LoopInv
  <2>2. queue # <<>>
    BY DEF CommandsInv, TypeOK
  <2>3. ASSUME cmd.kind = "gen", NEW n \in Range(cmd.deps), FindDep(cmd.target, n) # NoDep
        PROVE  \/ \E k \in DOMAIN outcomes' : n \in Names(outcomes'[k].item)
               \/ \E k \in DOMAIN queue' : n \in Names(queue'[k])
    <3>1. CASE \E k \in DOMAIN outcomes : n \in Names(outcomes[k].item)
      BY <1>3, <3>1
    <3>2. CASE \E k \in DOMAIN queue : n \in Names(queue[k])
      <4>1. PICK k \in DOMAIN queue : n \in Names(queue[k])
        BY <3>2
      <4>2. CASE k = 1
        <5>1. n \in Names(Head(queue))
          BY <4>1, <4>2 DEF Finishes
        <5> QED BY <1>3, <1>4, <5>1
      <4>3. CASE k # 1
        <5>1. k - 1 \in DOMAIN queue' /\ queue'[k - 1] = queue[k - 1 + 1] /\ k \in Int
          <6>1. k \in Int
            BY ListFacts DEF CommandsInv, LoopInv, ControlInv
          <6> QED BY <4>3, <6>1 DEF Finishes
        <5>2. queue'[k - 1] = queue[k]
          BY <5>1
        <5> QED BY <4>1, <5>1, <5>2
      <4> QED BY <4>2, <4>3
    <3> QED BY <2>1, <2>2, <2>3, <3>1, <3>2 DEF CoverInv
  <2>4. /\ Len(outcomes') + Len(queue') = Len(outcomes) + Len(queue)
        /\ \A k \in DOMAIN queue' :
             /\ k \in Nat \ {0} /\ k + 1 \in DOMAIN queue
             /\ queue'[k] = queue[k + 1] /\ Len(outcomes') + k = Len(outcomes) + (k + 1)
    <3>1. \A k \in DOMAIN queue' : k \in Nat \ {0}
      BY ListFacts DEF Finishes
    <3> QED BY <3>1 DEF Finishes
  <2>5. pc # "idle" /\ pc' # "idle" /\ pc' # "index"
    BY <1>1
  <2>6. cmd.kind = "corpus" =>
          /\ Len(outcomes') + Len(queue') = Len(cmd.dependents)
          /\ \A k \in DOMAIN queue' : queue'[k] = cmd.dependents[Len(outcomes') + k]
    BY <2>1, <2>4, <2>5 DEF CoverInv
  <2>7. cmd.kind = "check" =>
          /\ Len(outcomes') + Len(queue') = Len(cmd.specs)
          /\ \A k \in DOMAIN queue' : queue'[k] = cmd.specs[Len(outcomes') + k]
    BY <2>1, <2>4, <2>5 DEF CoverInv
  <2> QED BY <1>1, <2>3, <2>5, <2>6, <2>7 DEF CoverInv
<1>10. ExitInv' /\ CheckingInv'
  BY <1>1 DEF ExitInv, CheckingInv
<1>11. TestedInv'
  <2> SUFFICES ASSUME cmd.kind = "check", NEW k \in DOMAIN outcomes', outcomes'[k].ok,
                      NEW spec, spec = cmd.specs[k]
               PROVE  Tested(spec)'
    BY <1>1 DEF TestedInv
  <2>1. Tested(spec)
    <3>1. CASE k = last
      BY <1>4, <3>1 DEF last
    <3>2. CASE k \in DOMAIN outcomes
      BY <1>3, <3>2 DEF CommandsInv, TestedInv
    <3> QED BY <1>3, <3>1, <3>2
  <2> QED BY <1>1, <2>1, TestedKept
<1>12. MeasureInv'
  <2>1. \A r, n, f : Measured(r, n, f) => Measured(r, n, f)'
    BY <1>1, MeasuredKept
  <2> QED BY <1>1, <2>1 DEF CommandsInv, MeasureInv, SuitesMeasured
<1> QED BY <1>5, <1>6, <1>7, <1>8, <1>9, <1>10, <1>11, <1>12 DEF CommandsInv, LoopInv

LEMMA NothingGenerated ==
  ASSUME CommandsInv, NEW ok \in BOOLEAN, Finish(Head(queue), ok, 0),
         UNCHANGED <<runs, disk, verification>>,
         pc \in {"clone", "index", "stage", "checking"}, scratch.state # "installed",
         cmd.kind = "check" => (ok => Tested(cmd.specs[Len(outcomes) + 1]))
  PROVE  CommandsInv'
<1>1. TypeOK /\ ControlInv /\ DiskInv /\ MeasureInv /\ runs \in Nat
  BY DEF CommandsInv, LoopInv, ControlInv
<1>2. Finishes(ok, 0)
  BY <1>1, FinishFacts
<1>3. runs' = runs /\ disk' = disk /\ log' = log /\ 0 \in 0..runs'
  BY <1>1 DEF verification
<1>4. DiskFacts'
  <2>1. DiskFacts
    BY <1>1 DEF DiskFacts, TypeOK, At, DiskInv
  <2> QED BY <1>3, <2>1 DEF DiskFacts
<1>5. KeptInv'
  <2>1. ~Incomplete /\ pc' \in {"end", "stage", "clone", "suite"}
    BY <1>2 DEF Incomplete, Finishes
  <2> QED BY <1>2, <1>3, <2>1, KeptFinishing
<1>6. SuitesMeasured'
  <2>1. ASSUME NEW s \in disk, NEW k \in DOMAIN outcomes', outcomes'[k].run = s.run
        PROVE  \E j \in DOMAIN outcomes : outcomes[j].run = s.run
    <3>1. s.run # 0
      BY <1>1 DEF TypeOK
    <3>2. outcomes'[Len(outcomes) + 1].run = 0
      BY <1>2 DEF Finishes
    <3> QED BY <1>2, <2>1, <3>1, <3>2 DEF Finishes
  <2>2. ASSUME NEW s \in disk, s.complete, \E k \in DOMAIN outcomes' : outcomes'[k].run = s.run,
               NEW r \in Range(s.verify), Claims(r)
        PROVE  Measured(r, s.path.name, s.files)
    BY <1>1, <2>1, <2>2 DEF MeasureInv
  <2> QED BY <1>3, <2>2 DEF SuitesMeasured, Measured
<1> QED BY <1>1, <1>2, <1>3, <1>4, <1>5, <1>6, FinishKeeps

LEMMA NotInstalled ==
  ASSUME CommandsInv, pc \notin {"verifying", "checking"}
  PROVE  scratch.state # "installed"
  BY DEF CommandsInv, TypeOK

LEMMA DependentFailsKeeps ==
  ASSUME CommandsInv, DependentFails
  PROVE  CommandsInv'
<1>1. cmd.kind = "corpus" /\ pc = "clone"
  BY DEF DependentFails, CommandsInv, LoopInv, ControlInv
<1> QED BY <1>1, NotInstalled, NothingGenerated DEF DependentFails

LEMMA IndexFailsKeeps ==
  ASSUME CommandsInv, IndexFails
  PROVE  CommandsInv'
<1>1. CASE cmd.kind = "gen"
  BY <1>1, IndexFailsGenKeeps
<1>2. CASE cmd.kind = "corpus"
  <2>1. pc = "index" /\ Finish(Head(queue), FALSE, 0) /\ UNCHANGED <<runs, disk, verification>>
    BY <1>2 DEF IndexFails
  <2> QED BY <1>2, <2>1, NotInstalled, NothingGenerated
<1> QED BY <1>1, <1>2 DEF IndexFails

LEMMA GenerateFailsKeeps ==
  ASSUME CommandsInv, GenerateFails
  PROVE  CommandsInv'
<1>1. cmd.kind # "check" /\ pc = "stage"
  BY DEF GenerateFails, CommandsInv, LoopInv, ControlInv
<1> QED BY <1>1, NotInstalled, NothingGenerated DEF GenerateFails

LEMMA StageOnlyKeeps ==
  ASSUME CommandsInv, StageOnly
  PROVE  CommandsInv'
<1>1. cmd.kind # "check" /\ pc = "stage"
  BY DEF StageOnly, CommandsInv, LoopInv, ControlInv
<1> QED BY <1>1, NotInstalled, NothingGenerated DEF StageOnly

LEMMA CheckedKeeps ==
  ASSUME CommandsInv, Checked
  PROVE  CommandsInv'
<1>1. PICK spec : spec = Head(queue)
  OBVIOUS
<1>2. PICK ok : ok = Passed(results[1])
  OBVIOUS
<1>3. /\ pc = "checking" /\ scratch.state = "ready" /\ job.versions = <<>>
      /\ Finish(Head(queue), ok, 0) /\ UNCHANGED <<runs, disk, verification>>
  BY <1>2 DEF Checked, MatrixDone
<1>4. ok \in BOOLEAN
  BY <1>2 DEF Passed
<1>5. cmd.kind = "check" /\ queue # <<>> /\ IsSequence(queue) /\ Len(outcomes) \in Nat
  BY <1>3, ListFacts DEF CommandsInv, LoopInv, ControlInv, TypeOK
<1>6. /\ job.name = spec.name /\ job.files = ReadGeneratedFiles(spec.name)
      /\ job.files # {} /\ results # <<>>
      /\ \A r \in Range(results) : Passed(r) => r.version = Wanted(spec)
  <2>1. <<Wanted(spec)>> # <<>>
    BY SingleList
  <2> QED BY <1>1, <1>3, <2>1 DEF CommandsInv, CheckingInv
<1>7. spec = cmd.specs[Len(outcomes) + 1]
  <2>1. 1 \in DOMAIN queue /\ Head(queue) = queue[1]
    BY <1>5, TailList
  <2> QED BY <1>1, <1>3, <1>5, <2>1 DEF CommandsInv, LoopInv, CoverInv
<1>8. ASSUME ok PROVE Tested(spec)
  <2>1. PICK r : r = results[1]
    OBVIOUS
  <2>2. r \in Range(results) /\ Passed(r)
    <3>1. IsSequence(results)
      BY DEF CommandsInv, MeasureInv
    <3>2. 1 \in DOMAIN results
      BY <1>6, <3>1, TailList
    <3> QED BY <1>2, <1>8, <2>1, <3>2 DEF Range
  <2>3. r.version = Wanted(spec)
    BY <1>6, <2>2
  <2>4. ~r.error /\ r.fail = 0 /\ r.pass > 0
    BY <2>2 DEF Passed
  <2>5. Measured(r, job.name, job.files)
    BY <2>2, <2>4 DEF CommandsInv, MeasureInv, Claims
  <2>6. PICK e \in Range(log) :
          /\ e.name = job.name /\ e.files = job.files
          /\ e.version = r.version /\ e.installed = r.version
          /\ <<r.pass, r.fail>> = ParseTestOutput(e.output) /\ r.error = ~e.output.clean
    BY <2>5 DEF Measured
  <2>7. r.pass = ParseTestOutput(e.output)[1] /\ r.fail = ParseTestOutput(e.output)[2]
    <3>1. <<r.pass, r.fail>>[1] = r.pass /\ <<r.pass, r.fail>>[2] = r.fail
      OBVIOUS
    <3> QED BY <2>6, <3>1
  <2> QED BY <1>6, <2>3, <2>4, <2>6, <2>7 DEF Tested
<1> QED BY <1>3, <1>4, <1>5, <1>7, <1>8, NothingGenerated

(* The suite at the head of the queue, while its generation goes on.       *)
LEMMA WrittenFacts ==
  ASSUME CommandsInv, Incomplete
  PROVE  /\ Written \in disk /\ Written.item = Head(queue) /\ Written.run = runs
         /\ ~Written.complete /\ IsSuite(Written) /\ runs \in Nat \ {0}
         /\ Written.path = Head(queue).path /\ Written.path.name = Head(queue).dep.name
         /\ OfCommand(Head(queue)) /\ cmd.kind \in {"gen", "corpus"}
<1>1. /\ Written \in disk /\ Written.item = Head(queue) /\ Written.run = runs
      /\ ~Written.complete
      /\ \A s \in disk : s.path = s.item.path /\ IsSuite(s)
  BY DEF CommandsInv, LoopInv, DiskInv
<1>2. runs \in Nat /\ Written.run \in 1..runs
  BY <1>1 DEF CommandsInv, LoopInv, ControlInv, TypeOK
<1>3. OfCommand(Head(queue)) /\ cmd.kind \in {"gen", "corpus"}
  BY DEF CommandsInv, LoopInv, ItemsInv, ControlInv
<1>4. Written.path = Head(queue).path /\ Written.path.name = Head(queue).dep.name
  <2>1. Written.path = Written.item.path
    BY <1>1
  <2> QED BY <1>1, <1>3, <2>1 DEF OfCommand
<1> QED BY <1>1, <1>2, <1>3, <1>4

LEMMA OldDisk ==
  ASSUME CommandsInv
  PROVE  DiskFacts
  BY DEF CommandsInv, LoopInv, TypeOK, At, DiskInv, DiskFacts

LEMMA WriteMetaFailsKeeps ==
  ASSUME CommandsInv, WriteMetaFails
  PROVE  CommandsInv'
<1>1. PICK w : w = Written
  OBVIOUS
<1>2. /\ pc = "meta" /\ Finish(Head(queue), FALSE, w.run)
      /\ runs' = runs /\ disk' = disk /\ log' = log /\ UNCHANGED verification
  BY <1>1 DEF WriteMetaFails, verification
<1>3. /\ w \in disk /\ w.run = runs /\ ~w.complete /\ runs \in Nat \ {0}
      /\ OfCommand(Head(queue)) /\ cmd.kind \in {"gen", "corpus"}
  BY <1>1, <1>2, WrittenFacts DEF Incomplete
<1>4. Finishes(FALSE, w.run)
  BY <1>2, FinishFacts DEF CommandsInv, LoopInv
<1>5. DiskFacts'
  BY <1>2, OldDisk DEF DiskFacts
<1>6. KeptInv'
  <2>1. pc' \in {"end", "stage", "clone", "suite"}
    BY <1>4 DEF Finishes
  <2> QED BY <1>2, <1>3, <1>4, <2>1, KeptFinishing
<1>7. SuitesMeasured'
  <2>1. ASSUME NEW s \in disk, s.complete, NEW k \in DOMAIN outcomes', outcomes'[k].run = s.run
        PROVE  \E j \in DOMAIN outcomes : outcomes[j].run = s.run
    <3>1. s.run # w.run
      BY <1>3, <2>1, OldDisk DEF DiskFacts
    <3>2. outcomes'[Len(outcomes) + 1].run = w.run
      BY <1>4 DEF Finishes
    <3> QED BY <1>4, <2>1, <3>1, <3>2 DEF Finishes
  <2>2. ASSUME NEW s \in disk, s.complete, \E k \in DOMAIN outcomes' : outcomes'[k].run = s.run,
               NEW r \in Range(s.verify), Claims(r)
        PROVE  Measured(r, s.path.name, s.files)
    BY <2>1, <2>2 DEF CommandsInv, MeasureInv
  <2> QED BY <1>2, <2>2 DEF SuitesMeasured, Measured
<1>8. w.run \in 0..runs'
  BY <1>2, <1>3
<1>9. scratch.state # "installed"
  BY <1>2, NotInstalled
<1>10. /\ runs \in Nat /\ runs' \in Nat /\ runs <= runs' /\ cmd.kind # "check"
       /\ FALSE \in BOOLEAN /\ pc \in {"clone", "index", "stage", "meta", "checking"}
       /\ pc \in {"stage", "meta"}
  BY <1>2, <1>3
<1>11. UNCHANGED verification
  BY <1>2
<1> QED BY <1>4, <1>5, <1>6, <1>7, <1>8, <1>9, <1>10, <1>11, FinishKeeps

LEMMA WriteMetaKeeps ==
  ASSUME CommandsInv, WriteMeta
  PROVE  CommandsInv'
<1>1. PICK w : w = Written
  OBVIOUS
<1>2. PICK m : m = [w EXCEPT !.complete = TRUE, !.verify = results]
  OBVIOUS
<1>3. /\ pc = "meta" /\ Finish(Head(queue), TRUE, w.run)
      /\ runs' = runs /\ disk' = (disk \ {w}) \cup {m} /\ log' = log /\ UNCHANGED verification
  BY <1>1, <1>2 DEF WriteMeta, verification
<1>4. /\ w \in disk /\ w.run = runs /\ ~w.complete /\ runs \in Nat \ {0}
      /\ w.item = Head(queue) /\ w.path.name = Head(queue).dep.name /\ IsSuite(w)
      /\ OfCommand(Head(queue)) /\ cmd.kind \in {"gen", "corpus"}
  BY <1>1, <1>3, WrittenFacts DEF Incomplete
<1>5. /\ m.path = w.path /\ m.item = w.item /\ m.run = w.run /\ m.files = w.files
      /\ m.complete /\ m.verify = results /\ IsSuite(m)
  <2>1. m = [path |-> w.path, item |-> w.item, run |-> w.run, files |-> w.files,
             complete |-> TRUE, verify |-> results]
    BY <1>2, <1>4 DEF IsSuite
  <2> QED BY <2>1 DEF IsSuite
<1>6. Finishes(TRUE, w.run)
  BY <1>3, FinishFacts DEF CommandsInv, LoopInv
<1>7. DiskFacts'
  <2>1. DiskFacts
    BY OldDisk
  <2>2. \A u \in disk : u.path = w.path => u = w
    BY <1>4, <2>1 DEF DiskFacts
  <2>3. \A s \in disk' : /\ s.run \in 1..runs' /\ s.path = s.item.path /\ IsSuite(s)
    BY <1>3, <1>4, <1>5, <2>1 DEF DiskFacts
  <2>4. \A s, u \in disk' : s.run = u.run => s = u
    BY <1>3, <1>4, <1>5, <2>1 DEF DiskFacts
  <2>5. ASSUME NEW s \in disk' PROVE {u \in disk' : u.path = s.path} = {s}
    <3>1. CASE s = m
      BY <1>3, <1>5, <2>2, <3>1
    <3>2. CASE s \in disk /\ s # w
      <4>1. {u \in disk : u.path = s.path} = {s}
        BY <2>1, <3>2 DEF DiskFacts
      <4>2. s.path # m.path
        BY <1>5, <2>2, <3>2
      <4> QED BY <1>3, <3>2, <4>1, <4>2
    <3> QED BY <1>3, <2>5, <3>1, <3>2
  <2> QED BY <2>3, <2>4, <2>5 DEF DiskFacts
<1>8. KeptInv'
  <2>1. pc' \in {"end", "stage", "clone", "suite"}
    BY <1>6 DEF Finishes
  <2>2. \A s \in disk : s.complete => s \in disk'
    BY <1>3, <1>4
  <2>3. \E s \in disk' : s.run = w.run /\ s.item = Head(queue) /\ s.complete
    BY <1>3, <1>4, <1>5
  <2> QED BY <1>4, <1>6, <2>1, <2>2, <2>3, KeptFinishing
<1>9. SuitesMeasured'
  <2> SUFFICES ASSUME NEW s \in disk', s.complete,
                      \E k \in DOMAIN outcomes' : outcomes'[k].run = s.run,
                      NEW r \in Range(s.verify), Claims(r)
               PROVE  Measured(r, s.path.name, s.files)
    BY <1>3 DEF SuitesMeasured, Measured
  <2>1. CASE s = m
    BY <1>1, <1>3, <1>4, <1>5, <2>1 DEF CommandsInv, MeasureInv
  <2>2. CASE s \in disk /\ s # w
    <3>1. s.run # w.run
      BY <1>4, <2>2, OldDisk DEF DiskFacts
    <3>2. outcomes'[Len(outcomes) + 1].run = w.run
      BY <1>6 DEF Finishes
    <3>3. \E j \in DOMAIN outcomes : outcomes[j].run = s.run
      BY <1>6, <3>1, <3>2 DEF Finishes
    <3> QED BY <2>2, <3>3 DEF CommandsInv, MeasureInv
  <2> QED BY <1>3, <2>1, <2>2
<1>10. w.run \in 0..runs'
  BY <1>3, <1>4
<1>11. scratch.state # "installed"
  BY <1>3, NotInstalled
<1>12. /\ runs \in Nat /\ runs' \in Nat /\ runs <= runs' /\ cmd.kind # "check"
       /\ TRUE \in BOOLEAN /\ pc \in {"clone", "index", "stage", "meta", "checking"}
       /\ pc \in {"stage", "meta"}
  BY <1>3, <1>4
<1>13. UNCHANGED verification
  BY <1>3
<1> QED BY <1>6, <1>7, <1>8, <1>9, <1>10, <1>11, <1>12, <1>13, FinishKeeps

(* A new suite takes the place of what its directory held.                 *)
NewDisk(q, n) ==
  /\ n.path = q.path /\ n.item = q /\ n.run = runs + 1 /\ ~n.complete
  /\ runs \in Nat /\ OfCommand(q) /\ cmd.kind \in {"gen", "corpus"}
  /\ {u \in disk' : u.path = q.path} = {n}
  /\ \A s \in disk : s.path # q.path => s \in disk'
  /\ DiskFacts'

LEMMA NewSuite ==
  ASSUME CommandsInv, pc = "stage", NEW q, q = Head(queue), NEW files, NEW n,
         n = Suite(q, runs + 1, files, FALSE, <<>>),
         disk' = (disk \ At(q.path)) \cup {n}, runs' = runs + 1
  PROVE  NewDisk(q, n)
<1>1. /\ n.path = q.path /\ n.item = q /\ n.run = runs + 1 /\ ~n.complete /\ IsSuite(n)
  BY DEF Suite, IsSuite
<1>2. runs \in Nat /\ OfCommand(q) /\ cmd.kind \in {"gen", "corpus"}
  BY DEF CommandsInv, LoopInv, ControlInv, ItemsInv
<1> DEFINE last == runs + 1
<1>3. /\ n.run = last /\ last \in 1..runs' /\ last \notin 1..runs
      /\ \A r \in 1..runs : r \in 1..runs'
  <2>1. /\ runs' = runs + 1 /\ runs \in Nat
    BY <1>2
  <2>2. last \in 1..runs' /\ last \notin 1..runs /\ \A r \in 1..runs : r \in 1..runs'
    BY ONLY <2>1
  <2> QED BY <1>1, <2>2
<1> HIDE DEF last
<1>4. disk' = {s \in disk : s.path # q.path} \cup {n}
  BY DEF At
<1>5. {u \in disk' : u.path = q.path} = {n}
  BY <1>1, <1>4
<1>6. DiskFacts'
  <2>1. DiskFacts
    BY OldDisk
  <2>2. \A s \in disk' : s.run \in 1..runs' /\ s.path = s.item.path /\ IsSuite(s)
    <3>1. \A s \in disk : s.run \in 1..runs /\ s.path = s.item.path /\ IsSuite(s)
      BY <2>1 DEF DiskFacts
    <3>2. n.run \in 1..runs' /\ \A r \in 1..runs : r \in 1..runs'
      BY <1>3
    <3> QED BY <1>1, <1>4, <3>1, <3>2
  <2>3. \A s, u \in disk' : s.run = u.run => s = u
    <3>1. \A s \in disk : s.run # n.run
      <4>1. \A s \in disk : s.run \in 1..runs
        BY <2>1 DEF DiskFacts
      <4>2. n.run \notin 1..runs
        BY <1>3
      <4> QED BY <4>1, <4>2
    <3> QED BY <1>4, <2>1, <3>1 DEF DiskFacts
  <2>4. ASSUME NEW s \in disk' PROVE {u \in disk' : u.path = s.path} = {s}
    <3>1. CASE s = n
      BY <1>1, <1>5, <3>1
    <3>2. CASE s \in disk /\ s.path # q.path
      <4>1. {u \in disk : u.path = s.path} = {s}
        BY <2>1, <3>2 DEF DiskFacts
      <4> QED BY <1>1, <1>4, <3>2, <4>1
    <3> QED BY <1>4, <2>4, <3>1, <3>2
  <2> QED BY <2>2, <2>3, <2>4 DEF DiskFacts
<1> QED BY <1>1, <1>2, <1>4, <1>5, <1>6 DEF NewDisk

LEMMA WriteSuiteFailsKeeps ==
  ASSUME CommandsInv, WriteSuiteFails
  PROVE  CommandsInv'
<1>1. PICK q : q = Head(queue)
  OBVIOUS
<1>2. PICK some : disk' = (disk \ At(q.path)) \cup {Suite(q, runs + 1, some, FALSE, <<>>)}
  BY <1>1 DEF WriteSuiteFails
<1>3. PICK n : n = Suite(q, runs + 1, some, FALSE, <<>>)
  OBVIOUS
<1>4. /\ pc = "stage" /\ Finish(Head(queue), FALSE, runs + 1) /\ runs' = runs + 1
      /\ disk' = (disk \ At(q.path)) \cup {n} /\ log' = log /\ UNCHANGED verification
  BY <1>2, <1>3 DEF WriteSuiteFails, verification
<1>5. /\ n.path = q.path /\ n.item = q /\ n.run = runs + 1 /\ ~n.complete
      /\ runs \in Nat /\ OfCommand(q) /\ cmd.kind \in {"gen", "corpus"}
      /\ \A s \in disk : s.path # q.path => s \in disk'
      /\ DiskFacts'
  <2>1. disk' = (disk \ At(q.path)) \cup {n} /\ runs' = runs + 1 /\ pc = "stage"
    BY <1>4
  <2>2. NewDisk(q, n)
    BY <1>1, <1>3, <2>1, NewSuite
  <2> QED BY <2>2 DEF NewDisk
<1>6. Finishes(FALSE, runs + 1)
  BY <1>4, FinishFacts DEF CommandsInv, LoopInv
<1>7. KeptInv'
  <2>1. pc' \in {"end", "stage", "clone", "suite"}
    BY <1>6 DEF Finishes
  <2>2. runs + 1 # 0
    BY <1>5
  <2> QED BY <1>1, <1>5, <1>6, <2>1, <2>2, KeptFinishing
<1>8. SuitesMeasured'
  <2> SUFFICES ASSUME NEW s \in disk', s.complete,
                      \E k \in DOMAIN outcomes' : outcomes'[k].run = s.run,
                      NEW r \in Range(s.verify), Claims(r)
               PROVE  Measured(r, s.path.name, s.files)
    BY <1>4 DEF SuitesMeasured, Measured
  <2>1. s \in disk
    BY <1>4, <1>5
  <2>2. s.run # runs + 1
    BY <1>5, <2>1, OldDisk DEF DiskFacts
  <2>3. outcomes'[Len(outcomes) + 1].run = runs + 1
    BY <1>6 DEF Finishes
  <2>4. \E j \in DOMAIN outcomes : outcomes[j].run = s.run
    BY <1>6, <2>2, <2>3 DEF Finishes
  <2> QED BY <2>1, <2>4 DEF CommandsInv, MeasureInv
<1>9. /\ runs \in Nat /\ runs' \in Nat /\ runs <= runs' /\ cmd.kind # "check"
      /\ runs + 1 \in 0..runs'
      /\ FALSE \in BOOLEAN /\ pc \in {"clone", "index", "stage", "meta", "checking"}
      /\ pc \in {"stage", "meta"}
  BY <1>4, <1>5
<1>10. DiskFacts' /\ UNCHANGED verification
  BY <1>4, <1>5
<1>11. scratch.state # "installed"
  BY <1>4, NotInstalled
<1> QED BY <1>6, <1>7, <1>8, <1>9, <1>10, <1>11, FinishKeeps

LEMMA WriteSuiteKeeps ==
  ASSUME CommandsInv, WriteSuite
  PROVE  CommandsInv'
<1>1. PICK q : q = Head(queue)
  OBVIOUS
<1>2. PICK files : disk' = (disk \ At(q.path)) \cup {Suite(q, runs + 1, files, FALSE, <<>>)}
  BY <1>1 DEF WriteSuite
<1>3. PICK n : n = Suite(q, runs + 1, files, FALSE, <<>>)
  OBVIOUS
<1>4. /\ pc = "stage" /\ pc' \in {"verify", "meta"} /\ (pc' = "verify" <=> cmd.verify)
      /\ runs' = runs + 1 /\ disk' = (disk \ At(q.path)) \cup {n}
      /\ cmd' = cmd /\ queue' = queue /\ outcomes' = outcomes /\ exit' = exit
      /\ started' = started
      /\ job' = job /\ scratch' = scratch /\ results' = results /\ log' = log
  BY <1>2, <1>3 DEF WriteSuite, verification
<1>5. /\ n.path = q.path /\ n.item = q /\ n.run = runs + 1 /\ ~n.complete
      /\ runs \in Nat /\ OfCommand(q) /\ cmd.kind \in {"gen", "corpus"}
      /\ {u \in disk' : u.path = q.path} = {n}
      /\ \A s \in disk : s.path # q.path => s \in disk'
      /\ DiskFacts'
  <2>1. disk' = (disk \ At(q.path)) \cup {n} /\ runs' = runs + 1 /\ pc = "stage"
    BY <1>4
  <2>2. NewDisk(q, n)
    BY <1>1, <1>3, <2>1, NewSuite
  <2> QED BY <2>2 DEF NewDisk
<1>6. Incomplete' /\ ~Incomplete
  BY <1>4 DEF Incomplete
<1>7. \A k \in DOMAIN outcomes : outcomes[k].ok \in BOOLEAN /\ outcomes[k].run \in 0..runs
  BY DEF CommandsInv, TypeOK
<1>8. TypeOK'
  <2>1. \A s \in disk' : s.run \in 1..runs' /\ At(s.path)' = {s}
    BY <1>5 DEF DiskFacts, At
  <2>2. \A k \in DOMAIN outcomes' : outcomes'[k].ok \in BOOLEAN /\ outcomes'[k].run \in 0..runs'
    BY <1>4, <1>5, <1>7
  <2> QED BY <1>4, <2>1, <2>2 DEF CommandsInv, TypeOK, States
<1>9. ControlInv'
  BY <1>4, <1>5, <1>6 DEF CommandsInv, LoopInv, ControlInv
<1>10. Written' = n
  <2>1. At(q.path)' = {n}
    BY <1>5 DEF At
  <2>2. Written' = CHOOSE s \in At(q.path)' : TRUE
    BY <1>1, <1>4 DEF Written, At
  <2> QED BY <2>1, <2>2
<1>11. DiskInv'
  <2>1. n \in disk'
    BY <1>4
  <2>2. \A k \in DOMAIN outcomes' : outcomes'[k].run < runs'
    BY <1>4, <1>5, <1>7
  <2> QED BY <1>1, <1>4, <1>5, <1>10, <2>1, <2>2 DEF DiskInv, DiskFacts
<1>12. ItemsInv'
  <2>1. ItemsInv
    BY DEF CommandsInv, LoopInv
  <2> QED BY <1>1, <1>4, <1>5, <2>1 DEF ItemsInv, OfCommand
<1>13. KeptInv'
  <2> SUFFICES ASSUME NEW k \in DOMAIN outcomes, outcomes[k].ok, outcomes[k].run # 0,
                      ~Replaced(k)'
               PROVE  \E s \in disk' : s.run = outcomes[k].run /\ s.item = outcomes[k].item
                                       /\ s.complete
    BY <1>4 DEF KeptInv
  <2>1. ~Alike(q, outcomes[k].item)
    BY <1>1, <1>4, <1>6 DEF Replaced
  <2>2. ~Replaced(k)
    BY <1>4, <1>6 DEF Replaced
  <2>3. PICK s \in disk : s.run = outcomes[k].run /\ s.item = outcomes[k].item /\ s.complete
    BY <2>2 DEF CommandsInv, LoopInv, KeptInv
  <2>4. s.path # q.path
    <3> SUFFICES ASSUME s.path = q.path PROVE FALSE
      OBVIOUS
    <3>1. q.path = outcomes[k].item.path
      BY <2>3 DEF CommandsInv, LoopInv, DiskInv
    <3>2. OfCommand(outcomes[k].item)
      BY DEF CommandsInv, LoopInv, ItemsInv
    <3> QED BY <1>5, <2>1, <3>1, <3>2, SamePathAlike
  <2> QED BY <1>5, <2>3, <2>4
<1>14. CoverInv'
  <2>1. CoverInv
    BY DEF CommandsInv, LoopInv
  <2> QED BY <1>4, <1>5, <2>1 DEF CoverInv
<1>15. ExitInv' /\ CheckingInv' /\ TestedInv'
  BY <1>4, <1>5 DEF ExitInv, CheckingInv, TestedInv
<1>16. MeasureInv'
  <2>1. pc' = "meta" => Range(results)' = {}
    <3>1. pc' = "meta" => results = <<>>
      BY <1>4, <1>5 DEF CommandsInv, MeasureInv
    <3> QED BY <1>4, <3>1, EmptyList
  <2>2. ASSUME NEW s \in disk', s.complete,
               \E k \in DOMAIN outcomes : outcomes[k].run = s.run,
               NEW r \in Range(s.verify), Claims(r)
        PROVE  Measured(r, s.path.name, s.files)
    <3>1. s \in disk
      BY <1>4, <1>5, <2>2
    <3> QED BY <2>2, <3>1 DEF CommandsInv, MeasureInv
  <2>3. MeasureInv
    BY DEF CommandsInv
  <2> QED BY <1>4, <2>1, <2>2, <2>3 DEF MeasureInv, Measured
<1> QED BY <1>8, <1>9, <1>11, <1>12, <1>13, <1>14, <1>15, <1>16 DEF CommandsInv, LoopInv

-----------------------------------------------------------------------------
LEMMA IdleKeeps ==
  ASSUME CommandsInv, UNCHANGED vars
  PROVE  CommandsInv'
<1>1. /\ pc' = pc /\ cmd' = cmd /\ queue' = queue /\ outcomes' = outcomes /\ exit' = exit
      /\ started' = started /\ runs' = runs /\ disk' = disk
      /\ job' = job /\ scratch' = scratch /\ results' = results /\ log' = log
  BY DEF vars, command, verification
<1>2. TypeOK' /\ LoopInv'
  <2>1. ScratchType'
    BY <1>1 DEF ScratchType, CommandsInv, TypeOK
  <2> QED BY <1>1, <2>1, MoveKeeps DEF Moves
<1>3. TestedInv'
  BY <1>1, TestedInvKept
<1>4. CheckingInv'
  <2>1. CheckingInv
    BY DEF CommandsInv
  <2> QED BY <1>1, <2>1 DEF CheckingInv, ReadGeneratedFiles, IsBelow, Wanted
<1>5. MeasureInv'
  <2>1. Written' = Written
    BY <1>1 DEF Written, At
  <2>2. MeasureInv
    BY DEF CommandsInv
  <2> QED BY <1>1, <2>1, <2>2 DEF MeasureInv, Measured
<1> QED BY <1>2, <1>3, <1>4, <1>5 DEF CommandsInv

LEMMA CommandsStep == CommandsInv /\ [Next]_vars => CommandsInv'
<1> SUFFICES ASSUME CommandsInv, [Next]_vars PROVE CommandsInv'
  OBVIOUS
<1>1. CASE UNCHANGED vars
  BY <1>1, IdleKeeps
<1>2. CASE StartGen \/ StartCorpus \/ StartCheck
  BY <1>2, StartGenKeeps, StartCorpusKeeps, StartCheckKeeps
<1>3. CASE Nothing \/ End \/ CheckRefused
  BY <1>3, NothingKeeps, EndKeeps, CheckRefusedKeeps
<1>4. CASE CloneDependent \/ IndexBuilt
  BY <1>4, CloneDependentKeeps, IndexBuiltKeeps
<1>5. CASE DependentFails \/ IndexFails \/ GenerateFails \/ StageOnly
  BY <1>5, DependentFailsKeeps, IndexFailsKeeps, GenerateFailsKeeps, StageOnlyKeeps
<1>6. CASE WriteSuite \/ WriteSuiteFails
  BY <1>6, WriteSuiteKeeps, WriteSuiteFailsKeeps
<1>7. CASE VerifyUnavailable \/ BeginVerify \/ Verified
  BY <1>7, VerifyUnavailableKeeps, BeginVerifyKeeps, VerifiedKeeps
<1>8. CASE WriteMeta \/ WriteMetaFails
  BY <1>8, WriteMetaKeeps, WriteMetaFailsKeeps
<1>9. CASE BeginCheck \/ Checked \/ Verifying
  BY <1>9, BeginCheckKeeps, CheckedKeeps, VerifyingKeeps
<1>10. CASE Stopped
  BY <1>10, IdleKeeps DEF Stopped
<1> QED BY <1>1, <1>2, <1>3, <1>4, <1>5, <1>6, <1>7, <1>8, <1>9, <1>10 DEF Next

LEMMA CommandsAlways == Spec => []CommandsInv
  BY CommandsInit, CommandsStep, PTL DEF Spec

(* Every reachable state of the commands is well formed: each directory    *)
(* holds the suite of one run, and while an element is worked on there is  *)
(* one at the head of the queue (cmdGen, cmdCorpus, cmdCheck, genOne).     *)
THEOREM TypeCorrect == Spec => []TypeOK
<1>1. CommandsInv => TypeOK
  BY DEF CommandsInv
<1> QED BY <1>1, CommandsAlways, PTL

(* Counts in the results of a verification come from a test run with the   *)
(* version they name installed and with the files of the suite they are    *)
(* recorded for, whatever failed in between (VerifyMatrix, runVerify).     *)
THEOREM ResultsAlwaysMeasured == Spec => []ResultsMeasured
<1>1. CommandsInv => ResultsMeasured
  BY DEF CommandsInv, MeasureInv, ResultsMeasured
<1> QED BY <1>1, CommandsAlways, PTL

(* Exit status 0 of check, gen and corpus means what it says, for every    *)
(* command line, target and suite on disk (cmdCheck, genAll, cmdCorpus).   *)
THEOREM ExitsTruthful == Spec => []ExitTruthful
<1>1. ASSUME CommandsInv PROVE ExitTruthful
  <2> SUFFICES ASSUME pc = "idle", cmd # NoCommand PROVE ExitTruthful
    BY DEF ExitTruthful
  <2>1. queue = <<>> /\ IsSequence(outcomes) /\ Len(queue) = 0 /\ DOMAIN queue = {}
    BY <1>1, EmptyList DEF CommandsInv, LoopInv, ControlInv
  <2>2. Len(outcomes) \in Nat /\ DOMAIN outcomes = 1..Len(outcomes)
        /\ (outcomes = <<>> <=> Len(outcomes) = 0)
    BY <2>1, ListFacts
  <2>3. ExitInv /\ CoverInv
    BY <1>1 DEF CommandsInv, LoopInv
  <2>4. cmd.kind \in {"gen", "corpus", "check"}
    BY <1>1, Kinds DEF CommandsInv, TypeOK
  <2>5. CASE cmd.kind = "check"
    <3>1. ASSUME exit = "ok", NEW k \in DOMAIN cmd.specs PROVE Tested(cmd.specs[k])
      <4>1. Len(outcomes) = Len(cmd.specs)
        BY <2>1, <2>2, <2>3, <2>5, <3>1 DEF CoverInv
      <4>2. cmd \in CheckCommands
        BY <1>1, <2>5, Kinds DEF CommandsInv, TypeOK
      <4>3. DOMAIN cmd.specs = 1..Len(cmd.specs)
        BY <4>2, CommandsAssumption, ListFacts
      <4>4. k \in DOMAIN outcomes /\ outcomes[k].ok
        BY <2>2, <2>3, <3>1, <4>1, <4>3 DEF ExitInv
      <4> QED BY <1>1, <2>5, <4>4 DEF CommandsInv, TestedInv
    <3> QED BY <2>5, <3>1 DEF ExitTruthful, Tested
  <2>6. CASE cmd.kind # "check"
    <3>1. exit = "ok" <=> outcomes # <<>> /\ \A k \in DOMAIN outcomes : outcomes[k].ok
      BY <2>3, <2>6 DEF ExitInv
    <3>2. cmd.kind = "corpus" /\ outcomes # <<>> => Len(outcomes) = Len(cmd.dependents)
      BY <2>1, <2>2, <2>3 DEF CoverInv
    <3>3. cmd.kind = "gen" /\ outcomes # <<>> =>
            \A n \in Range(cmd.deps) : FindDep(cmd.target, n) # NoDep =>
              \E k \in DOMAIN outcomes : n \in {outcomes[k].item.dep.name,
                                                outcomes[k].item.dep.purl}
      BY <2>1, <2>3 DEF CoverInv, Names
    <3> QED BY <2>4, <2>6, <3>1, <3>2, <3>3 DEF ExitTruthful
  <2> QED BY <2>5, <2>6
<1>2. CommandsInv => ExitTruthful
  BY <1>1
<1> QED BY <1>2, CommandsAlways, PTL

(* Commands do not lose suites they reported: only a generation for the    *)
(* same dependency name and the same target identity replaces one          *)
(* (detectTargetName, genOne).                                             *)
THEOREM SuitesAlwaysKept == Spec => []SuitesKept
<1>1. ASSUME CommandsInv PROVE SuitesKept
  <2> SUFFICES ASSUME pc = "idle", NEW k \in DOMAIN outcomes, outcomes[k].ok, outcomes[k].run # 0,
                      \A j \in DOMAIN outcomes : j > k =>
                        ~ /\ outcomes[j].run # 0
                          /\ outcomes[j].item.dep.name = outcomes[k].item.dep.name
                          /\ outcomes[j].item.identity = outcomes[k].item.identity
               PROVE  \E s \in disk : s.run = outcomes[k].run /\ s.item = outcomes[k].item
                                      /\ s.complete
    BY DEF SuitesKept
  <2>1. ~Replaced(k)
    BY DEF Replaced, Incomplete, Alike
  <2> QED BY <1>1, <2>1 DEF CommandsInv, LoopInv, KeptInv
<1>2. CommandsInv => SuitesKept
  BY <1>1
<1> QED BY <1>2, CommandsAlways, PTL
=============================================================================
