------------------------------ MODULE Commands ------------------------------
(***************************************************************************)
(* The commands that write and run suites, one after the other on one      *)
(* machine: gen (one target, several dependencies), corpus (one dependency,*)
(* several dependents) and check (several suites, each at one version).    *)
(* What one dependency's generation does inside is Generation's business;  *)
(* here it ends in one of its outcomes and leaves its suite on disk, where *)
(* check finds it, whatever else was generated under the same name.        *)
(***************************************************************************)
EXTENDS Verification, Targets, Options

CONSTANTS
  GenCommands, CorpusCommands, CheckCommands,  \* command lines and their inputs
  MaxCommands,    \* bound: commands run on the machine
  Products,       \* the sets of file names a generation may produce
  Runnable,       \* ecosystems with a test runner
  Releases        \* the versions staging may resolve

ASSUME CommandsAssumption ==
  /\ MaxCommands \in Nat
  /\ \A c \in GenCommands :
       /\ c.kind = "gen" /\ IsSequence(c.deps) /\ IsSequence(c.target.deps)
       /\ \A d \in Range(c.target.deps) : IsDep(d)
  /\ \A c \in CorpusCommands :       \* a dependent is the root of its own clone
       /\ c.kind = "corpus" /\ IsSequence(c.dependents)
       /\ \A t \in Range(c.dependents) : t.rel = <<>>
  /\ \A c \in CheckCommands : c.kind = "check" /\ IsSequence(c.specs)

(* Files that check does not run: a .json file is taken for metadata.      *)
Json == {"meta.json", "fixture.json"}

VARIABLES
  pc,         \* what the command does next
  cmd,        \* the running command, or the last one
  queue,      \* what its loop has left: items, dependents or specs
  outcomes,   \* per element of the loop that was finished: [item, ok, run]
  exit,       \* "ok" or "error", once it ended
  started,    \* commands so far
  runs,       \* generations so far
  disk        \* suite directories: [path, item, run, files, complete, verify], of
              \* the last run that touched them; complete says its meta.json is there

command == <<pc, cmd, queue, outcomes, exit, started>>
vars == <<command, runs, disk, verification>>

NoCommand == [kind |-> "none"]

Init ==
  /\ pc = "idle" /\ cmd = NoCommand /\ queue = <<>> /\ outcomes = <<>>
  /\ exit = "ok" /\ started = 0
  /\ runs = 0 /\ disk = {} /\ VerificationInit

-----------------------------------------------------------------------------
(* The loops. *)

Exit(status) ==
  /\ pc' = "idle" /\ exit' = status /\ queue' = <<>>
  /\ UNCHANGED <<cmd, outcomes, started>>

Start(c, state, elements) ==
  /\ pc = "idle" /\ started < MaxCommands
  /\ cmd' = c /\ started' = started + 1 /\ outcomes' = <<>> /\ exit' = "ok"
  /\ queue' = elements
  /\ pc' = IF elements = <<>> THEN "end" ELSE state
  /\ job' = NoJob /\ scratch' = NoScratch /\ results' = <<>> /\ log' = <<>>
  /\ UNCHANGED <<runs, disk>>

(* The element at the head of the queue is finished; gen goes on to its    *)
(* next dependency, corpus to its next dependent, check to its next spec.  *)
Finish(item, ok, run) ==
  /\ outcomes' = Append(outcomes, [item |-> item, ok |-> ok, run |-> run])
  /\ queue' = Tail(queue)
  /\ pc' = IF Tail(queue) = <<>> THEN "end"
           ELSE CASE cmd.kind = "gen" -> "stage" [] cmd.kind = "corpus" -> "clone"
                  [] OTHER -> "suite"
  /\ UNCHANGED <<cmd, exit, started>>

(* errors.Join: the command fails when any element of its loop did.        *)
End ==
  /\ pc = "end" /\ outcomes # <<>>
  /\ Exit(IF \A k \in DOMAIN outcomes : outcomes[k].ok THEN "ok" ELSE "error")
  /\ UNCHANGED <<runs, disk, verification>>

-----------------------------------------------------------------------------
(* gen and corpus. *)

(* genOne's paths: the suite directory names the dependency and the target.*)
Item(t, dep, from, root) ==
  [dep |-> dep, identity |-> Identity(t),
   path |-> [root |-> root, name |-> dep.name, from |-> from]]

(* Options, configuration and selection; any of them may refuse.           *)
StartGen == \E c \in GenCommands :
  LET doc == Load(c.file)
      source == Source(c.flags, c.explicit, doc)
      from == IF source["target_name"] = "default" THEN DetectTargetName(c.target)
              ELSE c.names[source["target_name"]].name
      deps == SelectGenDeps(c.target, c.deps, doc.overrides)
      accepted == c.usable /\ Loads(c.file, c.explicit) /\ Resolves(source, c.explicit, doc, c)
  IN Start(c, "index", IF accepted
                       THEN [k \in DOMAIN deps |-> Item(c.target, deps[k], from, source["out"])]
                       ELSE <<>>)

StartCorpus == \E c \in CorpusCommands : Start(c, "clone", c.dependents)

(* Nothing to do is an error for each of the commands. *)
Nothing ==
  /\ pc = "end" /\ outcomes = <<>>
  /\ Exit("error")
  /\ UNCHANGED <<runs, disk, verification>>

(* A dependent is rejected, cannot be cloned, stripped or analysed, or     *)
(* does not use the upstream: corpus goes on to the next.                  *)
DependentFails ==
  /\ pc = "clone"
  /\ Finish(Head(queue), FALSE, 0)
  /\ UNCHANGED <<runs, disk, verification>>

Upstream(t) == FindDep(t, cmd.upstream)

CloneDependent ==
  /\ pc = "clone" /\ Upstream(Head(queue)) # NoDep
  /\ LET t == Head(queue)
     IN queue' = <<Item(t, Upstream(t), DetectTargetName(t), "flag")>> \o Tail(queue)
  /\ pc' = "index"
  /\ UNCHANGED <<cmd, outcomes, exit, started, runs, disk, verification>>

(* One history index serves all dependencies of a genAll; without it the   *)
(* dependencies of gen are not tried, and corpus goes on.                  *)
IndexFails ==
  /\ pc = "index"
  /\ \/ cmd.kind = "gen" /\ Exit("error")
     \/ cmd.kind = "corpus" /\ Finish(Head(queue), FALSE, 0)
  /\ UNCHANGED <<runs, disk, verification>>

IndexBuilt ==
  /\ pc = "index" /\ pc' = "stage"
  /\ UNCHANGED <<cmd, queue, outcomes, exit, started, runs, disk, verification>>

(* An unsafe name, a failure to prepare or stage, or a failing skill: the  *)
(* suite is not touched.                                                   *)
GenerateFails ==
  /\ pc = "stage"
  /\ Finish(Head(queue), FALSE, 0)
  /\ UNCHANGED <<runs, disk, verification>>

(* Without --run the workspace is all there is. *)
StageOnly ==
  /\ pc = "stage" /\ ~cmd.run /\ SafeName(Head(queue).dep.name)
  /\ Finish(Head(queue), TRUE, 0)
  /\ UNCHANGED <<runs, disk, verification>>

At(path) == {s \in disk : s.path = path}

Suite(item, run, files, complete, verify) ==
  [path |-> item.path, item |-> item, run |-> run,
   files |-> files, complete |-> complete, verify |-> verify]

(* The files of a result, on disk. *)
Generated(files) == {<<runs + 1, f>> : f \in files}

WriteSuiteKeeping ==                            \* mutant: the previous suite is not removed
  /\ pc = "stage" /\ cmd.run /\ SafeName(Head(queue).dep.name)
  /\ \E files \in Products :
       disk' = disk \cup {Suite(Head(queue), runs + 1, Generated(files), FALSE, <<>>)}
  /\ runs' = runs + 1
  /\ pc' = IF cmd.verify THEN "verify" ELSE "meta"
  /\ UNCHANGED <<cmd, queue, outcomes, exit, started, verification>>

(* ReplaceFilesUnder, to the end ...                                       *)
WriteSuite ==
  /\ pc = "stage" /\ cmd.run /\ SafeName(Head(queue).dep.name)
  /\ \E files \in Products :
       disk' = (disk \ At(Head(queue).path))
                 \cup {Suite(Head(queue), runs + 1, Generated(files), FALSE, <<>>)}
  /\ runs' = runs + 1
  /\ pc' = IF cmd.verify THEN "verify" ELSE "meta"
  /\ UNCHANGED <<cmd, queue, outcomes, exit, started, verification>>

(* ... or only in part: RemoveAll stops and leaves some of the old files,  *)
(* or a write fails after some of the new ones (Suite has the steps).      *)
Partial(path) ==
  SUBSET UNION {s.files : s \in At(path)}
    \cup UNION {SUBSET Generated(files) : files \in Products}

WriteSuiteFails ==
  /\ pc = "stage" /\ cmd.run /\ SafeName(Head(queue).dep.name)
  /\ \E some \in Partial(Head(queue).path) :
       disk' = (disk \ At(Head(queue).path))
                 \cup {Suite(Head(queue), runs + 1, some, FALSE, <<>>)}
  /\ runs' = runs + 1
  /\ Finish(Head(queue), FALSE, runs + 1)
  /\ UNCHANGED verification

(* The suite that the run has just written. *)
Written == CHOOSE s \in At(Head(queue).path) : TRUE

(* runVerify: without a baseline, a scratch directory or a runner there is *)
(* one error result; nothing that goes wrong here fails the generation.    *)
VerifyUnavailable ==
  /\ pc = "verify" /\ pc' = "meta"
  /\ results' = <<ErrorResult("")>>
  /\ UNCHANGED <<cmd, queue, outcomes, exit, started, runs, disk, job, scratch, log>>

(* baseline and latest are what staging resolved; latest may be unknown.   *)
BeginVerify ==
  /\ pc = "verify" /\ Head(queue).dep.eco \in Runnable
  /\ \E baseline \in Releases, latest \in Releases \cup {""} :
       BeginMatrix(Head(queue).dep.name, Written.files, <<baseline, latest>>)
  /\ pc' = "verifying"
  /\ UNCHANGED <<cmd, queue, outcomes, exit, started, runs, disk>>

(* hyrum-validate runs when tests ran; its failure changes nothing here.   *)
Verified ==
  /\ pc = "verifying" /\ MatrixDone
  /\ pc' = "meta"
  /\ UNCHANGED <<cmd, queue, outcomes, exit, started, runs, disk, verification>>

(* meta.json completes the suite and the generation. *)
WriteMeta ==
  /\ pc = "meta"
  /\ disk' = (disk \ {Written})
               \cup {[Written EXCEPT !.complete = TRUE, !.verify = results]}
  /\ Finish(Head(queue), TRUE, Written.run)
  /\ UNCHANGED <<runs, verification>>

WriteMetaFails ==
  /\ pc = "meta"
  /\ Finish(Head(queue), FALSE, Written.run)
  /\ UNCHANGED <<runs, disk, verification>>

-----------------------------------------------------------------------------
(* check. *)

StartCheck == \E c \in CheckCommands : Start(c, "suite", c.specs)

IsBelow(name, path) == path.root = cmd.root /\ IsPrefix(name, path.name)

(* Everything below tests/<name>, the suites of longer names included. *)
ReadGeneratedFiles(name) ==
  {f \in UNION {s.files : s \in {t \in disk : IsBelow(name, t.path)}} : f[2] \notin Json}

(* The version of the spec, else the lower bound of the target's constraint*)
Wanted(spec) ==
  IF spec.version # "" THEN spec.version ELSE FindDep(cmd.target, spec.name).minimum

Checkable(spec) ==
  /\ SafeName(spec.name) /\ FindDep(cmd.target, spec.name).eco \in Runnable
  /\ Wanted(spec) # "" /\ ReadGeneratedFiles(spec.name) # {}

(* What cannot be checked ends the command at once, as does a scratch      *)
(* directory or a package manager that is not to be had.                   *)
CheckRefused ==
  /\ pc = "suite"
  /\ Exit("error")
  /\ UNCHANGED <<runs, disk, verification>>

BeginCheck ==
  /\ pc = "suite" /\ Checkable(Head(queue))
  /\ LET spec == Head(queue)
     IN BeginMatrix(spec.name, ReadGeneratedFiles(spec.name), <<Wanted(spec)>>)
  /\ pc' = "checking"
  /\ UNCHANGED <<cmd, queue, outcomes, exit, started, runs, disk>>

Checked ==
  /\ pc = "checking" /\ MatrixDone
  /\ Finish(Head(queue), Passed(results[1]), 0)
  /\ UNCHANGED <<runs, disk, verification>>

-----------------------------------------------------------------------------
Stopped ==
  /\ pc = "idle" /\ started = MaxCommands
  /\ UNCHANGED vars

Verifying == pc \in {"verifying", "checking"} /\ Verify /\ UNCHANGED <<command, runs, disk>>

Next ==
  \/ StartGen \/ StartCorpus \/ StartCheck \/ Nothing \/ End
  \/ DependentFails \/ CloneDependent \/ IndexFails \/ IndexBuilt
  \/ GenerateFails \/ StageOnly \/ WriteSuite \/ WriteSuiteFails
  \/ VerifyUnavailable \/ BeginVerify \/ Verified \/ WriteMeta \/ WriteMetaFails
  \/ CheckRefused \/ BeginCheck \/ Checked \/ Verifying
  \/ Stopped

Spec == Init /\ [][Next]_vars

-----------------------------------------------------------------------------
States == {"idle", "end", "index", "clone", "stage", "verify", "verifying", "meta",
           "suite", "checking"}

TypeOK ==
  /\ pc \in States /\ exit \in {"ok", "error"} /\ started \in 0..MaxCommands
  /\ cmd \in GenCommands \cup CorpusCommands \cup CheckCommands \cup {NoCommand}
  /\ \A k \in DOMAIN outcomes : outcomes[k].ok \in BOOLEAN /\ outcomes[k].run \in 0..runs
  /\ \A s \in disk : s.run \in 1..runs /\ At(s.path) = {s}
  /\ scratch.state \in {"none", "fresh", "ready", "installed"}
  /\ scratch.state = "installed" => job.versions # <<>> /\ pc \in {"verifying", "checking"}
  /\ pc \notin {"idle", "end"} => queue # <<>>

(* A result speaks of its version: the named files ran, with that version  *)
(* installed, and the counts are those of that run.                        *)
Measured(r, name, files) ==
  \E e \in Range(log) :
    /\ e.name = name /\ e.files = files
    /\ e.version = r.version /\ e.installed = r.version
    /\ <<r.pass, r.fail>> = ParseTestOutput(e.output) /\ r.error = ~e.output.clean

Claims(r) == ~r.error \/ r.pass > 0 \/ r.fail > 0

(* Every result that counts tests, in a running verification and in a      *)
(* meta.json the command wrote, was measured with its version installed    *)
(* and with the files of the suite it describes, even though one scratch   *)
(* directory serves all versions and any step before it may have failed    *)
(* (VerifyMatrix, verifyOne, runVerify).                                   *)
ResultsMeasured ==
  /\ \A r \in Range(results) : Claims(r) => Measured(r, job.name, job.files)
  /\ \A s \in disk : s.complete /\ (\E k \in DOMAIN outcomes : outcomes[k].run = s.run) =>
       \A r \in Range(s.verify) : Claims(r) => Measured(r, s.path.name, s.files)

(* Exit status 0 of check means that for each suite asked for everything   *)
(* below its directory was run, at the version asked for, by a runner that *)
(* exited with 0 and reported passing tests and no failing one.  gen and   *)
(* corpus try every dependency and dependent whatever happens to the       *)
(* others, and exit with 0 exactly when none of them failed (cmdCheck,     *)
(* checkOneWithRuntime, genAll, cmdCorpus).                                *)
ExitTruthful ==
  pc = "idle" /\ cmd # NoCommand =>
    IF cmd.kind = "check"
    THEN exit = "ok" => \A k \in DOMAIN cmd.specs :
           LET spec == cmd.specs[k]
           IN \E e \in Range(log) :
                /\ e.name = spec.name /\ e.version = Wanted(spec) /\ e.installed = e.version
                /\ e.files = ReadGeneratedFiles(spec.name) /\ e.files # {}
                /\ e.output.clean
                /\ ParseTestOutput(e.output)[1] > 0 /\ ParseTestOutput(e.output)[2] = 0
    ELSE /\ exit = "ok" <=> outcomes # <<>> /\ \A k \in DOMAIN outcomes : outcomes[k].ok
         /\ outcomes # <<>> =>
              IF cmd.kind = "corpus" THEN Len(outcomes) = Len(cmd.dependents)
              ELSE \A n \in Range(cmd.deps) : FindDep(cmd.target, n) # NoDep =>
                     \E k \in DOMAIN outcomes : n \in {outcomes[k].item.dep.name,
                                                     outcomes[k].item.dep.purl}

(* What gen or corpus reported as generated is on disk when it ends, as    *)
(* that run left it: the suites of a command do not overwrite each other   *)
(* unless they are for one dependency name and one target identity, even   *)
(* when target names differ only in what their normal form loses           *)
(* (detectTargetName, normalizeTargetName, genOne).                        *)
SuitesKept ==
  pc = "idle" => \A k \in DOMAIN outcomes :
    LET o == outcomes[k]
        Same(p) == p.run # 0 /\ p.item.dep.name = o.item.dep.name
                   /\ p.item.identity = o.item.identity
        last == \A j \in DOMAIN outcomes : j > k => ~Same(outcomes[j])
    IN o.ok /\ o.run # 0 /\ last =>
         \E s \in disk : s.run = o.run /\ s.item = o.item /\ s.complete

(* README.md: "Automatic names that require normalization receive a suffix *)
(* hash so distinct source identities remain distinct."  That is, whatever *)
(* commands wrote to one output root, a complete suite under a name with a *)
(* hash is never replaced by that of another identity (detectTargetName).  *)
IdentitiesDistinct ==
  [][\A s \in disk, new \in disk' :
       s.complete /\ new.path = s.path /\ s.path.from.hashes # <<>> =>
         new.item.identity = s.item.identity]_vars
=============================================================================
