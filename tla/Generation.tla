----------------------------- MODULE Generation -----------------------------
(***************************************************************************)
(* `hyrum gen --run` for one dependency: genOne and everything it calls.   *)
(* A process stages the workspace, runs the skills (in sequence, or batch  *)
(* by batch), replaces the suite, optionally verifies and validates it,    *)
(* and writes meta.json last.  The workspace and the suite outlive the     *)
(* process, so the model repeats runs over them, with other options each   *)
(* time, and lets any run crash, be interrupted or fail at any step.       *)
(*                                                                         *)
(* Batch number 0 stands for work that belongs to no batch: the whole      *)
(* surface, the history and validate steps, and every step of an           *)
(* unbatched run.                                                          *)
(***************************************************************************)
EXTENDS Suite

CONSTANTS BatchCounts,   \* numbers of batches a run may have; 0: not batched
          MaxRuns,       \* bound on the number of processes started
          MaxFailures    \* bound on the number of backends that exit non-zero

ASSUME GenerationAssumption ==
  BatchCounts \subseteq Nat /\ MaxRuns \in Nat /\ MaxFailures \in Nat

VARIABLES
  pc,         \* where the process is; "idle" when none is running
  run,        \* number of processes started so far
  nBatches,   \* usage batches of the current run; 0: not batched
  verify,     \* the current run has --verify
  result,     \* how the last process ended
  ws,         \* the workspace: each name's artifact
  failures,   \* number of backends that exited non-zero so far
  cancelled,  \* the context was cancelled (SIGINT, SIGTERM)
  skill, batch, exit,   \* the current invocation and its exit status
  traced,     \* accepted usage outputs
  breaks,     \* accepted history output, or Absent
  gen,        \* generated files held in memory
  done,       \* batches whose generate step was accepted
  todo,       \* files still to be written
  recovered   \* steps accepted despite a backend failure

control == <<pc, run, nBatches, verify, result, failures>>
invocation == <<skill, batch, exit>>
collected == <<traced, breaks, gen, done, todo, recovered>>
vars == <<control, ws, cancelled, invocation, collected, suite>>

Batched == nBatches > 0
Batches == IF Batched THEN 1 .. nBatches ELSE {0}

Driver(b) == [run |-> run, skill |-> "driver", batch |-> b,
              form |-> "good", files |-> {}]

Phases == {"idle", "prepare", "context", "batch", "skill", "running", "exited",
           "restore", "replace", "remove", "write", "rename", "verify", "meta",
           "renameMeta"}

TypeOK ==
  /\ pc \in Phases
  /\ run \in Nat
  /\ nBatches \in BatchCounts \cup {0}
  /\ verify \in BOOLEAN
  /\ result \in {"none", "ok", "error", "crash"}
  /\ ws \in [Names -> Artifact \cup {Absent}]
  /\ failures \in Nat
  /\ cancelled \in BOOLEAN
  /\ skill \in Skills
  /\ batch \in 0 .. nBatches
  /\ exit \in Exits
  /\ traced \in SUBSET Artifact
  /\ breaks \in Artifact \cup {Absent}
  /\ gen \in SUBSET SuiteFile
  /\ done \in SUBSET Nat
  /\ todo \in SUBSET SuiteFile
  /\ recovered \in SUBSET (Skills \X Nat)
  /\ SuiteTypeOK

Init ==
  /\ pc = "idle" /\ run = 0 /\ result = "none"
  /\ nBatches = 0 /\ verify = FALSE
  /\ ws = [n \in Names |-> Absent]
  /\ failures = 0 /\ cancelled = FALSE
  /\ skill = "usage" /\ batch = 0 /\ exit = "ok"
  /\ traced = {} /\ breaks = Absent /\ gen = {} /\ done = {} /\ todo = {}
  /\ recovered = {}
  /\ SuiteInit

(***************************************************************************)
(* Process start and end.  Everything but the workspace and the suite is   *)
(* the process's own memory and is forgotten when it ends.                 *)
(***************************************************************************)
Forget ==
  /\ cancelled' = FALSE
  /\ skill' = "usage" /\ batch' = 0 /\ exit' = "ok"
  /\ traced' = {} /\ breaks' = Absent /\ gen' = {} /\ done' = {} /\ todo' = {}
  /\ recovered' = {}

End(r) ==
  /\ pc' = "idle" /\ result' = r
  /\ Forget
  /\ UNCHANGED <<run, nBatches, verify, failures>>

Goto(p) == pc' = p /\ UNCHANGED <<run, nBatches, verify, result, failures>>

Start ==
  /\ pc = "idle" /\ run < MaxRuns
  /\ pc' = "prepare" /\ run' = run + 1 /\ result' = "none"
  /\ nBatches' \in BatchCounts /\ verify' \in BOOLEAN
  /\ UNCHANGED <<failures, ws, cancelled, invocation, collected, suite>>

Crash ==
  /\ pc # "idle"
  /\ End("crash")
  /\ UNCHANGED <<ws, suite>>

Cancel ==
  /\ pc # "idle" /\ ~cancelled
  /\ cancelled' = TRUE
  /\ UNCHANGED <<control, ws, invocation, collected, suite>>

(***************************************************************************)
(* Staging.  Every transient file of an earlier run is removed before the  *)
(* context bundle, with the whole usage surface, is written.               *)
(***************************************************************************)
TransientNames == Names \ {"usage"}

TransientWithoutSurface == TransientNames \ {"surface"}    \* mutant: one forgotten

PrepareWorkspaceKeepingSurface ==
  /\ pc = "prepare" /\ Goto("context")
  /\ ws' = [n \in Names |-> IF n \in TransientWithoutSurface THEN Absent ELSE ws[n]]
  /\ UNCHANGED <<cancelled, invocation, collected, suite>>

PrepareWorkspace ==
  /\ pc = "prepare" /\ Goto("context")
  /\ ws' = [n \in Names |-> IF n \in TransientNames THEN Absent ELSE ws[n]]
  /\ UNCHANGED <<cancelled, invocation, collected, suite>>

NextSkill(s, b) ==
  /\ Goto("skill")
  /\ skill' = s /\ batch' = b /\ exit' = "ok"
  /\ UNCHANGED cancelled

StageContext ==
  /\ pc = "context"
  /\ ws' = [ws EXCEPT !["usage"] = Driver(0)]
  /\ NextSkill(IF Batched THEN "history" ELSE "usage", 0)
  /\ UNCHANGED <<collected, suite>>

StageFails ==
  /\ pc \in {"prepare", "context"}
  /\ End("error")
  /\ \/ UNCHANGED ws
     \/ pc = "context" /\ ws' = [ws EXCEPT !["usage"] = Driver(0)]
  /\ UNCHANGED suite

(***************************************************************************)
(* One invocation.  Staging the skill may fail before the old artifact is  *)
(* removed; once it is removed the backend runs (unless the context is     *)
(* already cancelled), writes its artifact or not, and exits.  A           *)
(* cancellation meanwhile kills it, or comes too late.                     *)
(***************************************************************************)
PrepareOutputMutant == ws                              \* mutant: nothing removed

PrepareOutput == [ws EXCEPT ![OutputFile[skill]] = Absent]

Launch ==
  /\ pc = "skill"
  /\ ws' = PrepareOutput
  /\ IF cancelled THEN Goto("exited") /\ exit' = "error"
                  ELSE Goto("running") /\ UNCHANGED exit
  /\ UNCHANGED <<cancelled, skill, batch, collected, suite>>

BackendWrite ==
  /\ pc = "running"
  /\ \E a \in BackendOutput(run, skill, batch) :
       ws' = [ws EXCEPT ![OutputFile[skill]] = a]
  /\ UNCHANGED <<control, cancelled, invocation, collected, suite>>

BackendExit ==
  /\ pc = "running" /\ pc' = "exited"
  /\ \/ exit' = "ok" /\ UNCHANGED failures
     \/ cancelled /\ exit' = "error" /\ UNCHANGED failures
     \/ /\ failures < MaxFailures /\ failures' = failures + 1
        /\ exit' \in {"error", "account"}
  /\ UNCHANGED <<run, nBatches, verify, result, ws, cancelled, skill, batch, collected, suite>>

(***************************************************************************)
(* What the driver does with an invocation's outcome.                      *)
(***************************************************************************)
GotoBatch(b) ==
  /\ Goto("batch")
  /\ batch' = b
  /\ UNCHANGED <<skill, exit, cancelled>>

GotoPhase(p) == Goto(p) /\ UNCHANGED <<invocation, cancelled>>

AfterOptional ==      \* the step after usage or history, which may both fail
  \/ skill = "usage" /\ ~Batched /\ NextSkill("history", 0)
  \/ skill = "usage" /\ Batched /\ NextSkill("generate", batch)
  \/ skill = "history" /\ ~Batched /\ NextSkill("generate", 0)
  \/ skill = "history" /\ Batched /\ GotoBatch(1)

AfterGenerateStuck ==        \* mutant: the batch counter is not advanced
  IF Batched
  THEN IF batch < nBatches THEN GotoBatch(batch) ELSE GotoPhase("restore")
  ELSE GotoPhase("replace")

AfterGenerateOneMore ==      \* mutant: one batch too many
  IF Batched
  THEN IF batch <= nBatches THEN GotoBatch(batch + 1) ELSE GotoPhase("restore")
  ELSE GotoPhase("replace")

AfterGenerate ==
  IF Batched
  THEN IF batch < nBatches THEN GotoBatch(batch + 1) ELSE GotoPhase("restore")
  ELSE GotoPhase("replace")

StepFailedMutant ==          \* mutant: a failed batch is skipped like a failed trace
  \/ AfterOptional /\ UNCHANGED collected
  \/ skill = "generate" /\ AfterGenerate /\ UNCHANGED collected
  \/ skill = "validate" /\ GotoPhase("meta") /\ UNCHANGED collected

StepFailed ==
  \/ AfterOptional /\ UNCHANGED collected
  \/ skill = "generate" /\ End("error")
  \/ skill = "validate" /\ GotoPhase("meta") /\ UNCHANGED collected

Noted == IF exit = "ok" THEN recovered ELSE recovered \cup {<<skill, batch>>}

GeneratedFilesMutant(a) ==                               \* mutant: no prefix
  {[dir |-> 0, path |-> p, run |-> run,
    batch |-> batch, outcome |-> Outcome(exit, cancelled)] : p \in a.files}

(* Files of one batch get a directory of their own when there are several. *)
GeneratedFiles(a) ==
  {[dir |-> IF nBatches > 1 THEN batch ELSE 0, path |-> p, run |-> run,
    batch |-> batch, outcome |-> Outcome(exit, cancelled)] : p \in a.files}

TraceAccepted(a) ==
  /\ skill = "usage" /\ AfterOptional
  /\ traced' = traced \cup {a} /\ recovered' = Noted
  /\ UNCHANGED <<breaks, gen, done, todo>>

HistoryAccepted(a) ==
  /\ skill = "history" /\ AfterOptional
  /\ breaks' = a /\ recovered' = Noted
  /\ UNCHANGED <<traced, gen, done, todo>>

(* A result that does not decode ends the run, and so does an escaping     *)
(* path when the batch prefix is added; unbatched, ReplaceFilesUnder       *)
(* refuses it.                                                             *)
GenerateAccepted(a) ==
  /\ skill = "generate"
  /\ IF a.form = "junk" \/ (a.form = "escaping" /\ Batched)
     THEN End("error")
     ELSE /\ AfterGenerate
          /\ gen' = gen \cup GeneratedFiles(a)
          /\ done' = done \cup {batch} /\ recovered' = Noted
          /\ UNCHANGED <<traced, breaks, todo>>

ValidateAccepted(a) ==
  /\ skill = "validate" /\ GotoPhase("meta")
  /\ recovered' = IF a.form = "junk" THEN recovered ELSE Noted
  /\ UNCHANGED <<traced, breaks, gen, done, todo>>

(* The batched driver files every accepted output in the workspace; that   *)
(* may fail.                                                               *)
RecordFails == Batched /\ skill # "validate" /\ End("error")

StepAccepted(a) ==
  \/ RecordFails
  \/ TraceAccepted(a) \/ HistoryAccepted(a) \/ GenerateAccepted(a) \/ ValidateAccepted(a)

Finish ==
  /\ pc = "exited"
  /\ LET a == ws[OutputFile[skill]] IN
       IF FinishRun(skill, a, exit, cancelled) THEN StepAccepted(a) ELSE StepFailed
  /\ UNCHANGED <<ws, suite>>

(* RunSkill returns before prepareOutput: the skill or its prompt cannot   *)
(* be staged.  The batched driver has already removed breaks.json before   *)
(* history and tests.json before generate.                                 *)
SkillUnavailable ==
  /\ pc = "skill" /\ StepFailed
  /\ ws' = IF Batched /\ skill \in {"history", "generate"}
           THEN [ws EXCEPT ![OutputFile[skill]] = Absent] ELSE ws
  /\ UNCHANGED suite

(***************************************************************************)
(* Batches share the workspace root, one after the other.                  *)
(***************************************************************************)
BatchWorkspaceMutant ==                     \* mutant: the last trace is left behind
  [ws EXCEPT !["usage"] = Driver(batch),
             !["breaks"] = IF batch = 1 THEN breaks ELSE Absent]

BatchWorkspace ==
  [ws EXCEPT !["usage"] = Driver(batch),
             !["breaks"] = IF batch = 1 THEN breaks ELSE Absent,
             !["surface"] = IF batch = 1 /\ breaks # Absent THEN @ ELSE Absent]

PrepareBatch ==
  /\ pc = "batch"
  /\ ws' = BatchWorkspace
  /\ NextSkill("usage", batch)
  /\ UNCHANGED <<collected, suite>>

MergedTrace ==
  IF traced = {} THEN ws["surface"]
  ELSE IF \E a \in traced : a.form = "junk" THEN Absent ELSE Driver(0)

RestoreBatched ==
  /\ pc = "restore"
  /\ ws' = [ws EXCEPT !["usage"] = Driver(0),
                      !["breaks"] = IF breaks = Absent THEN @ ELSE breaks,
                      !["surface"] = MergedTrace,
                      !["tests"] = Driver(0)]
  /\ GotoPhase("replace")
  /\ UNCHANGED <<collected, suite>>

(***************************************************************************)
(* Publishing: all paths are checked, then the old suite is removed, then  *)
(* the new files are written; meta.json follows verification.              *)
(***************************************************************************)
RefuseReplace ==
  /\ pc = "replace" /\ ws["tests"].form = "escaping"
  /\ End("error")
  /\ UNCHANGED <<ws, suite>>

BeginReplace ==
  /\ pc = "replace" /\ ws["tests"].form # "escaping"
  /\ GotoPhase("remove")
  /\ UNCHANGED <<ws, collected, suite>>

RemoveStep ==
  /\ pc = "remove" /\ RemoveEntry
  /\ UNCHANGED <<control, ws, cancelled, invocation, collected>>

RemoveDoneMutant ==                          \* mutant: write into the old suite
  /\ pc = "remove"
  /\ GotoPhase("write") /\ todo' = gen
  /\ UNCHANGED <<ws, traced, breaks, gen, done, recovered, suite>>

RemoveDone ==
  /\ pc = "remove" /\ SuiteEmpty
  /\ GotoPhase("write") /\ todo' = gen
  /\ UNCHANGED <<ws, traced, breaks, gen, done, recovered, suite>>

OpenFile ==
  /\ pc = "write" /\ todo # {}
  /\ OpenTemp(run) /\ GotoPhase("rename")
  /\ UNCHANGED <<ws, collected>>

CloseFile ==
  /\ pc = "rename"
  /\ \E f \in todo : RenameFile(run, f) /\ todo' = todo \ {f}
  /\ GotoPhase("write")
  /\ UNCHANGED <<ws, traced, breaks, gen, done, recovered>>

WriteDone ==
  /\ pc = "write" /\ todo = {}
  /\ GotoPhase(IF verify THEN "verify" ELSE "meta")
  /\ UNCHANGED <<ws, collected, suite>>

(* Verification runs the tests in a scratch directory; validate only       *)
(* follows when some test ran, with verify.json staged for it.             *)
VerifyRan ==
  /\ pc = "verify" /\ NextSkill("validate", 0)
  /\ ws' = [ws EXCEPT !["verify"] = Driver(0)]
  /\ UNCHANGED <<collected, suite>>

VerifyRanNothing ==
  /\ pc = "verify" /\ GotoPhase("meta")
  /\ UNCHANGED <<ws, collected, suite>>

OpenMeta ==
  /\ pc = "meta"
  /\ OpenTemp(run) /\ GotoPhase("renameMeta")
  /\ UNCHANGED <<ws, collected>>

CloseMeta ==
  /\ pc = "renameMeta"
  /\ RenameMeta(run, [run |-> run, batches |-> done, recovered |-> recovered, files |-> gen])
  /\ End("ok")
  /\ UNCHANGED ws

(* An I/O error between two file operations, or within one, ends the run   *)
(* where it stands.                                                        *)
IOFails ==
  /\ pc \in {"batch", "restore", "remove", "write", "meta"}
  /\ End("error")
  /\ UNCHANGED <<ws, suite>>

WriteFails ==
  /\ pc \in {"rename", "renameMeta"}
  /\ DropTemp(run) /\ End("error")
  /\ UNCHANGED ws

(***************************************************************************)
(* The specification.  Fairness: the process keeps going and every backend *)
(* invocation ends, since it runs under a turn limit.  Users, signals and  *)
(* crashes owe nothing.                                                    *)
(***************************************************************************)
Program ==
  \/ PrepareWorkspace \/ StageContext \/ StageFails
  \/ SkillUnavailable \/ Launch \/ BackendExit \/ Finish
  \/ PrepareBatch \/ RestoreBatched
  \/ RefuseReplace \/ BeginReplace \/ RemoveStep \/ RemoveDone
  \/ OpenFile \/ CloseFile \/ WriteDone
  \/ VerifyRan \/ VerifyRanNothing
  \/ OpenMeta \/ CloseMeta \/ IOFails \/ WriteFails

Finished == pc = "idle" /\ run = MaxRuns /\ UNCHANGED vars

Next == Start \/ Cancel \/ Crash \/ BackendWrite \/ Program \/ Finished

Spec == Init /\ [][Next]_vars /\ WF_vars(Program)
-----------------------------------------------------------------------------
(* Whatever a skill finds in the workspace was put there by this run: no   *)
(* artifact of an earlier run, however it ended, reaches a backend.        *)
RunInputsCurrent ==
  pc = "running" => \A n \in Names : ws[n] # Absent => ws[n].run = run

(* The artifact finishRun reads was written by the very invocation that    *)
(* just ended, so a failing backend never succeeds on an older output.     *)
ArtifactFresh ==
  pc \in {"running", "exited"} =>
    LET a == ws[OutputFile[skill]] IN
      a = Absent \/ (a.run = run /\ a.skill = skill /\ a.batch = batch)

(* Batches do not leak into each other: a batch's skills see its own usage *)
(* subset and at most its own trace, and only batch 1 sees the history;    *)
(* validate sees the merged inputs.                                        *)
BatchInputs ==
  pc = "running" /\ Batched =>
    /\ skill \in {"usage", "generate"} =>
         /\ ws["usage"] = Driver(batch)
         /\ ws["surface"] # Absent => ws["surface"].batch = batch
         /\ ws["breaks"] = IF batch = 1 THEN breaks ELSE Absent
    /\ skill = "validate" =>
         /\ ws["usage"] = Driver(0) /\ ws["tests"] = Driver(0)
         /\ ws["verify"] = Driver(0)

(* A suite never mixes two runs, and once meta.json is there it describes  *)
(* the files beside it and no temporary is left among them, whatever       *)
(* crashed before.                                                         *)
SuiteUnmixed ==
  /\ \A f, g \in files : f.run = g.run
  /\ meta # NoMeta => temp = {} /\ \A f \in files : f.run = meta.run

(* Partial output is never published silently: a file from a backend that  *)
(* failed is listed in recovered_steps, and a file from a backend that was *)
(* cancelled or lost its account is not published at all.                  *)
RecoveryFlagged ==
  /\ \A f \in files : f.outcome # "fatal"
  /\ \A f \in files :
       meta # NoMeta /\ f.outcome = "recovered" => <<"generate", f.batch>> \in meta.recovered

(* A failing generate step cannot empty the suite: each recovered batch    *)
(* contributed at least one file to what meta.json describes.              *)
RecoveredNotEmpty ==
  \A s \in meta.recovered : s[1] = "generate" => \E f \in meta.files : f.batch = s[2]

(* Exit status 0 means the suite on disk is this run's, complete: all its  *)
(* batches, all its files under distinct names, meta.json in place.        *)
SuccessMeansPublished ==
  pc = "idle" /\ result = "ok" =>
    /\ meta.run = run /\ meta.batches = Batches
    /\ meta.files = files

(* A started run ends: no skill, batch or file sequence goes on for ever.  *)
EveryRunEnds == pc # "idle" ~> pc = "idle"
-----------------------------------------------------------------------------
(* docs/skills.md: "If the backend fails or the file is absent,            *)
(* hyrum-generate falls back to usage.json."  That is, generate finds no   *)
(* surface.json that the usage step did not return as its result.          *)
RejectedTraceNotRead ==
  pc = "running" /\ skill = "generate" /\ ws["surface"] # Absent => ws["surface"] \in traced

(* docs/consumer-ci.md: "Cancellation and provider-account failures remain *)
(* fatal even when an artifact exists."  That is, a run whose account      *)
(* ended the last skill does not exit with success.                        *)
AccountFailureFatal == [][pc # "idle" /\ exit = "account" => result' # "ok"]_vars
-----------------------------------------------------------------------------
(* What a reader of the suite may rely on; see Publication.tla.            *)
Current == IF meta # NoMeta /\ meta.files = files /\ temp = {} THEN meta.run ELSE 0

P == INSTANCE Publication WITH
       current <- Current, attempt <- run, ready <- done = Batches

SuitePublication == P!Spec
=============================================================================
