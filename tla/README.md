# Verification of hyrum

TLA+ specifications of [hyrum](../src/README.md), the TLC runs that check them
on small instances, and TLAPS proofs for all instances. Paths below are
relative to the repository.

Hyrum generates and runs *Hyrum's tests*: it stages a workspace with what a
target repository uses of a dependency, lets agent backends trace the usage,
read the history and write tests, and publishes the tests as a *suite* that
later dependency updates are checked against.

## The system

| component | code | state it keeps | operations |
|---|---|---|---|
| generation driver | `cmd/hyrum/gen.go`, `batch.go`, `workspace.go` | the workspace `<work>/<target>/<eco>/<dep>`, which outlives the process; the run's results in memory | `genAll`, `genOne`, the sequential and the batched skill sequence, `runVerify`, `runValidate` |
| skill invocation | `internal/hyrum/run.go`, `container.go` | one output file per skill | `RunSkill`: stage, `prepareOutput`, backend, `finishRun` |
| suite publication | `run.go` (`ReplaceFilesUnder`), `safefs/root.go` | `<out>/<dep>/from_<target>`: generated files and `meta.json` | replace, write file, write `meta.json` |
| usage batching | `usage/selection.go`, `batch.go` | none (loops) | `SelectSymbols`, `PartitionSurface`, `mergeUsageBatches`, merge of traces |
| contained file access | `internal/safefs/root.go` | files under a root | write through a temporary, remove, bounded reads |
| dependency staging | `gen.go` (`stageContext` and below) | a shared clone per dependency under `.deps`; the context bundle | resolve baseline, clone, check out a tag, outline, restore |
| usage indexing | `usage/index.go`, `usage.go`, `scope.go` | collector of symbols and sites | scan imports, members, activations |
| outline budget | `cmd/hyrum/outline_budget.go` | selected declarations, bytes used | select under the limit |
| history index | `internal/hyrum/history.go` | commits by dependency | stream and split `git log`, query, gather |
| verification, check | `verify.go`, `check.go` | scratch trees | run a suite against versions, read a suite back |
| corpus, target identity | `corpus.go`, `target.go`, `surface.go` (`findDep`) | none | names of targets and suites, loop over dependents |
| configuration | `internal/config/config.go`, `gen.go` (`resolveGenOptions`) | none | parse, validate, resolve with flags |
| container runner, sanitiser, Python environments, command line | the rest | none | external tool, filters, a package manager, dispatch |

They interact through files. `genOne` prepares and stages a workspace; each
skill reads from it and leaves one JSON artifact in it; the driver reads the
artifact back and passes on, in memory or in the workspace, what the next skill
needs. The suite is written by `gen` and read by `check`. Only the context
(SIGINT, SIGTERM) reaches a process while it runs.

What is hard: the workspace and the suite survive crashes and failed runs, so
every read has to be of something current; a backend can fail *and* leave an
artifact, which is sometimes accepted (recovery); batches reuse one workspace
root; replacing a suite is not atomic. What makes each component correct:

- driver: a skill sees this run's, and this batch's, inputs only; the run ends;
  exit 0 means the complete result is published.
- invocation: a result is what this backend wrote; cancelled and
  account-refused backends have no result; recovered ones are flagged.
- publication: a suite is never two runs' files, `meta.json` is written when all
  of its run's files were, and nothing is added to a suite that has one; a run
  without all its tests leaves the old suite alone.
- batching: both limits hold, no call site lost or repeated, no batch closed
  early, and merging gives the surface back.
- staging: what `meta.json` says of baseline, reference and outline is the tree
  the evidence came from; the clone ends where it was.
- indexing, outline, history: each site, declaration or commit once, within
  its bound.
- check: one version is reported per requested suite and failures are never
  read as success.
- target identity: no two identities among a command's targets share a suite
  directory.

## Modules

| module | what it is |
|---|---|
| `Skill` | artifacts, backends' possible outputs, `finishRun` and `validateRecoveredOutput` as operators |
| `Suite` | the suite directory: files, temporaries and `meta.json`, and the file operations on them |
| `Generation` | the driver: EXTENDS `Suite` (which EXTENDS `Skill`), one action per step of `genOne` and what it calls |
| `Publication` | the abstract promise: a suite is one attempt's complete output or none |
| `UsageBatches` | the loop of `partitionSortedSymbols`, one action per iteration |
| `UsageMerge` | `mergeUsageBatches` over the batches of `UsageBatches`, as a fold |
| `Staging` | `stageContext` and `GatherHistory` over the dependency's clone and the workspace |
| `OutlineBudget` | the three passes of `selectDependencyOutline`, one action per offered file |
| `UsageScan` | `IndexManyWithOptions`: one walk over the target for all dependencies of an ecosystem |
| `HistoryIndex` | `BuildHistoryIndex` and `For`: git, the pipe, the bounded scanner and the index |
| `Targets` | target names and the selection of dependencies, as operators |
| `Options` | `hyrum.yaml` and the precedence of options, as operators |
| `Verification` | `VerifyMatrix` and `parseTestOutput` |
| `Commands` | `gen`, `corpus` and `check` one after the other over the suites on disk; EXTENDS `Targets`, `Options` and `Verification` |
| `MCGeneration`, `MCUsageBatches`, `MCStaging`, `MCOutlineBudget`, `MCUsageScan`, `MCHistoryIndex`, `MCCommands` | instances for TLC |
| `GenerationProofs`, `UsageBatchesProofs`, `StagingProofs`, `OutlineBudgetProofs`, `UsageScanProofs`, `HistoryIndexProofs`, `CommandsProofs` | theorems about the modules they are named for (`UsageBatchesProofs` also about `UsageMerge`) |
| `Induction` | induction over sets of numbers, and what a loop over a sequence computes, for the proofs |

### Generation and its parts

`pc` is the position in `genOne`; `run` numbers processes. The workspace `ws`
maps the six files whose provenance matters (`usage`, `surface`, `breaks`,
`tests`, `verify`, `verdict`, all `.json`) to the run, skill and batch that
wrote them and to a *form*: not JSON, JSON that does not decode, a result with
a path that leaves the suite, or good. `traced`, `breaks`, `gen`, `done` and
`recovered` are the results the process holds in memory and loses when it
ends. `files`, `temp` and `meta` are the suite on disk.

| code | actions |
|---|---|
| `genAll`/`genOne` begin; crash; signal | `Start`, `Crash`, `Cancel` |
| `prepareWorkspaceUnder`, `stageContext` | `PrepareWorkspace`, `StageContext`, `StageFails` |
| `runSkill` up to the backend | `SkillUnavailable`, `Launch` |
| backend | `BackendWrite` (any number of times), `BackendExit` |
| `finishRun` and the caller's use of it | `Finish`, with one disjunct per skill and outcome in `StepAccepted` and `StepFailed` |
| `prepareGenerationBatch`, `restoreBatchedWorkspace` | `PrepareBatch`, `RestoreBatched` |
| `writeFilesUnder`, `safefs.WriteFile` | `RefuseReplace`, `BeginReplace`, `RemoveStep`, `RemoveDone`, `OpenFile`, `CloseFile`, `WriteDone` |
| `runVerify`, `runValidate` | `VerifyRan`, `VerifyRanNothing`, then a skill invocation |
| `writeJSONUnder(meta.json)` | `OpenMeta`, `CloseMeta` |
| an error between or within file operations | `IOFails`, `WriteFails`, `RecordFails` |

Abstractions. Only `gen --run` is modelled, for one dependency and one process
at a time (nothing in the code keeps two processes apart, see the hazards).
Staging writes the whole context in one step here (`Staging` takes it apart).
A backend writes its own output file and nothing else. The files of a result
are a set of paths, none of them `meta.json` and no path twice. Costs, notes
and the contents of files are left out. `meta.files` is a history field: what the
run had written when it wrote `meta.json`. The file itself does not list the
suite's files, their number is only printed. `SuiteUnmixed` and
`SuitePublication` are to be read with that: a removal that was interrupted can
leave a `meta.json` with some of its files gone, which `Publication` counts as
retracted, although nothing in the directory shows it.

`Publication` has three variables: the attempt whose complete suite can be
read, the number of attempts, and whether the running attempt has all its
tests. The mapping in `Generation` takes `current` to be the run of `meta.json`
when the files beside it are the ones that run wrote and no temporary is left,
and 0 otherwise; `ready` is `done = Batches`. `SuitePublication` says that every
step is one of `Publication`'s or a stutter: an attempt without all its tests
leaves the suite alone, suites are retracted before others are published, and
only the latest attempt publishes.

### UsageBatches and UsageMerge

A surface is given by its call sites in sorted order: `bounds` says where each
symbol's sites begin, `twins` which symbols have the name of the one before
them (an import and an activation). A fragment is a range of a symbol's sites
in a batch. Sorting is the model's numbering; that a batch's JSON is a copy of
its fragments is taken from the code.

### Staging

`clone` is the dependency's working tree under `.deps`, which outlives the
process and is shared by all runs: the tree checked out (none, the default
branch or a tag) and whether instruction files were stripped since. `staged` is
what staging found out and `meta.json` will say, `context` what `context.json`
says, `bundle` from which tree each evidence file in the workspace came.
`ensured` and `gitFailed` are history variables for the properties.

| code | actions |
|---|---|
| `prepareWorkspaceUnder` | `PrepareWorkspace` |
| `lookupDependency`, `dependencyMetadata` | `LookupDependency` (any outcome) |
| `stageDependencySource` | `RejectRepository`, `EnsureSource`, `EnsureFails`, `LinkSource` |
| `checkoutVersion` and its restore function | `CheckoutVersion`, `CheckoutUnmatched`, `UnmatchedFails`, `Restore` |
| `stageDependencyOutline` | `StripTag`, `StripTagFails`, `PackOutline`, `StripAgain`, `PackFailed`, `WriteContext`, `WriteSelection`, `WriteOutline` |
| `GatherHistory` | `GatherHistory` |
| errors, crash, signal | `Fails`, `Crash`, `Cancel` |

The registry, git, the stripping and the packing are external: each may
fail wherever the code handles its failure. `clone.Ensure` may leave an existing
clone at the tree it finds, or at the default branch. Which release is the
lowest that satisfies a constraint, the usage surface and the outline's contents
are not modelled here; skills do not write to `dep/`.

### OutlineBudget

Files and exported names are numbers in the order of their sorting, so that the
code's sorted loops are loops over numbers. `todo` holds the candidates of the
running pass, `queue` and `visited` the work list of
`addReferencedOutlineCandidates`, `selected`, `rejected` and `entrySize` are the
fields of `outlineBudgetSelection`.

| code | actions |
|---|---|
| `indexDependencyOutline`, `requiredOutlineCandidates` | `Init`, from `Direct`, `AncestorEntries`, `Observed` |
| `budget.add` | `Offer`, with `Known`, `Reject`, `Select` |
| `addReferencedOutlineCandidates` | `StartReferences`, `Visit`, then `Offer`s |
| `outlineContextCandidates` | `StartContext`, then `Offer`s |
| `result`, `omissionReason` | `Result`, `Omission` |

The document's header contains two counts, and its length depends on their
digits: `Header` is a constant plus the digits in base `Radix`, which the
instance sets to 2 so that a few files cross the boundaries that ten and a
hundred files cross in the program. `OutlineAssumption` says that a file's own heading
outweighs what the header can lose, as it does in the code (a heading and two
fences). Which identifiers a file's text mentions, how long it is when rendered
and which module its path stands for are inputs; entry points are followed for
references only when no file declares a used name, as in the code.

### UsageScan

A file is what the outline library and the literal scanner find in it: imports,
quoted strings, member references. `Resolve` is the loop over the PURLs;
`SkipFile`, `OpenFile`, `RecordImports`, `RecordActivations` and `RecordRefs` are
`scanFileMany` for all targets of the ecosystem at once, as in the code, and
`EndWalk` delivers the ecosystem's surfaces. The loops inside a file are folds over its imports,
literals and references, with the body of the loop as an operator (`BindImport`,
`RecordImport`, `RecordLiteral`, `RecordRef`). `receivers` and `sites` are per
dependency; a site's name is a sequence of segments, so that `module.member` is
a concatenation. `Stop` is every `ctx.Err` check. What a surface should contain is
stated independently, by quantifiers over one dependency and one file
(`ExpectedSites`): the last import that binds a local decides what it stands for.
Path filters and scopes are a status of the file.

### HistoryIndex

git is a process that writes pieces of commits into a pipe of `PipeSize` pieces;
the scanner reads any number of them at a time and holds at most `MaxRecord`. A
commit's first piece has all its fields, its last completes body and patch, so a
truncated record would be seen as one that is not `whole`. `GitFails` may happen
at any time, `Kill` is `exec.CommandContext`. `Wait` is `cmd.Wait`, which returns
only when git has exited; `os/exec` closes the reading end of the pipe then and
not before. Which names a message or a diff mentions is an input. `Needles` are the
names as the caller passed them: one passed twice gets each commit twice (`Times`), as in
`BuildHistoryIndex`, and `For` drops the second by the commit's hash.

### Commands and its parts

`disk` is the set of suite directories, each with its path, the last generation that touched it,
its files and whether `meta.json` completes it. A command takes the elements of
its loop from `queue` and leaves `outcomes`; `exit` is the process's status. What
happens inside one generation is `Generation`; here it stages only, fails
before the suite is touched, fails in the middle of writing it, or completes.

| code | actions |
|---|---|
| `cmdGen` with `config.Load`, `resolveGenOptions`, `selectGenDeps` | `StartGen`, with the operators of `Options` and `Targets` |
| `cmdCorpus` | `StartCorpus`, `DependentFails`, `CloneDependent` |
| `genAll`, `genOne` | `IndexBuilt`, `IndexFails`, `GenerateFails`, `StageOnly`, `WriteSuite`, `WriteSuiteFails`, `WriteMeta`, `WriteMetaFails` |
| `runVerify` | `VerifyUnavailable`, `BeginVerify`, `Verified` |
| `VerifyMatrix`, `verifyOne` | `MatrixFails`, `SkipVersion`, `InitManager`, `Install`, `InstallFails`, `RunTests` |
| `cmdCheck`, `checkOneWithRuntime` | `StartCheck`, `CheckRefused`, `BeginCheck`, `Checked` |
| return from the command | `End`, `Nothing` |

A package manager that reports success has installed the version asked for; one
that fails leaves what was installed, or nothing. A test run is what the three
parsers of `parseTestOutput` would count in its output and whether it exited
with 0; the outputs include a summary without failures from a runner that
exited with an error. `log` is a history variable: every test run of the current
command with what was installed at the time.

A name or a path is a sequence of parts, and a generated name is a text with the
hashes appended to it, each standing for the text it was made from:
`normalizeTargetName` and `detectTargetName` append ten digits of SHA-256, which
are assumed to differ for different texts, and a text that ends like a hash is not
considered. A target of `gen` may be a package nested in a repository (`rel` is its
path there). A dependent of `corpus` may not, and `CommandsAssumption` says so:
`cmdCorpus` analyses the root of the clone it has just made. The root `"flag"` of a suite
path stands for one `--out` directory that all commands with that flag share.

Writing a suite may fail after the removal of some old files, of all of them, or
after some of the new ones. The directory then counts as the failed run's, with
whatever files are left; an old `meta.json` that the removal may have spared is not
represented, since neither `gen` nor `check` reads one.

The operators of `Options` decide which command lines start and which fail. That
a flag wins over the file and the file over the default is part of `Source`; no
property states it, because it would only repeat that definition.

## Runs

| run | instance | what it shows |
|---|---|---|
| `generation` | 2 processes, 1 path, 0 or 2 batches, 1 failing backend | the safety invariants, the refinement of `Publication`, and `EveryRunEnds` |
| `usage_batches` | every surface of at most 4 symbols with at most 3 sites each, every pair of limits 0..3 | the batching properties, and that merging restores the surface |
| `staging` | 3 processes, 2 releases (one known by two tags), every outcome of registry and git | the staging properties |
| `outline_budget` | 7 files (two packages, documentation, tests, a README), all mixes of short and long, declaring and referring, 3 usage surfaces, 3 module sets, 5 limits | the selection properties |
| `usage_scan` | 4 dependencies in 2 ecosystems, 3 requests, pairs of files from a set of 72 | the indexing properties |
| `history_index` | 3 needles of 2 names, all histories of 3 commits of 4 kinds, and histories with an oversized record; a scanner of 4 pieces, a pipe of 2 | loss, order and repetition; building ends |
| `commands` | any 2 of 15 `gen`, 4 `corpus` and 5 `check` command lines on 10 targets, 4 test outputs, 2 releases | truth of results and exit statuses, suites kept |
| `oversized_record` | 3 histories, records of up to 6 pieces, a scanner of 4, a pipe of 1 | a finding, below |
| `rejected_trace` | 1 unbatched process | a finding, below |
| `account_failure` | 1 unbatched process | a finding, below |
| `merged_activations` | an import and an activation with one site each, batches of one | a finding, below |
| `identities` | two `gen` into one `--out`, for targets of which one has a hash of its package name, one of its path | a finding, below |

Why the bounds are enough. Staleness and mixing need two runs, the old one and
the one that may trip over it; a third meets the same workspace, since only the
latest writer of each file is in the state. Leaks between batches need two
batches. Two files of one name need two batches and one path. One failing backend,
at any step of either process and with any leftover artifact, is recovered or
refused there, and what it leaves meets the rest of its run and all of the next;
crashes, signals and failures of the driver's own file operations are not bounded. In `usage_batches` a symbol can exceed the site limit, be split
over three batches, share a batch with its neighbours at every boundary and
have no sites at all. In `staging`, a run can find the clone at a tag of the
other release, left by one that found a workspace with an outline. In `outline_budget`, a file
can be refused and found again by a later pass, be the target of a reference
from a file selected after it, and tie with another as the nearest declaration;
the limits lie between one that fits nothing and one that fits every short file. In `usage_scan`, two files are enough to leak
bindings from one to the next, two dependencies share a module, and one of them
binds the same local twice. In `history_index`, separators fall on every
position of a read, and a read can end in the middle of every record. In
`commands` two commands allow a suite to be replaced, nested below another,
left half-removed or half-written and then checked; a third only repeats what the second does
to the first. `MaxRuns`, `MaxFailures` and `MaxCommands` are the only counters bounded
by guards.

Fairness. `EveryRunEnds` assumes weak fairness of `Program`, the process's own
next step together with its backend's exit: a single process runs its steps one
after the other, and `harness.Run` waits for a backend that is given a limit of
turns and is killed on cancellation. Users, signals, crashes and what
a backend writes are not assumed to happen, and a backend may write for as long
as it has not exited. `IndexEnds` assumes weak fairness of `Git` (git runs until it
has written everything or the pipe is full), of `Scanning` (hyrum's one thread
reads until it has to wait for git) and of `Kill` (a cancelled context kills
git): all of it the operating system's scheduling. Failures and cancellation are not assumed
to happen. It is stated for histories whose records fit the scanner; without that
condition it is false, see `oversized_record`. All other properties are safety properties.

Deadlock is checked in every run: when the last process is over, the last
batch is closed or the last command has ended, the specification stutters
explicitly (`Finished`, `Stopped`).

## Findings

- **A rejected trace is still read.** docs/skills.md: "If the backend fails or
  the file is absent, `hyrum-generate` falls back to `usage.json`."
  `runGenerateSkills` skips the result of a usage step that failed, but the
  `surface.json` it rejected stays in the workspace and `hyrum-generate` uses it
  when it is there. Run `rejected_trace`.
- **An account failure of the last step is not fatal.** docs/consumer-ci.md:
  "Cancellation and provider-account failures remain fatal even when an
  artifact exists." `finishRun` refuses the artifact, but `genOne` prints the
  error of `runValidate`, writes `meta.json` and returns nil. Run
  `account_failure`.
- **Activations lose their kind in the merged surface.** `usage/index.go`:
  "Activation sites remain distinct from imported symbols with the same name."
  `mergeUsageBatches` looks symbols up by name only. Run `merged_activations`.
- **An oversized git record hangs the index.** `history.go` says of
  `maxLogRecord` that "It exists so a repository with a multi-megabyte commit body
  or patch cannot exhaust memory via bufio.Scanner's growing buffer", and
  `streamLog` means to return the scanner's error. It first calls `cmd.Wait`
  without reading on, so git stays blocked on the full pipe and `Wait` does not
  return. With more output left than the pipe holds, `gen` and `corpus` hang
  until they are cancelled. Run `oversized_record`.
- **Two identities can share a target name.** README.md: "Automatic names that
  require normalization receive a suffix hash so distinct source identities
  remain distinct." The hash of a changed name and that of a nested package's path
  are appended in the same way, so a package `Acme-App` at a repository's root and a
  package `acme-app` in a directory `Acme-App` get one name. Two runs of `gen`, one for
  each, with the same `--out` and dependency, publish to one directory, and the second
  removes the first's suite. One `corpus` cannot do this, since all its dependents are
  roots (`SuitesKept`). Run `identities`.

## Proofs

Proved by TLAPS for every value of the constants, from the named assumptions of the
modules, which TLC evaluates in the runs. They say what the inputs are:
`GenerationAssumption` (batch counts and bounds are natural numbers),
`UsageBatchesAssumption` (limits are natural numbers, `bounds` starts at 0 and
does not decrease), `StagingAssumption` (the tags of a release are tags of the
repository, and the names used for the default branch and for nothing are no tags
or releases), `OutlineAssumption` (above), `UsageScanAssumption` (files, requests and
activations are sequences of what the scanner can find, and `None` is no local),
`HistoryAssumption` (a commit's message is at least one piece, the pipe and the
scanner's limit hold at least one, and commits mention only names that were asked
for), `VerificationAssumption` and `CommandsAssumption` (test outputs are counts, command
lines have the shape their kind has, and a dependent of `corpus` is the root of its clone).

`GenerationProofs`
- `TypeCorrect`: `Spec => []TypeOK`. The type invariant is not inductive: the
  current batch is typed by the number of batches, which `Start` chooses anew.
  `IdleClean` adds that an idle process has forgotten its memory.
- `SuiteNeverMixed`: `Spec => []SuiteUnmixed`. Inductive with `OwnFiles`
  (files held in memory, or still to be written, are this run's) and
  `PublishingClean` (between the first file and `meta.json` the directory holds
  this run's files, its temporary at most, and no `meta.json`).
- `ArtifactAlwaysFresh`: `Spec => []ArtifactFresh`. Launch removes the output
  file, and until the next launch only this invocation's backend writes it.
- `InputsAlwaysCurrent`: `Spec => []RunInputsCurrent`. Inductive with
  `WorkspaceCurrent` (after preparation everything in the workspace is absent or
  this run's) and `HistoryCurrent` (so is the history output held in memory,
  which batch 1 and the restored workspace get again).
- `RecoveryAlwaysFlagged`, `RecoveredNeverEmpty`, `SuccessAlwaysPublished`: from
  `ResultInv`, which follows one run's results from memory to disk:
  `BatchPosition` (how many batches are done at each step), `GenNamed` and
  `GenAccounted` (each file in memory is of a batch that is done or accepted, each
  recovered step is flagged and has contributed), `Written` (what is on disk and
  what is still to be written make up the result) and `SuiteDescribed` (the same of a
  suite whose `meta.json` is written). `RunStarted` keeps runs apart from the
  0 of an untouched directory.
- `PublicationImplemented`: `Spec => SuitePublication`, the refinement. Initial
  states map to initial states, and each action, under `ResultInv`, to one of
  `Publication`'s steps or to a stutter.
- `BatchInputsKept`: `Spec => []BatchInputs`. Inductive with `BatchWorkspaceKept`:
  which batch wrote each file of the workspace, in each phase.

`UsageBatchesProofs`
- `BatchTypes`, and `BatchCapsHold`: `Spec => []CapsHold`. Inductive with
  `Cursor` (where the current symbol's next site is) and `Counters` (`entries`
  and `sites` are the length and the span of the current batch, and they stay
  within the limits).
- `BatchesLoseNothing`: `Spec => []NothingLost`, with `LastPlaced` (the cursor is
  at the end of the last fragment).
- `BatchesClosedFull`, `BatchEntriesDistinct`: with `CurrentBatch` (the counters
  belong to a run of fragments at the end) and `SplitWhenFull` (a symbol whose
  sites are not all placed has filled its batch).
- `LoopProgresses`: `Spec => Progress`, from the same invariant: a flush leaves
  room, so at least one site is taken.
- `MergeRestores`: `Spec => []MergeRestoresSurface`. `MergeUsageBatches` is a fold
  over the fragments; `MergedUpTo` says what it has after each of them: the entries
  of the names placed so far, in order, all complete but the last. A fragment
  adds to the last entry (`MergedAgain`) or starts the next one when the last is
  complete (`MergedNext`), because the fragments tile the surface (`Consecutive`) and a
  name's two symbols are neighbours (`TwinsApart`).

`StagingProofs`
- `StagingTypes`, `OutlineAlwaysBaseline`, `GapsAlwaysRecorded`,
  `ContextAlwaysCurrent`, `SourceAlwaysStripped`, `SourceAlwaysRestored`, all from
  one inductive invariant with a part for each kind of knowledge: `NotYet` (no
  outline in the workspace before the last write), `Recorded` (what memory and
  `context.json` say), `Packed` (the outline is the recorded tag's) and `Tree`
  (where the clone is).

`OutlineBudgetProofs`
- `TypeCorrect`, `DocumentFits`, `RequiredFilesFit`, `OmissionsTrue`,
  `ReferencesReachFixedPoint`. `BudgetInv` has `SizeInv` (the size of the document
  so far is within the limit, and a rejected file would still exceed it),
  `RequiredInv` (the first pass offers the required files only) and `FollowInv`
  (a file whose references are to be followed is in the queue until they were).
  The size is the header, which depends on the digits of two counts, plus a sum
  over the selected files: lemmas show that adding a file adds its bytes to the sum
  and never shortens the document, so what was once too large stays too large.

`UsageScanProofs`
- `TypeCorrect`, and `RequestsAnswered`: with `GroupInv` (an ecosystem with a
  group is in the queue once until its walk is over) and `AnswerInv`.
- `SurfacesComplete`, `ActivationsOnce`: with `FileInv` and `SitesInv` (the sites of
  a dependency are those of the files behind it, and of the steps of the current
  file already taken). The heart of it is that the loops over imports, literals and
  references, which carry bindings and the set of names already seen from one element to
  the next, give what `ExpectedSites` says by quantifiers: one lemma per loop, about
  an arbitrary prefix, with `Loop` of `Induction` to get from prefix to prefix.

`HistoryIndexProofs`
- `TypeCorrect`, `IndexAlwaysComplete`, `AnswersExact`, from `HistoryInv`. A `Layout` of
  git's output says where each commit's record begins, whatever the histories and
  record sizes. `PipeInv`: the buffer is the slice of that output the scanner has read
  and not yet delivered, and what it has delivered ends at the start of the output or
  right behind a commit's NUL (`Reached`), so that the next NUL in the buffer is the next
  commit's and what lies in front of it is one whole record (`TokenFound`), however
  the pipe was cut. `Indexed`: the index holds the commits up to there; those git does
  not write for the manifests have nothing to add (`IndexSkips`). `Places` counts
  a commit's entries, which is how "as often as it should" is stated.
- `AnswersExact` also has the two loops of `For`: `Collected` says what a loop that
  adds entries in order and skips a hash it has, has collected after any prefix,
  and the messages' loop is the base of the manifests' loop.
- `NoMutualWait`: `Spec => []WaitsForEndedGit`. When every record fits, a full buffer has
  a NUL in it (`FullHasNul`), so the scanner never gives up, and `cmd.Wait` finds
  that git has exited. It is the safety half of `IndexEnds`, and shows that the hang of
  `oversized_record` needs an oversized record.

`CommandsProofs`
- `TypeCorrect`, `ResultsAlwaysMeasured`, `ExitsTruthful`, `SuitesAlwaysKept`, from
  `CommandsInv`: `ControlInv` (which loop runs belongs to which command),
  `DiskInv` (a run wrote one suite, the one being written is incomplete),
  `ItemsInv` (what is in the loop is of the command's targets), `KeptInv` (a
  generated suite is there until one of the same dependency name and identity is
  generated), `CoverInv` (what the command was asked for is behind it or still in the loop),
  `ExitInv`, `TestedInv` and `CheckingInv` (what a passed check is about) and
  `MeasureInv` (what the results held in memory, and those in `meta.json`, were
  measured on). `NamesApart` is the argument behind `SuitesKept`: targets at the roots
  of their repositories that get one name have one identity, because the only hash such
  a name can have is that of a changed text. For nested packages it is false, which
  is the finding above; `gen` is safe within one command because it has one target.

The library's induction theorems take a predicate as a parameter, which none
of the provers can instantiate. `Induction` derives what is needed from the
well-foundedness of the natural numbers, with sets instead of predicates
(`AllNumbers`, `NextNumbers`), and from that what a fold computes: `Loop` says that an
accumulator goes through values that start with the base and are related by the
loop's body.

Every safety invariant and action property of the passing runs, and the refinement
of `Publication`, is a theorem. Only model-checked are the two liveness
properties, `EveryRunEnds` and `IndexEnds`: the prover has no rule for fairness
and `ENABLED`. The five runs that end in a violation exhibit behaviours; what they
refute is not a theorem of the model.

## Plan

Every module is written. Left:

1. For the two liveness properties, the part of the argument that is not temporal: a
   measure that every step of a run takes down, as an action property and a theorem.
2. The selection of the baseline release (`resolveBaseline`) against a reference
   definition, and the merge of the traced surfaces of several batches.

## Not modelled

See the list of components in `PROJECT.json`. The container runner is an external
tool around the same skill protocol, which is modelled; the sanitiser is a
character filter on what is printed; Python environments are one of the package
managers that `Verification` takes as external; the command line's dispatch holds
no state. Backends, registries, git, package managers, the outline library
and the YAML parser are external, and so is what a regular expression finds in a
text. Two processes for one target and dependency at the same time are excluded:
the code has no lock between them, and every freshness property would fail at
once.

Of modelled components, left out are: costs and printed reports; `SelectSymbols`,
a stateless filter; the discovery of dependents at a registry; path containment
through symbolic links (`pathWithinResolved` and the root's openers), of which
only the outcome, refused or not, is an input; `readVulns`, one query for one
evidence file.
