---------------------------- MODULE Verification ----------------------------
(***************************************************************************)
(* VerifyMatrix: the files of a suite are written to a scratch directory,  *)
(* a package manager is initialised there, and for each version in turn    *)
(* the dependency is installed and the tests run.  One scratch directory   *)
(* serves all versions of a call, so what is installed outlives a failure. *)
(***************************************************************************)
EXTENDS Naturals, Sequences, SequencesExt

CONSTANTS
  Outputs     \* what a test run prints and exits with

(* An output: the <<passed, failed>> a node, a pytest and a go parser find *)
(* in it, and whether the runner's exit status is zero.                    *)
ASSUME VerificationAssumption ==
  Outputs \subseteq [node: Nat \X Nat, pytest: Nat \X Nat, go: Nat \X Nat, clean: BOOLEAN]

VARIABLES
  job,        \* the call: name, files and versions left
  scratch,    \* the scratch directory: its state and what is installed
  results,    \* the VerifyResults so far
  log         \* every test run of the command, with what was installed

verification == <<job, scratch, results, log>>

NoJob == [name |-> <<>>, files |-> {}, versions |-> <<>>]
NoScratch == [state |-> "none", installed |-> ""]

VerificationInit == job = NoJob /\ scratch = NoScratch /\ results = <<>> /\ log = <<>>

ErrorResult(version) == [version |-> version, pass |-> 0, fail |-> 0, error |-> TRUE]

(* The first parser that counts anything decides. *)
ParseTestOutput(o) ==
  IF o.node # <<0, 0>> THEN o.node ELSE IF o.pytest # <<0, 0>> THEN o.pytest ELSE o.go

BeginMatrix(name, files, versions) ==
  /\ job' = [name |-> name, files |-> files, versions |-> versions]
  /\ scratch' = [state |-> "fresh", installed |-> ""]
  /\ results' = <<>>
  /\ UNCHANGED log

(* Writing the files or initialising the manager fails: one result, which  *)
(* names no version.                                                       *)
MatrixFails ==
  /\ scratch.state = "fresh"
  /\ results' = <<ErrorResult("")>>
  /\ job' = [job EXCEPT !.versions = <<>>]
  /\ scratch' = [scratch EXCEPT !.state = "ready"]
  /\ UNCHANGED log

InitManager ==
  /\ scratch.state = "fresh"
  /\ scratch' = [scratch EXCEPT !.state = "ready"]
  /\ UNCHANGED <<job, results, log>>

(* The version that is next to be verified. *)
Pending == scratch.state = "ready" /\ job.versions # <<>> /\ Head(job.versions) # ""

(* Empty versions are passed over. *)
SkipVersion ==
  /\ scratch.state = "ready" /\ job.versions # <<>> /\ Head(job.versions) = ""
  /\ job' = [job EXCEPT !.versions = Tail(@)]
  /\ UNCHANGED <<scratch, results, log>>

Install ==
  /\ Pending
  /\ scratch' = [state |-> "installed", installed |-> Head(job.versions)]
  /\ UNCHANGED <<job, results, log>>

InstallFailsAndRuns ==                          \* mutant: the tests run all the same
  /\ Pending
  /\ scratch' = [scratch EXCEPT !.state = "installed"]
  /\ UNCHANGED <<job, results, log>>

(* Without the version there is no test run.  What was installed before    *)
(* may be gone.                                                            *)
InstallFails ==
  /\ Pending
  /\ results' = Append(results, ErrorResult(Head(job.versions)))
  /\ job' = [job EXCEPT !.versions = Tail(@)]
  /\ scratch' \in {scratch, [state |-> "ready", installed |-> ""]}
  /\ UNCHANGED log

RunTests ==
  /\ scratch.state = "installed"
  /\ \E o \in Outputs :
       LET version == Head(job.versions)
           count == ParseTestOutput(o)
       IN /\ log' = Append(log, [name |-> job.name, version |-> version, files |-> job.files,
                                 installed |-> scratch.installed, output |-> o])
          /\ results' = Append(results, [version |-> version, pass |-> count[1],
                                         fail |-> count[2], error |-> ~o.clean])
  /\ job' = [job EXCEPT !.versions = Tail(@)]
  /\ scratch' = [scratch EXCEPT !.state = "ready"]

MatrixDone == scratch.state = "ready" /\ job.versions = <<>>

Verify == MatrixFails \/ InitManager \/ SkipVersion \/ Install \/ InstallFails \/ RunTests

(* A check passes when its one result has passing tests and nothing else.  *)
PassedLenient(r) == ~r.error /\ r.fail = 0      \* mutant: no test need have run

Passed(r) == ~r.error /\ r.fail = 0 /\ r.pass > 0
=============================================================================
