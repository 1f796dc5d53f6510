------------------------------- MODULE Skill -------------------------------
(***************************************************************************)
(* One invocation of a skill, as a function of what the backend left       *)
(* behind: its exit status and the output artifact in the workspace.  The  *)
(* module has no variables: Generation.tla drives it.                      *)
(***************************************************************************)
EXTENDS Naturals

CONSTANT Paths            \* the file names a generate result may contain

Skills == {"usage", "history", "generate", "validate"}

(* The artifact each skill leaves in the workspace root.                   *)
OutputFile == [usage |-> "surface", history |-> "breaks",
               generate |-> "tests", validate |-> "verdict"]

(* Workspace files whose provenance the properties tell apart: the staged  *)
(* usage.json, the four artifacts, and verify.json.                        *)
Names == {"usage", "surface", "breaks", "tests", "verify", "verdict"}

(* What a reader finds when it opens an artifact.                          *)
(*   invalid   not JSON                                                    *)
(*   junk      JSON that does not decode into the skill's result           *)
(*   escaping  a generate result with a path outside the suite             *)
(*   good      anything else; `files` are the generated files (or, for     *)
(*             validate, stand for the verdicts)                           *)
Forms == {"invalid", "junk", "escaping", "good"}

Absent == [run |-> 0, skill |-> "none", batch |-> 0, form |-> "absent", files |-> {}]

Artifact == [run: Nat, skill: Skills \cup {"driver"}, batch: Nat,
             form: Forms, files: SUBSET Paths]

Exits == {"ok", "error", "account"}

(* Everything the backend can put into the output file of skill s.         *)
BackendOutput(r, s, b) ==
  {a \in [run: {r}, skill: {s}, batch: {b}, form: Forms, files: SUBSET Paths] :
     /\ a.form \in {"invalid", "junk"} => a.files = {}
     /\ a.form = "escaping" => s = "generate" /\ a.files # {}
     /\ a.files # {} => s \in {"generate", "validate"}
     /\ s = "history" => a.form # "junk"}

RecoverAnything(s, a) == TRUE                              \* mutant: no check

(* A failing backend is only recoverable when its artifact decodes and     *)
(* holds something: files for generate, verdicts for validate.             *)
ValidateRecoveredOutput(s, a) ==
  s \in {"generate", "validate"} => a.form # "junk" /\ a.files # {}

(* The outcome of an invocation once the backend is gone.  A cancelled     *)
(* context or an account error cannot be recovered, whatever was written.  *)
Outcome(exit, cancelled) ==
  CASE exit = "ok" -> "clean"
    [] exit = "error" /\ ~cancelled -> "recovered"
    [] OTHER -> "fatal"

FinishRunLenient(s, a, exit, cancelled) ==     \* mutant: artifact wins over exit
  /\ a # Absent
  /\ a.form # "invalid"
  /\ exit # "ok" => ValidateRecoveredOutput(s, a)

(* finishRun: does the invocation yield a result?                          *)
FinishRun(s, a, exit, cancelled) ==
  /\ Outcome(exit, cancelled) # "fatal"
  /\ a # Absent
  /\ a.form # "invalid"
  /\ exit # "ok" => ValidateRecoveredOutput(s, a)
=============================================================================
