------------------------------- MODULE Suite -------------------------------
(***************************************************************************)
(* The published suite of one (dependency, target) pair: the directory     *)
(* <out>/<dep>/from_<target>, with the generated files and meta.json.      *)
(* ReplaceFilesUnder empties the directory entry by entry and then writes  *)
(* file by file; every file goes through safefs.WriteFile, which writes a  *)
(* temporary beside the target and renames it.  Nothing else is atomic, so *)
(* each of those steps is an action of its own here.                       *)
(***************************************************************************)
EXTENDS Skill, FiniteSets

VARIABLES files,   \* the generated files on disk
          temp,    \* runs that have a .hyrum-*.tmp file on disk
          meta     \* the content of meta.json, or NoMeta

suite == <<files, temp, meta>>

(* A generated file: its name (batch directory and path) and where it came *)
(* from.  Two files with the same dir and path are the same name on disk.  *)
SuiteFile == [dir: Nat, path: Paths, run: Nat, batch: Nat,
              outcome: {"clean", "recovered", "fatal"}]

(* meta.json: the run it describes, the batches and recovered steps it     *)
(* records.  `files` is a history field, what the run wrote before         *)
(* meta.json: the file itself does not list the suite's files.             *)
NoMeta == [run |-> 0, batches |-> {}, recovered |-> {}, files |-> {}]

Meta == [run: Nat, batches: SUBSET Nat, recovered: SUBSET (Skills \X Nat),
         files: SUBSET SuiteFile]

SuiteTypeOK ==
  /\ files \in SUBSET SuiteFile
  /\ temp \in SUBSET Nat
  /\ meta \in Meta

SuiteInit == files = {} /\ temp = {} /\ meta = NoMeta

SuiteEmpty == files = {} /\ temp = {} /\ meta = NoMeta

(* RemoveAll unlinks the entries in directory order, which is arbitrary.   *)
RemoveEntry ==
  \/ \E f \in files : files' = files \ {f} /\ UNCHANGED <<temp, meta>>
  \/ \E t \in temp : temp' = temp \ {t} /\ UNCHANGED <<files, meta>>
  \/ meta # NoMeta /\ meta' = NoMeta /\ UNCHANGED <<files, temp>>

(* safefs.WriteFile: create the temporary, then rename it over the name,   *)
(* or give up and remove the temporary again.                              *)
OpenTemp(r) == temp' = temp \cup {r} /\ UNCHANGED <<files, meta>>

DropTemp(r) == temp' = temp \ {r} /\ UNCHANGED <<files, meta>>

RenameFile(r, f) ==
  /\ files' = {g \in files : g.dir # f.dir \/ g.path # f.path} \cup {f}
  /\ temp' = temp \ {r}
  /\ UNCHANGED meta

RenameMeta(r, m) ==
  /\ meta' = m
  /\ temp' = temp \ {r}
  /\ UNCHANGED files
=============================================================================
