------------------------------ MODULE Options ------------------------------
(***************************************************************************)
(* hyrum.yaml and the options of gen: the strict parser, the discovery of  *)
(* the file, and the precedence of flags, file and built-in defaults.      *)
(*                                                                         *)
(* A file is [kind, doc]: absent, unreadable, or a document with the form  *)
(* of each setting: unset, ok, null, mistyped (a wrong node type), blank   *)
(* (an empty string), invalid (a byte limit that is not positive, a model  *)
(* tier or skill that does not exist) or foreign (a path below another     *)
(* user's home directory, which is well-formed text), whether a key is     *)
(* unknown, the number of documents, and the per-dependency overrides.     *)
(***************************************************************************)
EXTENDS Naturals

Settings == {"backend", "models", "out", "work", "target_name", "outline_bytes"}

(* Only an operator may choose these: a discovered file cannot.            *)
OperatorSettings == {"backend", "models", "work"}

EmptyDoc == [settings |-> [s \in Settings |-> "unset"], unknown |-> FALSE,
             documents |-> 0, depsOK |-> TRUE, overrides |-> <<>>]

(* Parse fails closed. *)
Parses(doc) ==
  /\ doc.documents <= 1 /\ ~doc.unknown /\ doc.depsOK
  /\ \A s \in Settings : doc.settings[s] \in {"unset", "ok", "foreign"}

(* An absent file is an error only when it was asked for. *)
Loads(file, explicit) ==
  \/ file.kind = "absent" /\ ~explicit
  \/ file.kind = "document" /\ Parses(file.doc)

Load(file) == IF file.kind = "absent" THEN EmptyDoc ELSE file.doc

(* Where each option's value comes from. *)
Source(flags, explicit, doc) ==
  [s \in Settings |->
     IF s \in flags THEN "flag"
     ELSE IF doc.settings[s] = "ok" /\ (explicit \/ s \notin OperatorSettings) THEN "config"
     ELSE "default"]

(* ExpandUser refuses another user's home directory as soon as a path of   *)
(* the file is looked at, although a flag may replace it afterwards.       *)
Expands(doc, explicit) ==
  /\ doc.settings["out"] # "foreign"
  /\ explicit => doc.settings["work"] # "foreign"

(* What resolveGenOptions rejects: a path that does not expand, a name     *)
(* that is not one path component, and an automatic output path that leads *)
(* outside the target.                                                     *)
Resolves(source, explicit, doc, args) ==
  /\ Expands(doc, explicit)
  /\ source["target_name"] = "default" \/ args.names[source["target_name"]].safe
  /\ \/ source["out"] = "flag" \/ (explicit /\ source["out"] = "config")
     \/ source["out"] \in args.inside
=============================================================================
