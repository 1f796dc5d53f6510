------------------------------ MODULE Staging ------------------------------
(***************************************************************************)
(* Staging the evidence for one dependency: stageContext, what it calls,   *)
(* and GatherHistory.  The dependency's clone under .deps and the          *)
(* workspace outlive the process, which may crash or be interrupted at any *)
(* step, with the clone at a tag or a file of the bundle not yet written.  *)
(* A later process, for the same or another version, starts from there.    *)
(*                                                                         *)
(* The registry, git and the stripping of instruction files are external:  *)
(* each may fail whenever the code handles its failure.                    *)
(***************************************************************************)
EXTENDS Naturals

CONSTANTS Versions,   \* releases a baseline may resolve to
          Tags,       \* tags of the dependency's repository
          TagsOf,     \* the tags a release may go by (vers.TagCandidates)
          Default,    \* the clone's default branch
          None,
          MaxRuns     \* bound on the number of processes started

ASSUME StagingAssumption ==
  /\ TagsOf \in [Versions -> SUBSET Tags]
  /\ Default \notin Tags /\ None \notin Tags \cup Versions \cup {Default}
  /\ MaxRuns \in Nat

VARIABLES
  pc, run,
  cancelled,   \* the context was cancelled
  clone,       \* the checked-out tree, and whether it was stripped since
  previous,    \* the tree to restore
  staged,      \* what staging found out, for meta.json
  packed,      \* the tree the outline in memory was packed from
  context,     \* context.json
  bundle,      \* the rest of the workspace: where each file came from
  ensured,     \* history: the tree clone.Ensure left
  gitFailed    \* history: git could not restore that tree

memory == <<previous, staged, packed, ensured, gitFailed>>
vars == <<pc, run, cancelled, clone, memory, context, bundle>>

Trees == Tags \cup {Default}

(* None: the clone is not there yet.                                       *)
Clone == [tree: Trees \cup {None}, stripped: BOOLEAN]

(* The fields that context.json and meta.json both record.                 *)
Findings == [baseline: Versions \cup {None}, baselineError: BOOLEAN,
             ref: Tags \cup {None}, outlineError: BOOLEAN]

Nothing == [baseline |-> None, baselineError |-> FALSE, ref |-> None, outlineError |-> FALSE]

(* dep-outline.md and outline-selection.json come from a tree, and so does *)
(* changelog.json; dep is the link to the clone (stageContext knows the    *)
(* clone as DepDir from when it sets the link).                            *)
Bundle == [outline: Tags \cup {None}, selection: Tags \cup {None},
           changelog: Trees \cup {None}, dep: BOOLEAN]

NoBundle == [outline |-> None, selection |-> None, changelog |-> None, dep |-> FALSE]

Phases == {"idle", "prepare", "lookup", "rejected", "ensure", "link", "checkout",
           "strip", "pack", "restore", "stripAgain",
           "writeContext", "writeSelection", "writeOutline", "gather", "skills"}

TypeOK ==
  /\ pc \in Phases /\ run \in Nat /\ cancelled \in BOOLEAN
  /\ clone \in Clone
  /\ previous \in Trees \cup {None}
  /\ staged \in Findings
  /\ packed \in Tags \cup {None}
  /\ context \in Findings
  /\ bundle \in Bundle
  /\ ensured \in Trees \cup {None} /\ gitFailed \in BOOLEAN

Init ==
  /\ pc = "idle" /\ run = 0 /\ cancelled = FALSE
  /\ clone = [tree |-> None, stripped |-> FALSE]
  /\ previous = None /\ staged = Nothing /\ packed = None
  /\ context = Nothing /\ bundle = NoBundle
  /\ ensured = None /\ gitFailed = FALSE

Goto(p) == pc' = p /\ UNCHANGED <<run, cancelled>>

Forget ==
  /\ previous' = None /\ staged' = Nothing /\ packed' = None
  /\ ensured' = None /\ gitFailed' = FALSE

End == pc' = "idle" /\ cancelled' = FALSE /\ Forget /\ UNCHANGED run

Start ==
  /\ pc = "idle" /\ run < MaxRuns
  /\ pc' = "prepare" /\ run' = run + 1
  /\ UNCHANGED <<cancelled, clone, memory, context, bundle>>

Crash == pc # "idle" /\ End /\ UNCHANGED <<clone, context, bundle>>

Cancel ==
  /\ pc # "idle" /\ ~cancelled /\ cancelled' = TRUE
  /\ UNCHANGED <<pc, run, clone, memory, context, bundle>>

(* An error of the process's own file operations, of the usage index, or a *)
(* required file that the outline's budget has no room for, ends the run.  *)
Fails ==
  /\ pc \in {"prepare", "lookup", "rejected", "link", "stripAgain",
             "writeContext", "writeSelection", "writeOutline", "gather"}
  /\ End
  /\ UNCHANGED <<clone, context, bundle>>

(***************************************************************************)
(* The workspace loses every evidence file of the run before, but not its  *)
(* context.json, which is written anew.                                    *)
(***************************************************************************)
PrepareWorkspaceMutant ==               \* mutant: the outline is not transient
  /\ pc = "prepare" /\ Goto("lookup")
  /\ bundle' = [NoBundle EXCEPT !.outline = bundle.outline]
  /\ UNCHANGED <<clone, memory, context>>

PrepareWorkspace ==
  /\ pc = "prepare" /\ Goto("lookup")
  /\ bundle' = NoBundle
  /\ UNCHANGED <<clone, memory, context>>

(* What is staged at this point is also what context.json says.  The usage *)
(* surface is indexed and written before; it is not modelled here.         *)
Record(findings) == staged' = findings /\ context' = findings

LookupDependency ==
  /\ pc = "lookup"
  /\ \E baseline \in Versions \cup {None}, repository \in {"none", "invalid", "valid"} :
       /\ Record([baseline |-> baseline, baselineError |-> baseline = None,
                  ref |-> None, outlineError |-> repository = "none"])
       /\ Goto(CASE repository = "none" -> "gather"
                 [] repository = "invalid" -> "rejected"
                 [] repository = "valid" -> "ensure")
  /\ UNCHANGED <<clone, previous, packed, bundle, ensured, gitFailed>>

(* The outline is unavailable, and the skills do without it.               *)
NoOutlineUnrecorded ==                  \* mutant: context.json is not rewritten
  staged' = [staged EXCEPT !.outlineError = TRUE] /\ UNCHANGED context

NoOutline == Record([staged EXCEPT !.outlineError = TRUE])

RejectRepository ==
  /\ pc = "rejected" /\ NoOutline /\ Goto("gather")
  /\ UNCHANGED <<clone, previous, packed, bundle, ensured, gitFailed>>

(* clone.Ensure clones, or brings an existing clone up to date; only the   *)
(* first is certain to give the default branch.                            *)
EnsureSource ==
  /\ pc = "ensure" /\ Goto("link")
  /\ clone' \in [tree: {Default, clone.tree} \ {None}, stripped: {FALSE, clone.stripped}]
  /\ ensured' = clone'.tree
  /\ UNCHANGED <<previous, staged, packed, gitFailed, context, bundle>>

EnsureFails ==
  /\ pc = "ensure" /\ NoOutline /\ Goto("gather")
  /\ UNCHANGED <<clone, previous, packed, bundle, ensured, gitFailed>>

LinkSource ==
  /\ pc = "link" /\ Goto("checkout")
  /\ bundle' = [bundle EXCEPT !.dep = TRUE]
  /\ UNCHANGED <<clone, memory, context>>

(***************************************************************************)
(* The outline is packed from the tag of the baseline; afterwards the tree *)
(* is restored for the changelog.  Instruction files come back with each   *)
(* checkout and are stripped after it.                                     *)
(***************************************************************************)
BaselineTagsOrAny ==                    \* mutant: any tag will do
  IF staged.baseline = None THEN Tags ELSE TagsOf[staged.baseline]

BaselineTags == IF staged.baseline = None THEN {} ELSE TagsOf[staged.baseline]

CheckoutNotMade ==                      \* mutant: the tag is found, not checked out
  /\ pc = "checkout" /\ Goto("strip")
  /\ \E tag \in BaselineTags : staged' = [staged EXCEPT !.ref = tag]
  /\ previous' = clone.tree
  /\ UNCHANGED <<clone, packed, context, bundle, ensured, gitFailed>>

CheckoutVersion ==
  /\ pc = "checkout" /\ Goto("strip")
  /\ \E tag \in BaselineTags :
       /\ clone' = [tree |-> tag, stripped |-> FALSE]
       /\ staged' = [staged EXCEPT !.ref = tag]
  /\ previous' = clone.tree
  /\ UNCHANGED <<packed, context, bundle, ensured, gitFailed>>

(* No candidate is a tag of the repository, or git refuses them all.       *)
CheckoutUnmatched ==
  /\ pc = "checkout" /\ NoOutline /\ Goto("gather")
  /\ clone' = [clone EXCEPT !.stripped = TRUE]
  /\ UNCHANGED <<previous, packed, bundle, ensured, gitFailed>>

UnmatchedFails ==
  /\ pc = "checkout" /\ End
  /\ clone' \in {clone, [clone EXCEPT !.stripped = TRUE]}
  /\ UNCHANGED <<context, bundle>>

StripTag ==
  /\ pc = "strip" /\ Goto("pack")
  /\ clone' = [clone EXCEPT !.stripped = TRUE]
  /\ UNCHANGED <<memory, context, bundle>>

(* Restoring does not heed the cancelled context.                          *)
RestoredIfWanted ==                     \* mutant: it does
  IF cancelled THEN clone ELSE [tree |-> previous, stripped |-> FALSE]

Restored == [tree |-> previous, stripped |-> FALSE]

StripTagFails ==
  /\ pc = "strip" /\ End
  /\ clone' \in {Restored, clone}
  /\ UNCHANGED <<context, bundle>>

PackOutline ==
  /\ pc = "pack" /\ Goto("restore")
  /\ packed' \in {clone.tree, None}
  /\ UNCHANGED <<clone, previous, staged, ensured, gitFailed, context, bundle>>

Restore ==
  /\ pc = "restore" /\ Goto("stripAgain")
  /\ gitFailed' \in BOOLEAN
  /\ clone' = IF gitFailed' THEN clone ELSE Restored
  /\ UNCHANGED <<previous, staged, packed, ensured, context, bundle>>

(* A failure to pack is only looked at now.                                *)
StripAgainForgotten ==                  \* mutant: not stripped
  /\ pc = "stripAgain" /\ packed # None /\ Goto("writeContext")
  /\ UNCHANGED <<clone, memory, context, bundle>>

StripAgain ==
  /\ pc = "stripAgain" /\ packed # None /\ Goto("writeContext")
  /\ clone' = [clone EXCEPT !.stripped = TRUE]
  /\ UNCHANGED <<memory, context, bundle>>

PackFailed ==
  /\ pc = "stripAgain" /\ packed = None
  /\ End
  /\ clone' = [clone EXCEPT !.stripped = TRUE]
  /\ UNCHANGED <<context, bundle>>

WriteContext ==
  /\ pc = "writeContext" /\ Goto("writeSelection")
  /\ context' = staged
  /\ UNCHANGED <<clone, memory, bundle>>

WriteSelection ==
  /\ pc = "writeSelection" /\ Goto("writeOutline")
  /\ bundle' = [bundle EXCEPT !.selection = packed]
  /\ UNCHANGED <<clone, memory, context>>

WriteOutline ==
  /\ pc = "writeOutline" /\ Goto("gather")
  /\ bundle' = [bundle EXCEPT !.outline = packed]
  /\ UNCHANGED <<clone, memory, context>>

(* A missing changelog, and any failure here, is passed over.              *)
GatherHistory ==
  /\ pc = "gather" /\ Goto("skills")
  /\ \/ bundle.dep /\ bundle' = [bundle EXCEPT !.changelog = clone.tree]
     \/ UNCHANGED bundle
  /\ UNCHANGED <<clone, memory, context>>

(* The skills read the bundle, and the process ends with the suite.        *)
Finish == pc = "skills" /\ End /\ UNCHANGED <<clone, context, bundle>>

Finished == pc = "idle" /\ run = MaxRuns /\ UNCHANGED vars

Next ==
  \/ Start \/ Crash \/ Cancel \/ Fails
  \/ PrepareWorkspace \/ LookupDependency \/ RejectRepository
  \/ EnsureSource \/ EnsureFails \/ LinkSource
  \/ CheckoutVersion \/ CheckoutUnmatched \/ UnmatchedFails \/ StripTag \/ StripTagFails
  \/ PackOutline \/ Restore \/ StripAgain \/ PackFailed
  \/ WriteContext \/ WriteSelection \/ WriteOutline
  \/ GatherHistory \/ Finish \/ Finished

Spec == Init /\ [][Next]_vars
-----------------------------------------------------------------------------
(* README.md: "Source outlines are written only when a repository tag      *)
(* matches the resolved release."  Whatever was staged before, the outline *)
(* a skill reads is that of the recorded tag of the recorded baseline,     *)
(* with its selection beside it.                                           *)
OutlineIsBaseline ==
  pc = "skills" /\ bundle.outline # None =>
    /\ context.baseline # None /\ context.ref \in TagsOf[context.baseline]
    /\ bundle.outline = context.ref /\ bundle.selection = bundle.outline

(* An evidence gap is recorded, and only a gap is: a skill without outline *)
(* or baseline finds the reason in context.json.                           *)
GapsRecorded ==
  pc = "skills" =>
    /\ (bundle.outline = None) <=> context.outlineError
    /\ (context.baseline = None) <=> context.baselineError

(* The skills and the reader of meta.json are told the same.               *)
ContextCurrent == pc = "skills" => context = staged

(* README.md and threatmodel.md: instruction files are stripped from the   *)
(* dependency clone before any step reads it, whichever tree it is at.     *)
SourceStripped == pc = "skills" /\ bundle.dep => clone.stripped

(* The changelog, and dep/, are those of the tree that clone.Ensure left,  *)
(* and not of the baseline: only git itself can prevent it.                *)
SourceRestored ==
  pc = "skills" /\ bundle.dep /\ ~gitFailed =>
    /\ clone.tree = ensured
    /\ bundle.changelog \in {ensured, None}
=============================================================================
