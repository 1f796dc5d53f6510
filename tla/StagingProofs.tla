--------------------------- MODULE StagingProofs ---------------------------
(***************************************************************************)
(* Staging's properties hold for any releases, tags and number of runs.    *)
(* One inductive invariant carries them all: what is known at each phase   *)
(* about the outline, the records and the clone.                           *)
(***************************************************************************)
EXTENDS Staging, TLAPS

(* No outline is in the workspace before the last write of staging, and    *)
(* the dep link is set once the clone is there.                            *)
NotYet ==
  /\ pc \in {"lookup", "rejected", "ensure", "link", "checkout", "strip", "pack", "restore",
             "stripAgain", "writeContext", "writeSelection", "writeOutline"} =>
       bundle.outline = None /\ bundle.changelog = None
  /\ pc = "gather" => bundle.changelog = None
  /\ pc \in {"lookup", "rejected", "ensure", "link"} => ~bundle.dep

(* What staging has recorded so far, in memory and in context.json.        *)
Recorded ==
  /\ pc \notin {"idle", "prepare", "lookup"} =>
       ((staged.baseline = None) <=> staged.baselineError)
  /\ pc \in {"rejected", "ensure", "link", "checkout"} =>
       context = staged /\ staged.ref = None /\ ~staged.outlineError
  /\ pc \in {"strip", "pack", "restore", "stripAgain",
             "writeContext", "writeSelection", "writeOutline"} =>
       /\ ~staged.outlineError
       /\ staged.baseline # None /\ staged.ref \in TagsOf[staged.baseline]
  /\ pc \in {"writeSelection", "writeOutline", "gather", "skills"} => context = staged

(* The outline in memory, then on disk, is that of the recorded tag.       *)
Packed ==
  /\ pc \in {"strip", "pack"} => clone.tree = staged.ref
  /\ pc \in {"restore", "stripAgain"} => packed \in {staged.ref, None}
  /\ pc \in {"writeContext", "writeSelection", "writeOutline"} => packed = staged.ref
  /\ pc = "writeOutline" => bundle.selection = packed
  /\ pc \in {"gather", "skills"} =>
       /\ (bundle.outline = None) <=> staged.outlineError
       /\ bundle.outline # None =>
            /\ staged.baseline # None /\ staged.ref \in TagsOf[staged.baseline]
            /\ bundle.outline = staged.ref /\ bundle.selection = bundle.outline

(* The clone is where clone.Ensure left it, but for the time at the tag.   *)
Tree ==
  /\ pc \in {"link", "checkout"} => clone.tree = ensured
  /\ pc \in {"strip", "pack", "restore"} => previous = ensured
  /\ pc \in {"stripAgain", "writeContext", "writeSelection", "writeOutline", "gather", "skills"} =>
       (bundle.dep /\ ~gitFailed => clone.tree = ensured)
  /\ pc \in {"writeContext", "writeSelection", "writeOutline", "gather", "skills"} =>
       (bundle.dep => clone.stripped)
  /\ pc = "skills" /\ bundle.dep /\ ~gitFailed => bundle.changelog \in {ensured, None}

StagingInv == TypeOK /\ NotYet /\ Recorded /\ Packed /\ Tree
-----------------------------------------------------------------------------
(* The records of the model after their updates.                           *)
LEMMA FindingsTypes ==
  /\ Nothing \in Findings
  /\ \A f \in Findings : [f EXCEPT !.outlineError = TRUE] \in Findings
  /\ \A f \in Findings, tag \in Tags : [f EXCEPT !.ref = tag] \in Findings
  BY DEF Findings, Nothing

(* The same for the evidence files.                                        *)
LEMMA BundleTypes ==
  /\ NoBundle \in Bundle
  /\ \A b \in Bundle : [b EXCEPT !.dep = TRUE] \in Bundle
  /\ \A b \in Bundle, t \in Tags \cup {None} : [b EXCEPT !.outline = t] \in Bundle
  /\ \A b \in Bundle, t \in Tags \cup {None} : [b EXCEPT !.selection = t] \in Bundle
  /\ \A b \in Bundle, t \in Trees \cup {None} : [b EXCEPT !.changelog = t] \in Bundle
  BY DEF Bundle, NoBundle, Trees

(* And for the clone.                                                      *)
LEMMA CloneTypes ==
  /\ \A c \in Clone : c.tree \in Trees \cup {None} /\ [c EXCEPT !.stripped = TRUE] \in Clone
  /\ \A t \in Trees \cup {None}, b \in BOOLEAN : [tree |-> t, stripped |-> b] \in Clone
  BY DEF Clone

(* A release only goes by tags of the repository.                          *)
LEMMA TagsOfVersions == \A v \in Versions : TagsOf[v] \subseteq Tags
  BY StagingAssumption DEF StagingAssumption

(* Nothing is staged in the beginning.                                     *)
LEMMA InitInv == Init => StagingInv
<1> SUFFICES ASSUME Init PROVE StagingInv
  OBVIOUS
<1>1. TypeOK
  BY FindingsTypes, BundleTypes, CloneTypes DEF Init, TypeOK, Phases, Clone
<1>2. NotYet /\ Recorded /\ Packed /\ Tree
  BY DEF Init, NotYet, Recorded, Packed, Tree
<1> QED
  BY <1>1, <1>2 DEF StagingInv

(* Every step keeps the types.                                             *)
LEMMA TypesKept == StagingInv /\ [Next]_vars => TypeOK'
<1> SUFFICES ASSUME StagingInv, [Next]_vars PROVE TypeOK'
  OBVIOUS
<1> USE FindingsTypes, BundleTypes, CloneTypes, StagingAssumption
    DEF StagingInv, TypeOK, Phases, Trees, memory
<1>1. CASE Start
  BY <1>1 DEF Start
<1>2. CASE Cancel
  BY <1>2 DEF Cancel
<1>3. CASE PrepareWorkspace
  BY <1>3 DEF PrepareWorkspace, Goto
<1>4. CASE LookupDependency
  BY <1>4 DEF LookupDependency, Goto, Record, Findings
<1>5. CASE RejectRepository
  BY <1>5 DEF RejectRepository, Goto, NoOutline, Record
<1>6. CASE EnsureSource
  <2>1. clone' \in Clone /\ clone'.tree \in Trees
    BY <1>6 DEF EnsureSource, Clone
  <2> QED
    BY <1>6, <2>1 DEF EnsureSource, Goto
<1>7. CASE EnsureFails
  BY <1>7 DEF EnsureFails, Goto, NoOutline, Record
<1>8. CASE LinkSource
  BY <1>8 DEF LinkSource, Goto
<1>9. CASE CheckoutVersion
  <2>1. BaselineTags \subseteq Tags
    BY TagsOfVersions DEF BaselineTags, Findings
  <2> PICK tag \in Tags : /\ clone' = [tree |-> tag, stripped |-> FALSE]
                            /\ staged' = [staged EXCEPT !.ref = tag]
    BY <1>9, <2>1 DEF CheckoutVersion
  <2>2. clone' \in Clone /\ staged' \in Findings
    OBVIOUS
  <2>3. previous' \in Trees \cup {None}
    BY <1>9 DEF CheckoutVersion
  <2> QED
    BY <1>9, <2>2, <2>3 DEF CheckoutVersion, Goto
<1>10. CASE CheckoutUnmatched
  BY <1>10 DEF CheckoutUnmatched, Goto, NoOutline, Record
<1>11. CASE StripTag
  BY <1>11 DEF StripTag, Goto
<1>12. CASE PackOutline
  <2>1. clone.tree \in Tags
    BY <1>12, TagsOfVersions DEF PackOutline, Packed, Recorded, Findings
  <2> QED
    BY <1>12, <2>1 DEF PackOutline, Goto
<1>13. CASE Restore
  BY <1>13 DEF Restore, Goto, Restored
<1>14. CASE StripAgain
  BY <1>14 DEF StripAgain, Goto
<1>15. CASE WriteContext
  BY <1>15 DEF WriteContext, Goto
<1>16. CASE WriteSelection
  BY <1>16 DEF WriteSelection, Goto
<1>17. CASE WriteOutline
  BY <1>17 DEF WriteOutline, Goto
<1>18. CASE GatherHistory
  BY <1>18, ZenonT(30) DEF GatherHistory, Goto
<1>19. CASE Crash
  BY <1>19 DEF Crash, End, Forget
<1>20. CASE Fails
  BY <1>20 DEF Fails, End, Forget
<1>21. CASE UnmatchedFails
  BY <1>21 DEF UnmatchedFails, End, Forget
<1>22. CASE StripTagFails
  BY <1>22 DEF StripTagFails, End, Forget, Restored
<1>23. CASE PackFailed
  BY <1>23 DEF PackFailed, End, Forget
<1>24. CASE Finish
  BY <1>24 DEF Finish, End, Forget
<1>25. CASE UNCHANGED vars
  BY <1>25 DEF vars
<1>26. QED
  BY <1>1, <1>2, <1>3, <1>4, <1>5, <1>6, <1>7, <1>8, <1>9, <1>10, <1>11, <1>12,
     <1>13, <1>14, <1>15, <1>16, <1>17, <1>18, <1>19, <1>20, <1>21, <1>22, <1>23, <1>24, <1>25
  DEF Next, Finished

(* A process that ends knows nothing any more; any other step hands on     *)
(* what the next phase needs to know.                                      *)
LEMMA KnowledgeKept ==
  StagingInv /\ [Next]_vars => NotYet' /\ Recorded' /\ Packed' /\ Tree'
<1> SUFFICES ASSUME StagingInv, [Next]_vars
             PROVE  NotYet' /\ Recorded' /\ Packed' /\ Tree'
  OBVIOUS
<1> USE StagingAssumption
    DEF StagingInv, TypeOK, NotYet, Recorded, Packed, Tree, Findings, Bundle, Trees, memory
<1>1. CASE Start
  BY <1>1 DEF Start
<1>2. CASE Cancel
  BY <1>2 DEF Cancel
<1>3. CASE PrepareWorkspace
  BY <1>3 DEF PrepareWorkspace, Goto, NoBundle
<1>4. CASE LookupDependency
  <2> PICK baseline \in Versions \cup {None}, repository \in {"none", "invalid", "valid"} :
        /\ Record([baseline |-> baseline, baselineError |-> baseline = None,
                   ref |-> None, outlineError |-> repository = "none"])
        /\ Goto(CASE repository = "none" -> "gather"
                  [] repository = "invalid" -> "rejected"
                  [] repository = "valid" -> "ensure")
    BY <1>4 DEF LookupDependency
  <2>1. /\ staged'.baseline = baseline /\ staged'.ref = None /\ context' = staged'
        /\ staged'.baselineError <=> baseline = None
        /\ staged'.outlineError <=> repository = "none"
    BY DEF Record
  <2>2. /\ pc' \in {"gather", "rejected", "ensure"}
        /\ pc' = "gather" <=> repository = "none"
    BY DEF Goto
  <2>3. UNCHANGED <<clone, previous, packed, bundle, ensured, gitFailed>> /\ pc = "lookup"
    BY <1>4 DEF LookupDependency
  <2> QED
    BY <2>1, <2>2, <2>3
<1>5. CASE RejectRepository
  BY <1>5 DEF RejectRepository, Goto, NoOutline, Record
<1>6. CASE EnsureSource
  BY <1>6 DEF EnsureSource, Goto
<1>7. CASE EnsureFails
  BY <1>7 DEF EnsureFails, Goto, NoOutline, Record
<1>8. CASE LinkSource
  BY <1>8 DEF LinkSource, Goto
<1>9. CASE CheckoutVersion
  BY <1>9 DEF CheckoutVersion, Goto, BaselineTags
<1>10. CASE CheckoutUnmatched
  BY <1>10 DEF CheckoutUnmatched, Goto, NoOutline, Record
<1>11. CASE StripTag
  BY <1>11 DEF StripTag, Goto
<1>12. CASE PackOutline
  BY <1>12 DEF PackOutline, Goto
<1>13. CASE Restore
  BY <1>13 DEF Restore, Goto, Restored
<1>14. CASE StripAgain
  BY <1>14 DEF StripAgain, Goto
<1>15. CASE WriteContext
  BY <1>15 DEF WriteContext, Goto
<1>16. CASE WriteSelection
  BY <1>16 DEF WriteSelection, Goto
<1>17. CASE WriteOutline
  BY <1>17 DEF WriteOutline, Goto
<1>18. CASE GatherHistory
  BY <1>18 DEF GatherHistory, Goto
<1>19. CASE Crash
  BY <1>19 DEF Crash, End
<1>20. CASE Fails
  BY <1>20 DEF Fails, End
<1>21. CASE UnmatchedFails
  BY <1>21 DEF UnmatchedFails, End
<1>22. CASE StripTagFails
  BY <1>22 DEF StripTagFails, End
<1>23. CASE PackFailed
  BY <1>23 DEF PackFailed, End
<1>24. CASE Finish
  BY <1>24 DEF Finish, End
<1>25. CASE UNCHANGED vars
  BY <1>25 DEF vars
<1>26. QED
  BY <1>1, <1>2, <1>3, <1>4, <1>5, <1>6, <1>7, <1>8, <1>9, <1>10, <1>11, <1>12,
     <1>13, <1>14, <1>15, <1>16, <1>17, <1>18, <1>19, <1>20, <1>21, <1>22, <1>23, <1>24, <1>25
  DEF Next, Finished

(* The invariant is inductive, and so holds in every behaviour.            *)
LEMMA Inductive == Spec => []StagingInv
<1>1. StagingInv /\ [Next]_vars => StagingInv'
  BY TypesKept, KnowledgeKept DEF StagingInv
<1> QED
  BY <1>1, InitInv, PTL DEF Spec

(* Staging keeps its types; in particular only a tag's tree is ever packed *)
(* into an outline.                                                        *)
THEOREM StagingTypes == Spec => []TypeOK
<1>1. StagingInv => TypeOK
  BY StagingAssumption DEF StagingInv, TypeOK
<1> QED
  BY <1>1, Inductive, PTL

(* README.md: outlines are only those of the tag that matches the resolved *)
(* baseline, whatever earlier runs, crashes and failures left behind.      *)
THEOREM OutlineAlwaysBaseline == Spec => []OutlineIsBaseline
<1>1. StagingInv => OutlineIsBaseline
  BY StagingAssumption DEF StagingInv, OutlineIsBaseline, Packed, Recorded
<1> QED
  BY <1>1, Inductive, PTL

(* A missing outline or baseline is always recorded, and nothing else is.  *)
THEOREM GapsAlwaysRecorded == Spec => []GapsRecorded
<1>1. StagingInv => GapsRecorded
  BY StagingAssumption DEF StagingInv, GapsRecorded, Packed, Recorded
<1> QED
  BY <1>1, Inductive, PTL

(* context.json and meta.json record the same, although context.json is    *)
(* written up to twice and survives from run to run.                       *)
THEOREM ContextAlwaysCurrent == Spec => []ContextCurrent
<1>1. StagingInv => ContextCurrent
  BY StagingAssumption DEF StagingInv, ContextCurrent, Recorded
<1> QED
  BY <1>1, Inductive, PTL

(* The clone that skills read is stripped on every path, with and without  *)
(* a checkout and its restoration.                                         *)
THEOREM SourceAlwaysStripped == Spec => []SourceStripped
<1>1. StagingInv => SourceStripped
  BY StagingAssumption DEF StagingInv, SourceStripped, Tree
<1> QED
  BY <1>1, Inductive, PTL

(* Unless git fails, the changelog is read from the tree clone.Ensure      *)
(* left, cancelled or not.                                                 *)
THEOREM SourceAlwaysRestored == Spec => []SourceRestored
<1>1. StagingInv => SourceRestored
  BY StagingAssumption DEF StagingInv, SourceRestored, Tree
<1> QED
  BY <1>1, Inductive, PTL
=============================================================================
