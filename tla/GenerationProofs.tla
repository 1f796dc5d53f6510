-------------------------- MODULE GenerationProofs --------------------------
(***************************************************************************)
(* Proofs about Generation.tla, in three parts: its type invariant; that   *)
(* no stale or foreign artifact is read and no suite is mixed; and what a  *)
(* run publishes - which batches and files a suite holds, which of them    *)
(* are flagged as recovered, and that the whole implements Publication.tla.*)
(***************************************************************************)
EXTENDS Generation, TLAPS

USE GenerationAssumption DEF GenerationAssumption

(* What the ends of a run leave in the process's memory, and the bound on  *)
(* the batch number that TypeOK needs when a new run picks other options.  *)
IdleClean ==
  pc = "idle" => /\ skill = "usage" /\ batch = 0 /\ gen = {} /\ todo = {} /\ done = {}
                 /\ recovered = {}

TypeInv == TypeOK /\ IdleClean

LEMMA AbsentFacts == Absent.form = "absent" /\ Absent.files = {} /\ Absent \notin Artifact
  BY DEF Absent, Artifact, Forms

LEMMA OutputFileType == \A s \in Skills : OutputFile[s] \in Names
  BY DEF Skills, OutputFile, Names

LEMMA BackendOutputType ==
  ASSUME NEW r \in Nat, NEW s \in Skills, NEW b \in Nat
  PROVE  BackendOutput(r, s, b) \subseteq Artifact
  BY DEF BackendOutput, Artifact

LEMMA DriverType ==
  ASSUME run \in Nat, NEW b \in Nat
  PROVE  Driver(b) \in Artifact
  BY DEF Driver, Artifact, Forms

LEMMA OutcomeType ==
  ASSUME NEW e, NEW c PROVE Outcome(e, c) \in {"clean", "recovered", "fatal"}
  BY DEF Outcome

LEMMA GeneratedFilesType ==
  ASSUME run \in Nat, batch \in Nat, NEW a \in Artifact
  PROVE  GeneratedFiles(a) \subseteq SuiteFile
<1> SUFFICES ASSUME NEW f \in GeneratedFiles(a) PROVE f \in SuiteFile
  OBVIOUS
<1>1. PICK p \in a.files :
        f = [dir |-> IF nBatches > 1 THEN batch ELSE 0, path |-> p, run |-> run,
             batch |-> batch, outcome |-> Outcome(exit, cancelled)]
  BY DEF GeneratedFiles
<1>2. p \in Paths
  BY DEF Artifact
<1>3. QED
  BY <1>1, <1>2, OutcomeType DEF SuiteFile

LEMMA BatchBound == TypeOK => nBatches \in Nat /\ batch \in Nat
  BY DEF TypeOK

(* Ending a run keeps the types; so does moving on within it.              *)
LEMMA EndType ==
  ASSUME TypeOK, NEW r \in {"ok", "error", "crash"}, End(r),
         ws' \in [Names -> Artifact \cup {Absent}], SuiteTypeOK'
  PROVE  TypeInv'
<1>1. nBatches' = nBatches /\ nBatches \in Nat /\ 0 \in 0 .. nBatches
  BY BatchBound DEF End
<1>2. IdleClean'
  BY DEF End, Forget, IdleClean
<1>3. batch' \in 0 .. nBatches'
  BY <1>1 DEF End, Forget
<1>4. TypeOK'
  BY <1>1, <1>3 DEF TypeOK, End, Forget, Phases, Skills, Exits
<1>5. QED
  BY <1>2, <1>4 DEF TypeInv

(* A step that stays within the run, and the types of what it collected.   *)
Moves ==
  /\ Goto(pc') /\ pc' \in Phases \ {"idle"}
  /\ skill' \in Skills /\ batch' \in 0 .. nBatches /\ exit' \in Exits
  /\ cancelled' \in BOOLEAN

CollectedTypeOK ==
  /\ traced \in SUBSET Artifact /\ breaks \in Artifact \cup {Absent}
  /\ gen \in SUBSET SuiteFile /\ todo \in SUBSET SuiteFile
  /\ done \in SUBSET Nat /\ recovered \in SUBSET (Skills \X Nat)

LEMMA MovesType ==
  ASSUME TypeOK, Moves, CollectedTypeOK', ws' \in [Names -> Artifact \cup {Absent}],
         SuiteTypeOK'
  PROVE  TypeInv'
<1>1. nBatches' = nBatches
  BY DEF Moves, Goto
<1>2. TypeOK'
  BY <1>1 DEF TypeOK, Moves, Goto, CollectedTypeOK
<1>3. QED
  BY <1>2 DEF Moves, TypeInv, IdleClean

LEMMA CollectedUnchanged == ASSUME TypeOK, UNCHANGED collected PROVE CollectedTypeOK'
  BY DEF TypeOK, CollectedTypeOK, collected

LEMMA SuiteUnchanged == ASSUME SuiteTypeOK, UNCHANGED suite PROVE SuiteTypeOK'
  BY DEF SuiteTypeOK, suite

LEMMA GotoPhaseMoves ==
  ASSUME TypeOK, NEW p \in Phases \ {"idle"}, GotoPhase(p) PROVE Moves
  BY DEF GotoPhase, Goto, Moves, TypeOK, invocation

LEMMA NextSkillMoves ==
  ASSUME TypeOK, NEW s \in Skills, NEW b \in 0 .. nBatches, NextSkill(s, b) PROVE Moves
  BY DEF NextSkill, Goto, Moves, TypeOK, Phases, Exits

LEMMA GotoBatchMoves ==
  ASSUME TypeOK, NEW b \in 0 .. nBatches, GotoBatch(b) PROVE Moves
  BY DEF GotoBatch, Goto, Moves, TypeOK, Phases

LEMMA AfterOptionalMoves == ASSUME TypeOK, AfterOptional PROVE Moves
<1>1. 0 \in 0 .. nBatches /\ batch \in 0 .. nBatches /\ (Batched => 1 \in 0 .. nBatches)
  BY BatchBound DEF TypeOK, Batched
<1>2. QED
  BY <1>1, NextSkillMoves, GotoBatchMoves DEF AfterOptional, Skills

LEMMA AfterGenerateMoves == ASSUME TypeOK, AfterGenerate PROVE Moves
<1>1. batch < nBatches => batch + 1 \in 0 .. nBatches
  BY BatchBound DEF TypeOK
<1>2. QED
  BY <1>1, GotoBatchMoves, GotoPhaseMoves DEF AfterGenerate, Phases

LEMMA StepFailedType ==
  ASSUME TypeOK, StepFailed, ws' \in [Names -> Artifact \cup {Absent}], UNCHANGED suite
  PROVE  TypeInv'
<1>1. SuiteTypeOK'
  BY SuiteUnchanged DEF TypeOK
<1>2. CASE skill = "generate" /\ End("error")
  BY <1>1, <1>2, EndType
<1>3. CASE Moves /\ UNCHANGED collected
  BY <1>1, <1>3, MovesType, CollectedUnchanged
<1>4. QED
  BY <1>2, <1>3, AfterOptionalMoves, GotoPhaseMoves DEF StepFailed, Phases

LEMMA NotedType == TypeOK => Noted \in SUBSET (Skills \X Nat)
  BY BatchBound DEF TypeOK, Noted

LEMMA StepAcceptedType ==
  ASSUME TypeOK, NEW a \in Artifact, StepAccepted(a), UNCHANGED <<ws, suite>>
  PROVE  TypeInv'
<1>1. SuiteTypeOK' /\ ws' \in [Names -> Artifact \cup {Absent}]
  BY SuiteUnchanged DEF TypeOK
<1>2. ASSUME End("error") PROVE TypeInv'
  BY <1>1, <1>2, EndType
<1>3. ASSUME Moves, CollectedTypeOK' PROVE TypeInv'
  BY <1>1, <1>3, MovesType
<1>4. CASE TraceAccepted(a)
  BY <1>3, <1>4, AfterOptionalMoves, NotedType DEF TraceAccepted, TypeOK, CollectedTypeOK
<1>5. CASE HistoryAccepted(a)
  BY <1>3, <1>5, AfterOptionalMoves, NotedType DEF HistoryAccepted, TypeOK, CollectedTypeOK
<1>6. CASE GenerateAccepted(a)
  <2>1. CASE a.form = "junk" \/ (a.form = "escaping" /\ Batched)
    BY <1>2, <1>6, <2>1 DEF GenerateAccepted
  <2>2. CASE ~(a.form = "junk" \/ (a.form = "escaping" /\ Batched))
    <3>1. GeneratedFiles(a) \subseteq SuiteFile /\ done \cup {batch} \subseteq Nat
      BY GeneratedFilesType, BatchBound DEF TypeOK
    <3>2. CollectedTypeOK'
      BY <1>6, <2>2, <3>1, NotedType DEF GenerateAccepted, TypeOK, CollectedTypeOK
    <3>3. QED
      BY <1>3, <1>6, <2>2, <3>2, AfterGenerateMoves DEF GenerateAccepted
  <2>3. QED
    BY <2>1, <2>2
<1>7. CASE ValidateAccepted(a)
  BY <1>3, <1>7, GotoPhaseMoves, NotedType DEF ValidateAccepted, TypeOK, CollectedTypeOK, Phases
<1>8. QED
  BY <1>2, <1>4, <1>5, <1>6, <1>7 DEF StepAccepted, RecordFails

LEMMA InitType == Init => TypeInv
<1> SUFFICES ASSUME Init PROVE TypeInv
  OBVIOUS
<1>1. SuiteTypeOK
  BY DEF Init, SuiteInit, SuiteTypeOK, NoMeta, Meta
<1>2. batch \in 0 .. nBatches
  BY DEF Init
<1>3. IdleClean
  BY DEF Init, IdleClean
<1>4. TypeOK
  BY <1>1, <1>2 DEF Init, TypeOK, Phases, Skills, Exits
<1>5. QED
  BY <1>3, <1>4 DEF TypeInv

LEMMA StepType == TypeInv /\ [Next]_vars => TypeInv'
<1> SUFFICES ASSUME TypeInv, [Next]_vars PROVE TypeInv'
  OBVIOUS
<1> USE DEF TypeInv
<1>a. TypeOK /\ SuiteTypeOK /\ ws \in [Names -> Artifact \cup {Absent}] /\ run \in Nat
  BY DEF TypeOK
<1>b. ASSUME UNCHANGED suite PROVE SuiteTypeOK'
  BY <1>a, <1>b, SuiteUnchanged
<1>c. ASSUME UNCHANGED collected PROVE CollectedTypeOK'
  BY <1>a, <1>c, CollectedUnchanged
<1>d. \A b \in Nat : Driver(b) \in Artifact
  BY <1>a, DriverType
<1>1. CASE Start
  <2>1. nBatches' \in Nat /\ batch = 0
    BY <1>1 DEF Start, IdleClean
  <2>2. QED
    BY <1>1, <2>1 DEF Start, TypeOK, Phases, IdleClean, invocation, collected, suite, SuiteTypeOK
<1>2. CASE Crash
  BY <1>a, <1>b, <1>2, EndType DEF Crash
<1>3. CASE Cancel
  BY <1>3 DEF Cancel, TypeOK, IdleClean, control, invocation, collected, suite, SuiteTypeOK
<1>4. CASE PrepareWorkspace
  <2>1. Moves
    BY <1>a, <1>4, GotoPhaseMoves DEF PrepareWorkspace, GotoPhase, Phases
  <2>2. QED
    BY <1>a, <1>b, <1>c, <1>4, <2>1, MovesType DEF PrepareWorkspace
<1>5. CASE StageContext
  <2>1. Moves
    BY <1>a, <1>5, NextSkillMoves, BatchBound DEF StageContext, Skills
  <2>2. QED
    BY <1>a, <1>b, <1>c, <1>d, <1>5, <2>1, MovesType DEF StageContext
<1>6. CASE StageFails
  BY <1>a, <1>b, <1>d, <1>6, EndType DEF StageFails
<1>7. CASE SkillUnavailable
  BY <1>a, <1>7, StepFailedType, OutputFileType DEF SkillUnavailable, TypeOK
<1>8. CASE Launch
  <2>1. Moves
    BY <1>a, <1>8 DEF Launch, Goto, Moves, TypeOK, Phases, Exits
  <2>2. QED
    BY <1>a, <1>b, <1>c, <1>8, <2>1, MovesType, OutputFileType DEF Launch, PrepareOutput
<1>9. CASE BackendWrite
  <2>1. BackendOutput(run, skill, batch) \subseteq Artifact
    BY <1>a, BackendOutputType, BatchBound DEF TypeOK
  <2>2. ws' \in [Names -> Artifact \cup {Absent}]
    BY <1>a, <1>9, <2>1, OutputFileType DEF BackendWrite
  <2>3. QED
    BY <1>9, <2>2 DEF BackendWrite, TypeOK, IdleClean, control, invocation, collected, suite,
                      SuiteTypeOK
<1>10. CASE BackendExit
  BY <1>10 DEF BackendExit, TypeOK, IdleClean, Phases, Exits, collected, suite, SuiteTypeOK
<1>11. CASE Finish
  <2> DEFINE a == ws[OutputFile[skill]]
  <2>1. CASE FinishRun(skill, a, exit, cancelled)
    <3>1. a \in Artifact
      BY <1>a, <2>1, OutputFileType DEF FinishRun, TypeOK
    <3>2. QED
      BY <1>a, <1>11, <2>1, <3>1, StepAcceptedType DEF Finish
  <2>2. CASE ~FinishRun(skill, a, exit, cancelled)
    BY <1>a, <1>11, <2>2, StepFailedType DEF Finish
  <2>3. QED
    BY <2>1, <2>2
<1>12. CASE PrepareBatch
  <2>1. Moves
    BY <1>a, <1>12, NextSkillMoves DEF PrepareBatch, Skills, TypeOK
  <2>2. BatchWorkspace \in [Names -> Artifact \cup {Absent}]
    BY <1>a, <1>d, BatchBound DEF BatchWorkspace, TypeOK, Names
  <2>3. QED
    BY <1>a, <1>b, <1>c, <1>12, <2>1, <2>2, MovesType DEF PrepareBatch
<1>13. CASE RestoreBatched
  <2>1. Moves
    BY <1>a, <1>13, GotoPhaseMoves DEF RestoreBatched, Phases
  <2>2. MergedTrace \in Artifact \cup {Absent}
    BY <1>a, <1>d DEF MergedTrace, Names
  <2>3. ws' \in [Names -> Artifact \cup {Absent}]
    BY <1>a, <1>d, <1>13, <2>2 DEF RestoreBatched, TypeOK, Names
  <2>4. QED
    BY <1>a, <1>b, <1>c, <1>13, <2>1, <2>3, MovesType DEF RestoreBatched
<1>14. CASE RefuseReplace
  BY <1>a, <1>b, <1>14, EndType DEF RefuseReplace
<1>15. CASE BeginReplace
  BY <1>a, <1>b, <1>c, <1>15, MovesType, GotoPhaseMoves DEF BeginReplace, Phases
<1>16. CASE RemoveStep
  <2>1. NoMeta \in Meta
    BY DEF NoMeta, Meta
  <2>2. SuiteTypeOK'
    BY <1>a, <1>16, <2>1 DEF RemoveStep, RemoveEntry, SuiteTypeOK
  <2>3. QED
    BY <1>16, <2>2 DEF RemoveStep, TypeOK, IdleClean, control, invocation, collected
<1>17. CASE RemoveDone
  <2>1. CollectedTypeOK'
    BY <1>a, <1>17 DEF RemoveDone, TypeOK, CollectedTypeOK
  <2>2. QED
    BY <1>a, <1>b, <1>17, <2>1, MovesType, GotoPhaseMoves DEF RemoveDone, Phases
<1>18. CASE OpenFile
  <2>1. SuiteTypeOK'
    BY <1>a, <1>18 DEF OpenFile, OpenTemp, SuiteTypeOK
  <2>2. QED
    BY <1>a, <1>c, <1>18, <2>1, MovesType, GotoPhaseMoves DEF OpenFile, Phases
<1>19. CASE CloseFile
  <2>1. SuiteTypeOK' /\ CollectedTypeOK'
    BY <1>a, <1>19 DEF CloseFile, RenameFile, SuiteTypeOK, TypeOK, CollectedTypeOK
  <2>2. QED
    BY <1>a, <1>19, <2>1, MovesType, GotoPhaseMoves DEF CloseFile, Phases
<1>20. CASE WriteDone
  BY <1>a, <1>b, <1>c, <1>20, MovesType, GotoPhaseMoves DEF WriteDone, Phases
<1>21. CASE VerifyRan
  <2>1. Moves
    BY <1>a, <1>21, NextSkillMoves, BatchBound DEF VerifyRan, Skills
  <2>2. QED
    BY <1>a, <1>b, <1>c, <1>d, <1>21, <2>1, MovesType DEF VerifyRan
<1>22. CASE VerifyRanNothing
  BY <1>a, <1>b, <1>c, <1>22, MovesType, GotoPhaseMoves DEF VerifyRanNothing, Phases
<1>23. CASE OpenMeta
  <2>1. SuiteTypeOK'
    BY <1>a, <1>23 DEF OpenMeta, OpenTemp, SuiteTypeOK
  <2>2. QED
    BY <1>a, <1>c, <1>23, <2>1, MovesType, GotoPhaseMoves DEF OpenMeta, Phases
<1>24. CASE CloseMeta
  <2>1. [run |-> run, batches |-> done, recovered |-> recovered, files |-> gen] \in Meta
    BY DEF TypeOK, Meta
  <2>2. SuiteTypeOK'
    BY <1>a, <1>24, <2>1 DEF CloseMeta, RenameMeta, SuiteTypeOK
  <2>3. QED
    BY <1>a, <1>24, <2>2, EndType DEF CloseMeta
<1>25. CASE IOFails
  BY <1>a, <1>b, <1>25, EndType DEF IOFails
<1>26. CASE WriteFails
  <2>1. SuiteTypeOK'
    BY <1>a, <1>26 DEF WriteFails, DropTemp, SuiteTypeOK
  <2>2. QED
    BY <1>a, <1>26, <2>1, EndType DEF WriteFails
<1>27. CASE UNCHANGED vars
  BY <1>27 DEF vars, TypeOK, IdleClean, control, invocation, collected, suite, SuiteTypeOK
<1>28. QED
  BY <1>1, <1>2, <1>3, <1>4, <1>5, <1>6, <1>7, <1>8, <1>9, <1>10, <1>11, <1>12, <1>13, <1>14,
     <1>15, <1>16, <1>17, <1>18, <1>19, <1>20, <1>21, <1>22, <1>23, <1>24, <1>25, <1>26, <1>27
     DEF Next, Program, Finished

(* Every variable of a run keeps its type, for any set of paths, any batch *)
(* counts and any number of runs and failures.                             *)
THEOREM TypeCorrect == Spec => []TypeOK
<1>1. TypeInv => TypeOK
  BY DEF TypeInv
<1>2. QED
  BY InitType, StepType, <1>1, PTL DEF Spec

-----------------------------------------------------------------------------
(***************************************************************************)
(* The published suite.  While a run publishes - from the moment the old   *)
(* suite is gone until meta.json is in place - nothing on disk belongs to  *)
(* another run; the files still to be written are its own; and validate    *)
(* only ever runs in that phase.                                           *)
(***************************************************************************)
Publishing ==
  \/ pc \in {"write", "rename", "verify", "meta", "renameMeta"}
  \/ pc \in {"skill", "running", "exited"} /\ skill = "validate"

OwnFiles == \A f \in gen \cup todo : f.run = run

PublishingClean ==
  Publishing =>
    /\ meta = NoMeta
    /\ \A f \in files : f.run = run
    /\ temp \subseteq {run}
    /\ pc \notin {"rename", "renameMeta"} => temp = {}

SuiteInv == TypeInv /\ OwnFiles /\ PublishingClean /\ SuiteUnmixed

LEMMA SuiteInvAtEnd ==
  ASSUME SuiteInv, NEW r, End(r), UNCHANGED suite
  PROVE  OwnFiles' /\ PublishingClean' /\ SuiteUnmixed'
  BY DEF SuiteInv, End, Forget, OwnFiles, PublishingClean, Publishing, SuiteUnmixed, suite

(* Most steps touch neither the suite nor the files held in memory.        *)
LEMMA SuiteInvKept ==
  ASSUME SuiteInv, run' = run, UNCHANGED suite, OwnFiles',
         Publishing' => Publishing /\ pc \notin {"rename", "renameMeta"}
  PROVE  OwnFiles' /\ PublishingClean' /\ SuiteUnmixed'
  BY DEF SuiteInv, PublishingClean, SuiteUnmixed, suite

LEMMA OwnFilesKept ==
  ASSUME OwnFiles, run' = run, UNCHANGED <<gen, todo>> PROVE OwnFiles'
  BY DEF OwnFiles

(* The steps that follow an optional skill are still before publication.   *)
LEMMA AfterOptionalNotPublishing ==
  ASSUME AfterOptional PROVE run' = run /\ ~Publishing'
  BY DEF AfterOptional, NextSkill, GotoBatch, Goto, Publishing

LEMMA AfterGenerateNotPublishing ==
  ASSUME AfterGenerate PROVE run' = run /\ ~Publishing'
  BY DEF AfterGenerate, GotoBatch, GotoPhase, Goto, Publishing

LEMMA StepFailedSuite ==
  ASSUME SuiteInv, pc \in {"skill", "exited"}, StepFailed, UNCHANGED suite
  PROVE  OwnFiles' /\ PublishingClean' /\ SuiteUnmixed'
<1>1. CASE AfterOptional /\ UNCHANGED collected
  BY <1>1, SuiteInvKept, OwnFilesKept, AfterOptionalNotPublishing DEF SuiteInv, collected
<1>2. CASE skill = "generate" /\ End("error")
  BY <1>2, SuiteInvAtEnd
<1>3. CASE skill = "validate" /\ GotoPhase("meta") /\ UNCHANGED collected
  <2>1. run' = run /\ Publishing /\ OwnFiles'
    BY <1>3, OwnFilesKept DEF GotoPhase, Goto, Publishing, SuiteInv, collected
  <2>2. QED
    BY <2>1, SuiteInvKept
<1>4. QED
  BY <1>1, <1>2, <1>3 DEF StepFailed

LEMMA StepAcceptedSuite ==
  ASSUME SuiteInv, pc = "exited", NEW a, StepAccepted(a), UNCHANGED suite
  PROVE  OwnFiles' /\ PublishingClean' /\ SuiteUnmixed'
<1>1. CASE RecordFails
  BY <1>1, SuiteInvAtEnd DEF RecordFails
<1>2. CASE TraceAccepted(a)
  BY <1>2, SuiteInvKept, OwnFilesKept, AfterOptionalNotPublishing DEF TraceAccepted, SuiteInv
<1>3. CASE HistoryAccepted(a)
  BY <1>3, SuiteInvKept, OwnFilesKept, AfterOptionalNotPublishing DEF HistoryAccepted, SuiteInv
<1>4. CASE GenerateAccepted(a)
  <2>1. CASE End("error")
    BY <2>1, SuiteInvAtEnd
  <2>2. CASE ~End("error")
    <3>1. AfterGenerate /\ gen' = gen \cup GeneratedFiles(a) /\ todo' = todo
      BY <1>4, <2>2 DEF GenerateAccepted
    <3>2. \A f \in GeneratedFiles(a) : f.run = run
      BY DEF GeneratedFiles
    <3>3. run' = run /\ ~Publishing'
      BY <3>1, AfterGenerateNotPublishing
    <3>4. OwnFiles'
      BY <3>1, <3>2, <3>3 DEF OwnFiles, SuiteInv
    <3>5. QED
      BY <3>3, <3>4, SuiteInvKept
  <2>3. QED
    BY <2>1, <2>2
<1>5. CASE ValidateAccepted(a)
  <2>1. run' = run /\ Publishing /\ OwnFiles'
    BY <1>5, OwnFilesKept DEF ValidateAccepted, GotoPhase, Goto, Publishing, SuiteInv
  <2>2. QED
    BY <2>1, SuiteInvKept
<1>6. QED
  BY <1>1, <1>2, <1>3, <1>4, <1>5 DEF StepAccepted

LEMMA SuiteStep == SuiteInv /\ [Next]_vars => SuiteInv'
<1> SUFFICES ASSUME SuiteInv, [Next]_vars PROVE SuiteInv'
  OBVIOUS
<1>a. TypeInv'
  BY StepType DEF SuiteInv
<1>b. SUFFICES OwnFiles' /\ PublishingClean' /\ SuiteUnmixed'
  BY <1>a DEF SuiteInv
<1>c. OwnFiles /\ PublishingClean /\ SuiteUnmixed
  BY DEF SuiteInv
<1>d. ASSUME run' = run, UNCHANGED <<gen, todo>> PROVE OwnFiles'
  BY <1>c, <1>d, OwnFilesKept
<1>1. CASE Start
  <2>1. gen = {} /\ todo = {}
    BY <1>1 DEF Start, SuiteInv, TypeInv, IdleClean
  <2>2. QED
    BY <1>c, <1>1, <2>1 DEF Start, OwnFiles, PublishingClean, Publishing, SuiteUnmixed, collected,
                       suite
<1>2. CASE Crash
  BY <1>2, SuiteInvAtEnd DEF Crash
<1>3. CASE Cancel
  BY <1>c, <1>3 DEF Cancel, OwnFiles, PublishingClean, Publishing, SuiteUnmixed, control,
               invocation, collected, suite
<1>4. CASE PrepareWorkspace \/ StageContext \/ PrepareBatch \/ RestoreBatched \/ BeginReplace
  <2>1. run' = run /\ OwnFiles' /\ ~Publishing' /\ UNCHANGED suite
    BY <1>d, <1>4 DEF PrepareWorkspace, StageContext, PrepareBatch, RestoreBatched, BeginReplace,
       NextSkill, GotoPhase, Goto, Publishing, collected, invocation
  <2>2. QED
    BY <2>1, SuiteInvKept
<1>5. CASE StageFails \/ RefuseReplace \/ IOFails
  BY <1>5, SuiteInvAtEnd DEF StageFails, RefuseReplace, IOFails
<1>6. CASE SkillUnavailable
  BY <1>6, StepFailedSuite DEF SkillUnavailable
<1>7. CASE Launch \/ BackendWrite \/ BackendExit
  <2>1. run' = run /\ OwnFiles' /\ UNCHANGED suite
    BY <1>d, <1>7 DEF Launch, BackendWrite, BackendExit, Goto, control, collected
  <2>2. Publishing' => Publishing /\ pc \notin {"rename", "renameMeta"}
    BY <1>7 DEF Launch, BackendWrite, BackendExit, Goto, control, invocation, Publishing
  <2>3. QED
    BY <2>1, <2>2, SuiteInvKept
<1>8. CASE Finish
  BY <1>8, StepAcceptedSuite, StepFailedSuite DEF Finish
<1>9. CASE RemoveStep
  <2>1. run' = run /\ OwnFiles' /\ ~Publishing'
    BY <1>d, <1>9 DEF RemoveStep, Publishing, control, collected
  <2>2. PublishingClean'
    BY <2>1 DEF PublishingClean
  <2>3. SuiteUnmixed'
    BY <1>c, <1>9 DEF RemoveStep, RemoveEntry, SuiteUnmixed
  <2>4. QED
    BY <2>1, <2>2, <2>3
<1>10. CASE RemoveDone
  BY <1>c, <1>10 DEF RemoveDone, GotoPhase, Goto, SuiteEmpty, OwnFiles, PublishingClean,
                SuiteUnmixed, suite
<1>11. CASE OpenFile \/ OpenMeta
  <2>1. run' = run /\ OwnFiles' /\ pc' \in {"rename", "renameMeta"}
    BY <1>d, <1>11 DEF OpenFile, OpenMeta, GotoPhase, Goto, collected
  <2>2. meta = NoMeta /\ (\A f \in files : f.run = run) /\ temp = {}
    BY <1>c, <1>11 DEF OpenFile, OpenMeta, PublishingClean, Publishing
  <2>3. PublishingClean' /\ SuiteUnmixed'
    BY <1>c, <1>11, <2>1, <2>2 DEF OpenFile, OpenMeta, OpenTemp, PublishingClean, SuiteUnmixed
  <2>4. QED
    BY <2>1, <2>3
<1>12. CASE CloseFile
  <2>1. meta = NoMeta /\ (\A f \in files : f.run = run) /\ temp \subseteq {run}
    BY <1>c, <1>12 DEF CloseFile, PublishingClean, Publishing
  <2>2. run' = run /\ OwnFiles' /\ meta' = meta /\ temp' = {}
    BY <1>c, <1>12, <2>1 DEF CloseFile, RenameFile, GotoPhase, Goto, OwnFiles
  <2>3. \A f \in files' : f.run = run
    BY <1>c, <1>12, <2>1 DEF CloseFile, RenameFile, OwnFiles
  <2>4. QED
    BY <2>1, <2>2, <2>3 DEF PublishingClean, SuiteUnmixed
<1>13. CASE WriteDone \/ VerifyRan \/ VerifyRanNothing
  <2>1. run' = run /\ OwnFiles' /\ UNCHANGED suite
    BY <1>d, <1>13 DEF WriteDone, VerifyRan, VerifyRanNothing, NextSkill, GotoPhase, Goto, collected
  <2>2. Publishing /\ pc \notin {"rename", "renameMeta"}
    BY <1>13 DEF WriteDone, VerifyRan, VerifyRanNothing, Publishing
  <2>3. QED
    BY <2>1, <2>2, SuiteInvKept
<1>14. CASE CloseMeta
  <2>1. (\A f \in files : f.run = run) /\ temp \subseteq {run}
    BY <1>c, <1>14 DEF CloseMeta, PublishingClean, Publishing
  <2>2. meta'.run = run /\ temp' = {} /\ files' = files
    BY <1>14, <2>1 DEF CloseMeta, RenameMeta
  <2>3. QED
    BY <1>14, <2>1, <2>2 DEF CloseMeta, End, Forget, OwnFiles, PublishingClean, Publishing,
       SuiteUnmixed
<1>15. CASE WriteFails
  <2>1. meta = NoMeta
    BY <1>c, <1>15 DEF WriteFails, PublishingClean, Publishing
  <2>2. QED
    BY <1>c, <1>15, <2>1 DEF WriteFails, DropTemp, End, Forget, OwnFiles, PublishingClean,
       Publishing, SuiteUnmixed
<1>16. CASE UNCHANGED vars
  BY <1>c, <1>16 DEF vars, OwnFiles, PublishingClean, Publishing, SuiteUnmixed, control, invocation,
                collected, suite
<1>17. QED
  BY <1>1, <1>2, <1>3, <1>4, <1>5, <1>6, <1>7, <1>8, <1>9, <1>10, <1>11, <1>12, <1>13, <1>14, <1>15,
     <1>16 DEF Next, Program, Finished

(* Whatever crashes, fails or is interrupted, a suite never mixes the      *)
(* files of two runs, and a meta.json describes the files it lies beside.  *)
THEOREM SuiteNeverMixed == Spec => []SuiteUnmixed
<1>1. Init => SuiteInv
  <2>1. Init => OwnFiles /\ PublishingClean /\ SuiteUnmixed
    BY DEF Init, SuiteInit, OwnFiles, PublishingClean, Publishing, SuiteUnmixed
  <2>2. QED
    BY <2>1, InitType DEF SuiteInv
<1>2. SuiteInv => SuiteUnmixed
  BY DEF SuiteInv
<1>3. QED
  BY <1>1, <1>2, SuiteStep, PTL DEF Spec
-----------------------------------------------------------------------------
(***************************************************************************)
(* The artifact an invocation leaves.  prepareOutput has removed whatever  *)
(* was there, and until finishRun nobody but the backend writes it.        *)
(***************************************************************************)
LEMMA ArtifactStep == TypeInv /\ ArtifactFresh /\ [Next]_vars => ArtifactFresh'
<1> SUFFICES ASSUME TypeInv, ArtifactFresh, [Next]_vars PROVE ArtifactFresh'
  OBVIOUS
<1>1. CASE Launch
  BY <1>1, OutputFileType DEF Launch, PrepareOutput, Goto, ArtifactFresh, TypeInv, TypeOK
<1>2. CASE BackendWrite
  <2>1. PICK a \in BackendOutput(run, skill, batch) : ws' = [ws EXCEPT ![OutputFile[skill]] = a]
    BY <1>2 DEF BackendWrite
  <2>2. ws'[OutputFile[skill]] = a
    BY <2>1, OutputFileType DEF TypeInv, TypeOK
  <2>3. a.run = run /\ a.skill = skill /\ a.batch = batch
    BY DEF BackendOutput
  <2>4. QED
    BY <1>2, <2>2, <2>3 DEF BackendWrite, control, invocation, ArtifactFresh
<1>3. CASE BackendExit \/ Cancel \/ UNCHANGED vars
  BY <1>3 DEF BackendExit, Cancel, vars, ArtifactFresh, control, invocation
<1>4. CASE Start \/ Crash \/ StageFails \/ RefuseReplace \/ IOFails \/ WriteFails \/ CloseMeta
  BY <1>4 DEF Start, Crash, StageFails, RefuseReplace, IOFails, WriteFails, CloseMeta, End,
              ArtifactFresh
<1>5. CASE PrepareWorkspace \/ StageContext \/ PrepareBatch \/ RestoreBatched \/ BeginReplace
  BY <1>5 DEF PrepareWorkspace, StageContext, PrepareBatch, RestoreBatched, BeginReplace, NextSkill,
     GotoPhase, Goto, ArtifactFresh
<1>6. CASE RemoveStep \/ RemoveDone \/ OpenFile \/ CloseFile \/ WriteDone
  BY <1>6 DEF RemoveStep, RemoveDone, OpenFile, CloseFile, WriteDone, GotoPhase, Goto, control,
     ArtifactFresh
<1>7. CASE VerifyRan \/ VerifyRanNothing \/ OpenMeta
  BY <1>7 DEF VerifyRan, VerifyRanNothing, OpenMeta, NextSkill, GotoPhase, Goto, ArtifactFresh
<1>8. ASSUME StepFailed PROVE pc' \notin {"running", "exited"}
  BY <1>8 DEF StepFailed, AfterOptional, NextSkill, GotoBatch, GotoPhase, Goto, End
<1>9. CASE SkillUnavailable
  BY <1>8, <1>9 DEF SkillUnavailable, ArtifactFresh
<1>10. CASE Finish
  <2>1. ASSUME NEW a, StepAccepted(a) PROVE pc' \notin {"running", "exited"}
    BY <2>1 DEF StepAccepted, RecordFails, TraceAccepted, HistoryAccepted, GenerateAccepted,
       ValidateAccepted, AfterOptional, AfterGenerate, NextSkill, GotoBatch, GotoPhase, Goto, End
  <2>2. QED
    BY <1>8, <1>10, <2>1 DEF Finish, ArtifactFresh
<1>11. QED
  BY <1>1, <1>2, <1>3, <1>4, <1>5, <1>6, <1>7, <1>9, <1>10 DEF Next, Program, Finished

(* A failing backend never succeeds on an output that an earlier           *)
(* invocation, batch or run left in the workspace.                         *)
THEOREM ArtifactAlwaysFresh == Spec => []ArtifactFresh
<1>1. Init => TypeInv /\ ArtifactFresh
  BY InitType DEF Init, ArtifactFresh
<1>2. TypeInv /\ ArtifactFresh /\ [Next]_vars => (TypeInv /\ ArtifactFresh)'
  BY StepType, ArtifactStep
<1>3. QED
  BY <1>1, <1>2, PTL DEF Spec
-----------------------------------------------------------------------------
(***************************************************************************)
(* The inputs of a run.  prepareWorkspace empties the workspace of all but *)
(* usage.json, which stageContext then overwrites; from then on every file *)
(* carries the current run.                                                *)
(***************************************************************************)
OfThisRun(n) == ws[n] # Absent => ws[n].run = run

WorkspaceCurrent ==
  /\ pc \notin {"idle", "prepare"} => \A n \in Names \ {"usage"} : OfThisRun(n)
  /\ pc \notin {"idle", "prepare", "context"} => OfThisRun("usage")

HistoryCurrent ==
  /\ pc = "idle" => breaks = Absent
  /\ breaks # Absent => breaks.run = run

InputsInv == TypeInv /\ WorkspaceCurrent /\ HistoryCurrent

(* Most steps leave the workspace and the history output alone.            *)
LEMMA InputsInvKept ==
  ASSUME InputsInv, UNCHANGED <<run, ws, breaks>>, pc' # "idle",
         pc \notin {"idle", "prepare", "context"}
  PROVE  WorkspaceCurrent' /\ HistoryCurrent'
  BY DEF InputsInv, WorkspaceCurrent, HistoryCurrent, OfThisRun

LEMMA InputsInvAtEnd ==
  ASSUME NEW r, End(r) PROVE WorkspaceCurrent' /\ HistoryCurrent'
  BY DEF End, Forget, WorkspaceCurrent, HistoryCurrent

LEMMA StaysInRun ==
  ASSUME StepFailed \/ AfterOptional \/ AfterGenerate \/ GotoPhase("meta"), ~(\E r : End(r))
  PROVE  run' = run /\ pc' \notin {"idle", "prepare"}
  BY DEF StepFailed, AfterOptional, AfterGenerate, NextSkill, GotoBatch, GotoPhase, Goto

LEMMA StepFailedInputs ==
  ASSUME InputsInv, pc \in {"skill", "exited"}, StepFailed,
         \A n \in Names : ws'[n] = ws[n] \/ ws'[n] = Absent
  PROVE  WorkspaceCurrent' /\ HistoryCurrent'
<1>1. CASE \E r : End(r)
  BY <1>1, InputsInvAtEnd
<1>2. CASE ~(\E r : End(r))
  <2>1. run' = run /\ pc' # "idle" /\ breaks' = breaks
    BY <1>2, StaysInRun DEF StepFailed, collected
  <2>2. \A n \in Names : OfThisRun(n)'
    BY <2>1 DEF InputsInv, WorkspaceCurrent, OfThisRun, Names
  <2>3. QED
    BY <2>1, <2>2 DEF InputsInv, WorkspaceCurrent, HistoryCurrent, Names
<1>3. QED
  BY <1>1, <1>2

LEMMA StepAcceptedInputs ==
  ASSUME InputsInv, pc = "exited", StepAccepted(ws[OutputFile[skill]]), UNCHANGED ws
  PROVE  WorkspaceCurrent' /\ HistoryCurrent'
<1> DEFINE a == ws[OutputFile[skill]]
<1>1. CASE \E r : End(r)
  BY <1>1, InputsInvAtEnd
<1>2. CASE ~(\E r : End(r))
  <2>1. run' = run /\ pc' \notin {"idle", "prepare"}
    BY <1>2, StaysInRun DEF StepAccepted, RecordFails, TraceAccepted, HistoryAccepted,
       GenerateAccepted, ValidateAccepted
  <2>2. WorkspaceCurrent'
    BY <2>1 DEF InputsInv, WorkspaceCurrent, OfThisRun
  <2>3. breaks' = breaks \/ breaks' = a
    BY <1>2 DEF StepAccepted, RecordFails, TraceAccepted, HistoryAccepted, GenerateAccepted,
       ValidateAccepted
  <2>4. a # Absent => a.run = run
    BY OutputFileType DEF InputsInv, TypeInv, TypeOK, WorkspaceCurrent, OfThisRun, Names
  <2>5. QED
    BY <2>1, <2>2, <2>3, <2>4 DEF InputsInv, HistoryCurrent
<1>3. QED
  BY <1>1, <1>2

LEMMA InputsStep == InputsInv /\ [Next]_vars => InputsInv'
<1> SUFFICES ASSUME InputsInv, [Next]_vars PROVE InputsInv'
  OBVIOUS
<1>a. TypeInv'
  BY StepType DEF InputsInv
<1>b. SUFFICES WorkspaceCurrent' /\ HistoryCurrent'
  BY <1>a DEF InputsInv
<1>c. WorkspaceCurrent /\ HistoryCurrent /\ ws \in [Names -> Artifact \cup {Absent}]
  BY DEF InputsInv, TypeInv, TypeOK
<1>d. \A b : Driver(b).run = run
  BY DEF Driver
<1>1. CASE Start
  BY <1>c, <1>1 DEF Start, WorkspaceCurrent, HistoryCurrent, collected
<1>2. CASE Crash \/ StageFails \/ RefuseReplace \/ IOFails \/ WriteFails \/ CloseMeta
  BY <1>2, InputsInvAtEnd DEF Crash, StageFails, RefuseReplace, IOFails, WriteFails, CloseMeta
<1>3. CASE Cancel \/ UNCHANGED vars
  BY <1>c, <1>3 DEF Cancel, vars, control, collected, WorkspaceCurrent, HistoryCurrent, OfThisRun
<1>4. CASE PrepareWorkspace
  <2>1. \A n \in Names \ {"usage"} : ws'[n] = Absent
    BY <1>4 DEF PrepareWorkspace, TransientNames
  <2>2. QED
    BY <1>c, <1>4, <2>1 DEF PrepareWorkspace, Goto, collected, WorkspaceCurrent, HistoryCurrent,
       OfThisRun
<1>5. CASE StageContext
  <2>1. ws'["usage"].run = run /\ \A n \in Names \ {"usage"} : ws'[n] = ws[n]
    BY <1>c, <1>d, <1>5 DEF StageContext, Names
  <2>2. run' = run /\ pc = "context" /\ pc' = "skill" /\ breaks' = breaks
    BY <1>5 DEF StageContext, NextSkill, Goto, collected
  <2>3. QED
    BY <1>c, <2>1, <2>2 DEF WorkspaceCurrent, HistoryCurrent, OfThisRun
<1>6. CASE SkillUnavailable
  <2>1. \A n \in Names : ws'[n] = ws[n] \/ ws'[n] = Absent
    BY <1>c, <1>6 DEF SkillUnavailable
  <2>2. QED
    BY <1>6, <2>1, StepFailedInputs DEF SkillUnavailable
<1>7. CASE Launch
  <2>1. \A n \in Names : ws'[n] = ws[n] \/ ws'[n] = Absent
    BY <1>c, <1>7 DEF Launch, PrepareOutput
  <2>2. run' = run /\ pc = "skill" /\ pc' # "idle" /\ breaks' = breaks
    BY <1>7 DEF Launch, Goto, collected
  <2>3. QED
    BY <1>c, <2>1, <2>2 DEF WorkspaceCurrent, HistoryCurrent, OfThisRun, Names
<1>8. CASE BackendWrite
  <2>1. PICK o \in BackendOutput(run, skill, batch) : ws' = [ws EXCEPT ![OutputFile[skill]] = o]
    BY <1>8 DEF BackendWrite
  <2>2. o.run = run /\ \A n \in Names : ws'[n] = ws[n] \/ ws'[n] = o
    BY <1>c, <2>1 DEF BackendOutput
  <2>3. run' = run /\ pc = "running" /\ pc' = pc /\ breaks' = breaks
    BY <1>8 DEF BackendWrite, control, collected
  <2>4. QED
    BY <1>c, <2>2, <2>3 DEF WorkspaceCurrent, HistoryCurrent, OfThisRun, Names
<1>9. CASE Finish
  BY <1>9, StepFailedInputs, StepAcceptedInputs DEF Finish
<1>10. CASE PrepareBatch
  <2>1. \A n \in Names : ws'[n] \in {ws[n], Absent, breaks, Driver(batch)}
    BY <1>c, <1>10 DEF PrepareBatch, BatchWorkspace, Names
  <2>2. run' = run /\ pc = "batch" /\ pc' # "idle" /\ breaks' = breaks
    BY <1>10 DEF PrepareBatch, NextSkill, Goto, collected
  <2>3. QED
    BY <1>c, <1>d, <2>1, <2>2 DEF WorkspaceCurrent, HistoryCurrent, OfThisRun, Names
<1>11. CASE RestoreBatched
  <2>1. MergedTrace \in {ws["surface"], Absent, Driver(0)}
    BY DEF MergedTrace
  <2>2. \A n \in Names : ws'[n] \in {ws[n], Absent, breaks, Driver(0)}
    BY <1>c, <1>11, <2>1 DEF RestoreBatched, Names
  <2>3. run' = run /\ pc = "restore" /\ pc' # "idle" /\ breaks' = breaks
    BY <1>11 DEF RestoreBatched, GotoPhase, Goto, collected
  <2>4. QED
    BY <1>c, <1>d, <2>2, <2>3 DEF WorkspaceCurrent, HistoryCurrent, OfThisRun, Names
<1>12. CASE BackendExit \/ BeginReplace \/ RemoveStep \/ RemoveDone
  BY <1>12, InputsInvKept DEF BackendExit, BeginReplace, RemoveStep, RemoveDone, GotoPhase, Goto,
     control, collected
<1>13. CASE OpenFile \/ CloseFile \/ WriteDone \/ VerifyRanNothing \/ OpenMeta
  BY <1>13, InputsInvKept DEF OpenFile, CloseFile, WriteDone, VerifyRanNothing, OpenMeta, GotoPhase,
     Goto, collected
<1>14. CASE VerifyRan
  <2>1. \A n \in Names : ws'[n] \in {ws[n], Driver(0)}
    BY <1>c, <1>14 DEF VerifyRan
  <2>2. run' = run /\ pc = "verify" /\ pc' # "idle" /\ breaks' = breaks
    BY <1>14 DEF VerifyRan, NextSkill, Goto, collected
  <2>3. QED
    BY <1>c, <1>d, <2>1, <2>2 DEF WorkspaceCurrent, HistoryCurrent, OfThisRun, Names
<1>15. QED
  BY <1>1, <1>2, <1>3, <1>4, <1>5, <1>6, <1>7, <1>8, <1>9, <1>10, <1>11, <1>12, <1>13, <1>14
     DEF Next, Program, Finished

(* No artifact of an earlier run reaches a backend, however that run ended *)
(* and whatever the batches of this one do to the workspace.               *)
THEOREM InputsAlwaysCurrent == Spec => []RunInputsCurrent
<1>1. Init => InputsInv
  BY InitType DEF Init, InputsInv, WorkspaceCurrent, HistoryCurrent
<1>2. InputsInv => RunInputsCurrent
  BY DEF InputsInv, WorkspaceCurrent, OfThisRun, RunInputsCurrent
<1>3. QED
  BY <1>1, <1>2, InputsStep, PTL DEF Spec

-----------------------------------------------------------------------------
InSkill == pc \in {"skill", "running", "exited"}

(* All generate steps lie behind the run.                                  *)
Generated ==
  \/ Publishing
  \/ pc \in {"restore", "replace", "remove"}

(* The batches are generated in order, none twice and none left out; work  *)
(* that belongs to no batch carries the number 0.                          *)
BatchPosition ==
  /\ ~Generated => done = 1 .. (batch - 1)
  /\ Generated => done = Batches
  /\ pc = "batch" => Batched
  /\ pc = "batch" \/ (InSkill /\ Batched /\ skill \in {"usage", "generate"}) =>
       batch \in 1 .. nBatches
  /\ pc \in {"idle", "prepare", "context"} \/ (InSkill /\ (~Batched \/ skill = "history")) =>
       batch = 0

(* The files in memory come from the batches generated so far, no two      *)
(* under one name.                                                         *)
GenNamed ==
  /\ \A f \in gen : f.batch \in done /\ f.dir = IF nBatches > 1 THEN f.batch ELSE 0
  /\ \A f, g \in gen : f.dir = g.dir /\ f.path = g.path => f = g

(* A file is on disk or still to be written, and nothing else is there.    *)
Written ==
  Publishing =>
    /\ gen = files \cup todo
    /\ pc \notin {"write", "rename"} => todo = {}

(* What meta.json must say of a set of files and a set of recovered steps. *)
Flagged(fs, steps) ==
  \A f \in fs : f.outcome # "fatal" /\ (f.outcome = "recovered" => <<"generate", f.batch>> \in steps)

EachContributed(fs, steps) ==
  \A s \in steps : s[1] = "generate" => \E f \in fs : f.batch = s[2]

GenAccounted == Flagged(gen, recovered) /\ EachContributed(gen, recovered)

(* The suite on disk, whichever run left it.                               *)
SuiteDescribed ==
  /\ meta # NoMeta => files \subseteq meta.files
  /\ RecoveryFlagged /\ RecoveredNotEmpty /\ SuccessMeansPublished

RunStarted == pc # "idle" => run > 0

ResultInv == SuiteInv /\ BatchPosition /\ GenNamed /\ Written /\ GenAccounted /\ SuiteDescribed /\ RunStarted
-----------------------------------------------------------------------------
(***************************************************************************)
(* The position of a run among its batches.                                *)
(***************************************************************************)
LEMMA BatchedType == TypeOK => nBatches \in Nat /\ batch \in Nat /\ (Batched <=> nBatches # 0)
  BY BatchBound DEF Batched

LEMMA PositionAtEnd == ASSUME NEW r, End(r) PROVE BatchPosition'
<1>1. pc' = "idle" /\ done' = {} /\ batch' = 0
  BY DEF End, Forget
<1>2. ~Generated' /\ ~InSkill' /\ 1 .. (batch' - 1) = {}
  BY <1>1 DEF Generated, Publishing, InSkill
<1>3. QED
  BY <1>1, <1>2 DEF BatchPosition

LEMMA PositionAfterOptional ==
  ASSUME TypeInv, BatchPosition, pc \in {"skill", "exited"}, AfterOptional, done' = done
  PROVE  BatchPosition'
<1>1. done = 1 .. (batch - 1) /\ nBatches' = nBatches
  BY DEF BatchPosition, Generated, Publishing, AfterOptional, NextSkill, GotoBatch, Goto
<1>2. ~Generated'
  BY DEF AfterOptional, NextSkill, GotoBatch, Goto, Generated, Publishing
<1>3. CASE skill = "usage" /\ ~Batched /\ NextSkill("history", 0)
  BY <1>1, <1>2, <1>3 DEF NextSkill, Goto, BatchPosition, InSkill, Batched
<1>4. CASE skill = "usage" /\ Batched /\ NextSkill("generate", batch)
  BY <1>1, <1>2, <1>4 DEF NextSkill, Goto, BatchPosition, InSkill, Batched
<1>5. CASE skill = "history" /\ ~Batched /\ NextSkill("generate", 0)
  BY <1>1, <1>2, <1>5 DEF NextSkill, Goto, BatchPosition, InSkill, Batched
<1>6. CASE skill = "history" /\ Batched /\ GotoBatch(1)
  <2>1. batch = 0 /\ batch' = 1 /\ pc' = "batch"
    BY <1>6 DEF BatchPosition, InSkill, GotoBatch, Goto
  <2>2. 1 .. (batch - 1) = {} /\ 1 .. (batch' - 1) = {} /\ 1 \in 1 .. nBatches
    BY <1>6, <2>1, BatchBound DEF TypeInv, Batched
  <2>3. QED
    BY <1>1, <1>2, <1>6, <2>1, <2>2 DEF BatchPosition, InSkill, Batched
<1>7. QED
  BY <1>3, <1>4, <1>5, <1>6 DEF AfterOptional

(* Where a generate step stands: everything before its batch is done.      *)
LEMMA GeneratePosition ==
  ASSUME TypeInv, BatchPosition, InSkill, skill = "generate"
  PROVE  /\ done = 1 .. (batch - 1) /\ batch \notin done
         /\ IF Batched THEN batch \in 1 .. nBatches ELSE batch = 0
<1>1. batch \in Nat
  BY BatchBound DEF TypeInv
<1>2. QED
  BY <1>1 DEF BatchPosition, InSkill, Generated, Publishing

LEMMA PositionAfterGenerate ==
  ASSUME TypeInv, BatchPosition, InSkill, skill = "generate", AfterGenerate,
         done' = done \cup {batch}
  PROVE  BatchPosition'
<1>1. nBatches' = nBatches /\ nBatches \in Nat /\ batch \in Nat
  BY BatchBound DEF TypeInv, AfterGenerate, GotoBatch, GotoPhase, Goto
<1>2. CASE ~Batched
  <2>1. pc' = "replace" /\ done' = {0}
    BY <1>2, GeneratePosition DEF AfterGenerate, GotoPhase, Goto
  <2>2. Generated' /\ done' = Batches'
    BY <1>1, <1>2, <2>1 DEF Generated, Batches, Batched
  <2>3. QED
    BY <2>1, <2>2 DEF BatchPosition, InSkill
<1>3. CASE Batched /\ batch < nBatches
  <2>1. pc' = "batch" /\ batch' = batch + 1
    BY <1>3 DEF AfterGenerate, GotoBatch, Goto
  <2>2. ~Generated' /\ ~InSkill' /\ Batched' /\ batch' \in 1 .. nBatches'
    BY <1>1, <1>3, <2>1 DEF Generated, Publishing, InSkill, Batched
  <2>3. done' = 1 .. (batch' - 1)
    BY <1>1, <1>3, <2>1, GeneratePosition
  <2>4. QED
    BY <2>1, <2>2, <2>3 DEF BatchPosition
<1>4. CASE Batched /\ ~(batch < nBatches)
  <2>1. pc' = "restore"
    BY <1>4 DEF AfterGenerate, GotoPhase, Goto
  <2>2. done' = 1 .. nBatches
    BY <1>1, <1>4, GeneratePosition
  <2>3. Generated' /\ done' = Batches'
    BY <1>1, <1>4, <2>1, <2>2 DEF Generated, Batches, Batched
  <2>4. QED
    BY <2>1, <2>3 DEF BatchPosition, InSkill
<1>5. QED
  BY <1>2, <1>3, <1>4

(* Steps that only move the run on among the phases of one side.           *)
LEMMA PositionOnward ==
  ASSUME BatchPosition, Generated, Generated', UNCHANGED <<nBatches, done>>, ~(pc' = "batch"),
         InSkill' => skill' = "validate" /\ batch' = 0
  PROVE  BatchPosition'
  BY DEF BatchPosition, Batches, Batched, Generated, Publishing, InSkill

LEMMA PositionStepFailed ==
  ASSUME TypeInv, BatchPosition, pc \in {"skill", "exited"}, StepFailed
  PROVE  BatchPosition'
<1>1. CASE skill = "validate" /\ GotoPhase("meta") /\ UNCHANGED collected
  BY <1>1, PositionOnward DEF GotoPhase, Goto, collected, Generated, Publishing, InSkill
<1>2. QED
  BY <1>1, PositionAtEnd, PositionAfterOptional DEF StepFailed, collected

LEMMA PositionStepAccepted ==
  ASSUME TypeInv, BatchPosition, pc = "exited", NEW a, StepAccepted(a)
  PROVE  BatchPosition'
<1>1. CASE TraceAccepted(a) \/ HistoryAccepted(a)
  BY <1>1, PositionAfterOptional DEF TraceAccepted, HistoryAccepted
<1>2. CASE GenerateAccepted(a)
  BY <1>2, PositionAtEnd, PositionAfterGenerate DEF GenerateAccepted, InSkill
<1>3. CASE ValidateAccepted(a)
  BY <1>3, PositionOnward DEF ValidateAccepted, GotoPhase, Goto, Generated, Publishing, InSkill
<1>4. QED
  BY <1>1, <1>2, <1>3, PositionAtEnd DEF StepAccepted, RecordFails

LEMMA PositionStep == TypeInv /\ BatchPosition /\ [Next]_vars => BatchPosition'
<1> SUFFICES ASSUME TypeInv, BatchPosition, [Next]_vars PROVE BatchPosition'
  OBVIOUS
<1>1. CASE Start
  <2>1. done' = {} /\ batch' = 0 /\ pc' = "prepare"
    BY <1>1 DEF Start, TypeInv, IdleClean, invocation, collected
  <2>2. ~Generated' /\ ~InSkill' /\ 1 .. (batch' - 1) = {}
    BY <2>1 DEF Generated, Publishing, InSkill
  <2>3. QED
    BY <2>1, <2>2 DEF BatchPosition
<1>2. CASE Crash \/ StageFails \/ RefuseReplace \/ IOFails \/ WriteFails \/ CloseMeta
  BY <1>2, PositionAtEnd DEF Crash, StageFails, RefuseReplace, IOFails, WriteFails, CloseMeta
<1>3. CASE Cancel \/ BackendWrite \/ UNCHANGED vars
  BY <1>3 DEF Cancel, BackendWrite, vars, control, invocation, collected, BatchPosition, Generated,
     Publishing, InSkill, Batched, Batches
<1>4. CASE PrepareWorkspace
  BY <1>4 DEF PrepareWorkspace, Goto, invocation, collected, BatchPosition, Generated, Publishing,
     InSkill
<1>5. CASE StageContext
  <2>1. pc' = "skill" /\ batch' = 0 /\ done' = done /\ nBatches' = nBatches /\ batch = 0
    BY <1>5 DEF StageContext, NextSkill, Goto, collected, BatchPosition
  <2>2. ~Generated /\ ~Generated' /\ (Batched' <=> Batched)
    BY <1>5, <2>1 DEF StageContext, NextSkill, Generated, Publishing, Batched
  <2>3. skill' = IF Batched THEN "history" ELSE "usage"
    BY <1>5 DEF StageContext, NextSkill
  <2>4. QED
    BY <2>1, <2>2, <2>3 DEF BatchPosition, InSkill
<1>6. CASE SkillUnavailable
  BY <1>6, PositionStepFailed DEF SkillUnavailable
<1>7. CASE Launch \/ BackendExit
  BY <1>7 DEF Launch, BackendExit, Goto, collected, BatchPosition, Generated, Publishing, InSkill,
     Batched, Batches
<1>8. CASE Finish
  BY <1>8, PositionStepFailed, PositionStepAccepted DEF Finish
<1>9. CASE PrepareBatch
  BY <1>9 DEF PrepareBatch, NextSkill, Goto, collected, BatchPosition, Generated, Publishing,
     InSkill, Batched
<1>10. CASE RestoreBatched \/ BeginReplace \/ RemoveStep \/ RemoveDone
  BY <1>10, PositionOnward DEF RestoreBatched, BeginReplace, RemoveStep, RemoveDone, GotoPhase, Goto,
     control, collected, Generated, Publishing, InSkill
<1>11. CASE OpenFile \/ CloseFile \/ WriteDone \/ VerifyRan \/ VerifyRanNothing \/ OpenMeta
  BY <1>11, PositionOnward DEF OpenFile, CloseFile, WriteDone, VerifyRan, VerifyRanNothing, OpenMeta,
     NextSkill, GotoPhase, Goto, collected, Generated, Publishing, InSkill
<1>12. QED
  BY <1>1, <1>2, <1>3, <1>4, <1>5, <1>6, <1>7, <1>8, <1>9, <1>10, <1>11 DEF Next, Program, Finished
-----------------------------------------------------------------------------
(***************************************************************************)
(* The files and the recovered steps held in memory.                       *)
(***************************************************************************)
LEMMA MemoryAtEnd == ASSUME NEW r, End(r) PROVE GenNamed' /\ GenAccounted'
  BY DEF End, Forget, GenNamed, GenAccounted, Flagged, EachContributed

LEMMA MemoryKept ==
  ASSUME GenNamed, GenAccounted, UNCHANGED <<gen, nBatches, done, recovered>>
  PROVE  GenNamed' /\ GenAccounted'
  BY DEF GenNamed, GenAccounted, Flagged, EachContributed

LEMMA MemoryNoted ==
  ASSUME GenNamed, GenAccounted, UNCHANGED <<gen, nBatches, done>>, skill # "generate",
         recovered' \in {recovered, Noted}
  PROVE  GenNamed' /\ GenAccounted'
<1>1. recovered \subseteq recovered' /\ \A s \in recovered' : s \in recovered \/ s[1] = skill
  BY DEF Noted
<1>2. QED
  BY <1>1 DEF GenNamed, GenAccounted, Flagged, EachContributed

LEMMA GeneratedFilesFacts ==
  ASSUME NEW a
  PROVE  /\ \A f \in GeneratedFiles(a) :
              /\ f.batch = batch /\ f.dir = IF nBatches > 1 THEN batch ELSE 0
              /\ f.outcome = Outcome(exit, cancelled)
         /\ \A f, g \in GeneratedFiles(a) : f.path = g.path => f = g
         /\ a.files # {} => GeneratedFiles(a) # {}
<1> DEFINE File(p) == [dir |-> IF nBatches > 1 THEN batch ELSE 0, path |-> p, run |-> run,
                       batch |-> batch, outcome |-> Outcome(exit, cancelled)]
<1>1. GeneratedFiles(a) = {File(p) : p \in a.files}
  BY DEF GeneratedFiles
<1>2. \A p : /\ File(p).path = p /\ File(p).batch = batch
             /\ File(p).dir = IF nBatches > 1 THEN batch ELSE 0
             /\ File(p).outcome = Outcome(exit, cancelled)
  OBVIOUS
<1> HIDE DEF File
<1>3. QED
  BY <1>1, <1>2

LEMMA MemoryGenerateAccepted ==
  ASSUME TypeInv, BatchPosition, GenNamed, GenAccounted, pc = "exited", skill = "generate",
         NEW a, FinishRun(skill, a, exit, cancelled), nBatches' = nBatches,
         gen' = gen \cup GeneratedFiles(a), done' = done \cup {batch}, recovered' = Noted
  PROVE  GenNamed' /\ GenAccounted'
<1>1. nBatches \in Nat /\ batch \in Nat /\ done = 1 .. (batch - 1) /\ batch \notin done
      /\ IF Batched THEN batch \in 1 .. nBatches ELSE batch = 0
  BY BatchBound, GeneratePosition DEF TypeInv, InSkill
<1>2. GenNamed'
  <2>1. \A f \in gen' : f.batch \in done' /\ f.dir = IF nBatches' > 1 THEN f.batch ELSE 0
    BY GeneratedFilesFacts DEF GenNamed
  <2>2. ASSUME NEW f \in gen, NEW g \in GeneratedFiles(a), f.dir = g.dir PROVE FALSE
    <3>1. f.batch \in 1 .. (batch - 1) /\ g.batch = batch
      BY <1>1, GeneratedFilesFacts DEF GenNamed
    <3>2. nBatches > 1
      BY <1>1, <3>1 DEF Batched
    <3>3. f.dir = f.batch /\ g.dir = batch
      BY <3>2, GeneratedFilesFacts DEF GenNamed
    <3>4. QED
      BY <1>1, <2>2, <3>1, <3>3
  <2>3. \A f, g \in gen' : f.dir = g.dir /\ f.path = g.path => f = g
    BY <2>2, GeneratedFilesFacts DEF GenNamed
  <2>4. QED
    BY <2>1, <2>3 DEF GenNamed
<1>3. Flagged(gen', recovered')
  <2>1. \A f \in GeneratedFiles(a) :
          f.outcome # "fatal" /\ (f.outcome = "recovered" => exit # "ok" /\ f.batch = batch)
    BY GeneratedFilesFacts DEF FinishRun, Outcome
  <2>2. exit # "ok" => <<"generate", batch>> \in recovered'
    BY DEF Noted
  <2>3. recovered \subseteq recovered'
    BY DEF Noted
  <2>4. QED
    BY <2>1, <2>2, <2>3 DEF GenAccounted, Flagged
<1>4. EachContributed(gen', recovered')
  <2>1. ASSUME exit # "ok" PROVE \E f \in gen' : f.batch = batch
    <3>1. a.files # {}
      BY <2>1 DEF FinishRun, ValidateRecoveredOutput
    <3>2. QED
      BY <3>1, GeneratedFilesFacts
  <2>2. \A s \in recovered' : s \in recovered \/ (exit # "ok" /\ s = <<"generate", batch>>)
    BY DEF Noted
  <2>3. QED
    BY <2>1, <2>2 DEF GenAccounted, EachContributed
<1>5. QED
  BY <1>2, <1>3, <1>4 DEF GenAccounted

LEMMA MemoryStepFailed ==
  ASSUME GenNamed, GenAccounted, StepFailed PROVE GenNamed' /\ GenAccounted'
<1>1. CASE \E r : End(r)
  BY <1>1, MemoryAtEnd
<1>2. CASE ~(\E r : End(r))
  BY <1>2, MemoryKept DEF StepFailed, AfterOptional, NextSkill, GotoBatch, GotoPhase, Goto, collected
<1>3. QED
  BY <1>1, <1>2

LEMMA MemoryStepAccepted ==
  ASSUME TypeInv, BatchPosition, GenNamed, GenAccounted, pc = "exited",
         NEW a, FinishRun(skill, a, exit, cancelled), StepAccepted(a)
  PROVE  GenNamed' /\ GenAccounted'
<1>1. CASE \E r : End(r)
  BY <1>1, MemoryAtEnd
<1>2. CASE TraceAccepted(a) \/ HistoryAccepted(a)
  BY <1>2, MemoryNoted DEF TraceAccepted, HistoryAccepted, AfterOptional, NextSkill, GotoBatch, Goto
<1>3. CASE GenerateAccepted(a) /\ ~(\E r : End(r))
  BY <1>3, MemoryGenerateAccepted DEF GenerateAccepted, AfterGenerate, GotoBatch, GotoPhase, Goto
<1>4. CASE ValidateAccepted(a)
  BY <1>4, MemoryNoted DEF ValidateAccepted, GotoPhase, Goto
<1>5. QED
  BY <1>1, <1>2, <1>3, <1>4 DEF StepAccepted, RecordFails

MemoryInv == TypeInv /\ BatchPosition /\ GenNamed /\ GenAccounted

LEMMA MemoryStep == MemoryInv /\ [Next]_vars => GenNamed' /\ GenAccounted'
<1> SUFFICES ASSUME MemoryInv, [Next]_vars PROVE GenNamed' /\ GenAccounted'
  OBVIOUS
<1> USE DEF MemoryInv
<1>1. CASE Start
  BY <1>1 DEF Start, TypeInv, IdleClean, collected, GenNamed, GenAccounted, Flagged, EachContributed
<1>2. CASE Crash \/ StageFails \/ RefuseReplace \/ IOFails \/ WriteFails \/ CloseMeta
  BY <1>2, MemoryAtEnd DEF Crash, StageFails, RefuseReplace, IOFails, WriteFails, CloseMeta
<1>3. CASE Cancel \/ BackendWrite \/ UNCHANGED vars
  BY <1>3, MemoryKept DEF Cancel, BackendWrite, vars, control, collected
<1>4. CASE PrepareWorkspace \/ StageContext \/ Launch \/ BackendExit \/ PrepareBatch
  BY <1>4, MemoryKept DEF PrepareWorkspace, StageContext, Launch, BackendExit, PrepareBatch,
     NextSkill, Goto, collected
<1>5. CASE SkillUnavailable
  BY <1>5, MemoryStepFailed DEF SkillUnavailable
<1>6. CASE Finish
  BY <1>6, MemoryStepFailed, MemoryStepAccepted DEF Finish
<1>7. CASE RestoreBatched \/ BeginReplace \/ RemoveStep \/ RemoveDone
  BY <1>7, MemoryKept DEF RestoreBatched, BeginReplace, RemoveStep, RemoveDone, GotoPhase, Goto,
     control, collected
<1>8. CASE OpenFile \/ CloseFile \/ WriteDone \/ VerifyRan \/ VerifyRanNothing \/ OpenMeta
  BY <1>8, MemoryKept DEF OpenFile, CloseFile, WriteDone, VerifyRan, VerifyRanNothing, OpenMeta,
     NextSkill, GotoPhase, Goto, collected
<1>9. QED
  BY <1>1, <1>2, <1>3, <1>4, <1>5, <1>6, <1>7, <1>8 DEF Next, Program, Finished
-----------------------------------------------------------------------------
(***************************************************************************)
(* The suite on disk.                                                      *)
(***************************************************************************)
LEMMA StartedStep == RunStarted /\ TypeOK /\ [Next]_vars => RunStarted'
<1> SUFFICES ASSUME RunStarted, TypeOK, [Next]_vars PROVE RunStarted'
  OBVIOUS
<1>1. CASE Start
  BY <1>1 DEF Start, RunStarted, TypeOK
<1>2. CASE ~Start
  <2>1. run' = run /\ (pc' # "idle" => pc # "idle")
    <3>1. CASE Cancel \/ Crash \/ BackendWrite \/ UNCHANGED vars
      BY <3>1 DEF Cancel, Crash, BackendWrite, End, vars, control
    <3>2. CASE Finish \/ SkillUnavailable
      BY <3>2 DEF Finish, SkillUnavailable, StepFailed, StepAccepted, RecordFails, TraceAccepted,
         HistoryAccepted, GenerateAccepted, ValidateAccepted, AfterOptional, AfterGenerate,
         NextSkill, GotoBatch, GotoPhase, Goto, End
    <3>3. CASE Program /\ ~Finish /\ ~SkillUnavailable
      BY <3>3 DEF Program, PrepareWorkspace, StageContext, StageFails, Launch, BackendExit,
         PrepareBatch, RestoreBatched, RefuseReplace, BeginReplace, RemoveStep, RemoveDone,
         OpenFile, CloseFile, WriteDone, VerifyRan, VerifyRanNothing, OpenMeta, CloseMeta, IOFails,
         WriteFails, NextSkill, GotoPhase, Goto, End, control
    <3>4. QED
      BY <1>2, <3>1, <3>2, <3>3 DEF Next, Finished
  <2>2. QED
    BY <2>1 DEF RunStarted
<1>3. QED
  BY <1>1, <1>2

LEMMA DiskAtEnd ==
  ASSUME Written, SuiteDescribed, NEW r \in {"error", "crash"}, End(r), UNCHANGED <<files, meta>>
  PROVE  Written' /\ SuiteDescribed'
  BY DEF End, Written, Publishing, SuiteDescribed, RecoveryFlagged, RecoveredNotEmpty,
         SuccessMeansPublished

(* Most steps leave the suite alone.                                       *)
LEMMA DiskKept ==
  ASSUME Written, SuiteDescribed, UNCHANGED suite, pc' # "idle",
         Publishing' => /\ Publishing /\ UNCHANGED <<gen, todo>>
                        /\ pc \in {"write", "rename"} => pc' \in {"write", "rename"} \/ todo = {}
  PROVE  Written' /\ SuiteDescribed'
  BY DEF Written, SuiteDescribed, RecoveryFlagged, RecoveredNotEmpty, SuccessMeansPublished, suite

LEMMA DiskStepFailed ==
  ASSUME Written, SuiteDescribed, pc \in {"skill", "exited"}, StepFailed, UNCHANGED suite
  PROVE  Written' /\ SuiteDescribed'
<1>1. CASE End("error")
  BY <1>1, DiskAtEnd DEF suite
<1>2. CASE AfterOptional
  BY <1>2, DiskKept, AfterOptionalNotPublishing DEF AfterOptional, NextSkill, GotoBatch, Goto
<1>3. CASE skill = "validate" /\ GotoPhase("meta") /\ UNCHANGED collected
  BY <1>3, DiskKept DEF GotoPhase, Goto, Publishing, collected
<1>4. QED
  BY <1>1, <1>2, <1>3 DEF StepFailed

LEMMA DiskStepAccepted ==
  ASSUME Written, SuiteDescribed, pc = "exited", NEW a, StepAccepted(a), UNCHANGED suite
  PROVE  Written' /\ SuiteDescribed'
<1>1. CASE End("error")
  BY <1>1, DiskAtEnd DEF suite
<1>2. CASE AfterOptional
  BY <1>2, DiskKept, AfterOptionalNotPublishing DEF AfterOptional, NextSkill, GotoBatch, Goto
<1>3. CASE AfterGenerate
  BY <1>3, DiskKept, AfterGenerateNotPublishing DEF AfterGenerate, GotoBatch, GotoPhase, Goto
<1>4. CASE ValidateAccepted(a)
  BY <1>4, DiskKept DEF ValidateAccepted, GotoPhase, Goto, Publishing
<1>5. QED
  BY <1>1, <1>2, <1>3, <1>4 DEF StepAccepted, RecordFails, TraceAccepted, HistoryAccepted,
     GenerateAccepted

LEMMA ResultInvFacts ==
  ResultInv => /\ TypeInv /\ TypeOK /\ SuiteInv /\ PublishingClean /\ SuiteUnmixed
               /\ BatchPosition /\ GenNamed /\ GenAccounted /\ Written /\ SuiteDescribed
               /\ RunStarted
  BY DEF ResultInv, SuiteInv, TypeInv

(* Once meta.json is renamed into place it describes what is on disk.      *)
LEMMA DiskCloseMeta ==
  ASSUME ResultInv, CloseMeta
  PROVE  /\ Written' /\ SuiteDescribed'
         /\ meta = NoMeta /\ meta' # NoMeta /\ meta'.run = run /\ meta'.files = files'
         /\ temp' = {} /\ UNCHANGED run /\ done = Batches /\ done' = {} /\ nBatches' = nBatches
<1>1. /\ pc = "renameMeta" /\ pc' = "idle" /\ UNCHANGED <<run, nBatches, files>> /\ done' = {}
      /\ meta' = [run |-> run, batches |-> done, recovered |-> recovered, files |-> gen]
      /\ temp' = temp \ {run}
  BY DEF CloseMeta, RenameMeta, End, Forget
<1>2. Publishing /\ Generated
  BY <1>1 DEF Publishing, Generated
<1>3. gen = files /\ temp \subseteq {run} /\ meta = NoMeta
  BY <1>1, <1>2, ResultInvFacts DEF Written, PublishingClean
<1>4. done = Batches /\ run > 0
  BY <1>1, <1>2, ResultInvFacts DEF BatchPosition, RunStarted
<1>5. meta'.run = run /\ meta'.files = files' /\ temp' = {} /\ meta' # NoMeta
  BY <1>1, <1>3, <1>4 DEF NoMeta
<1>6. RecoveryFlagged' /\ RecoveredNotEmpty'
  BY <1>1, <1>3, ResultInvFacts DEF GenAccounted, Flagged, EachContributed, RecoveryFlagged,
     RecoveredNotEmpty
<1>7. SuccessMeansPublished'
  BY <1>1, <1>4, <1>5 DEF SuccessMeansPublished, Batches, Batched
<1>8. ~Publishing'
  BY <1>1 DEF Publishing
<1>9. QED
  BY <1>1, <1>3, <1>4, <1>5, <1>6, <1>7, <1>8 DEF Written, SuiteDescribed

(* A rename replaces no other file of the run: names are distinct.         *)
LEMMA DiskCloseFile == ASSUME ResultInv, CloseFile PROVE Written' /\ SuiteDescribed'
<1>1. PICK f \in todo : RenameFile(run, f) /\ todo' = todo \ {f}
  BY DEF CloseFile
<1>2. Publishing /\ gen = files \cup todo /\ meta = NoMeta /\ meta' = NoMeta /\ gen' = gen
  BY <1>1, ResultInvFacts DEF CloseFile, RenameFile, Publishing, Written, PublishingClean
<1>3. files' = files \cup {f}
  <2>1. files' = {g \in files : g.dir # f.dir \/ g.path # f.path} \cup {f}
    BY <1>1 DEF RenameFile
  <2>2. \A g \in files : g.dir = f.dir /\ g.path = f.path => g = f
    BY <1>2, ResultInvFacts DEF GenNamed
  <2>3. QED
    BY <2>1, <2>2
<1>4. Written'
  BY <1>1, <1>2, <1>3 DEF CloseFile, GotoPhase, Goto, Written
<1>5. f.outcome # "fatal"
  BY <1>2, ResultInvFacts DEF GenAccounted, Flagged
<1>6. SuiteDescribed'
  BY <1>2, <1>3, <1>5, ResultInvFacts DEF CloseFile, GotoPhase, Goto, SuiteDescribed,
     RecoveryFlagged, RecoveredNotEmpty, SuccessMeansPublished
<1>7. QED
  BY <1>4, <1>6

LEMMA DiskRemoveStep == ASSUME ResultInv, RemoveStep PROVE Written' /\ SuiteDescribed'
<1>1. pc = "remove" /\ pc' = "remove" /\ ~Publishing'
  BY DEF RemoveStep, control, Publishing
<1>2. files' \subseteq files /\ meta' \in {meta, NoMeta}
  BY DEF RemoveStep, RemoveEntry
<1>3. RecoveryFlagged' /\ RecoveredNotEmpty'
  BY <1>2, ResultInvFacts DEF SuiteDescribed, RecoveryFlagged, RecoveredNotEmpty, NoMeta
<1>4. QED
  BY <1>1, <1>2, <1>3, ResultInvFacts DEF Written, SuiteDescribed, SuccessMeansPublished

LEMMA DiskStep == ResultInv /\ [Next]_vars => Written' /\ SuiteDescribed'
<1> SUFFICES ASSUME ResultInv, [Next]_vars PROVE Written' /\ SuiteDescribed'
  OBVIOUS
<1>a. Written /\ SuiteDescribed /\ PublishingClean
  BY ResultInvFacts
<1>1. CASE Start
  BY <1>a, <1>1, DiskKept DEF Start, Publishing
<1>2. CASE Crash \/ StageFails \/ RefuseReplace \/ IOFails
  BY <1>a, <1>2, DiskAtEnd DEF Crash, StageFails, RefuseReplace, IOFails, suite
<1>3. CASE Cancel \/ BackendWrite
  BY <1>a, <1>3, DiskKept DEF Cancel, BackendWrite, control, invocation, collected, Publishing
<1>4. CASE UNCHANGED vars
  BY <1>a, <1>4 DEF vars, control, invocation, collected, suite, Written, Publishing,
     SuiteDescribed, RecoveryFlagged, RecoveredNotEmpty, SuccessMeansPublished, Batches, Batched
<1>5. CASE PrepareWorkspace \/ StageContext \/ Launch \/ BackendExit \/ PrepareBatch
  BY <1>a, <1>5, DiskKept DEF PrepareWorkspace, StageContext, Launch, BackendExit, PrepareBatch,
     NextSkill, Goto, collected, Publishing
<1>6. CASE SkillUnavailable
  BY <1>a, <1>6, DiskStepFailed DEF SkillUnavailable
<1>7. CASE Finish
  BY <1>a, <1>7, DiskStepFailed, DiskStepAccepted DEF Finish
<1>8. CASE RestoreBatched \/ BeginReplace
  BY <1>a, <1>8, DiskKept DEF RestoreBatched, BeginReplace, GotoPhase, Goto, Publishing, invocation
<1>9. CASE RemoveStep
  BY <1>9, DiskRemoveStep
<1>10. CASE RemoveDone
  <2>1. pc' = "write" /\ files' = {} /\ meta' = NoMeta /\ gen' = gen /\ todo' = gen
    BY <1>10 DEF RemoveDone, GotoPhase, Goto, SuiteEmpty, suite
  <2>2. QED
    BY <2>1 DEF Written, SuiteDescribed, RecoveryFlagged, RecoveredNotEmpty, SuccessMeansPublished,
       NoMeta
<1>11. CASE OpenFile \/ OpenMeta
  <2>1. Publishing /\ Publishing' /\ UNCHANGED <<files, meta, gen, todo>> /\ pc' # "idle"
    BY <1>11 DEF OpenFile, OpenMeta, OpenTemp, GotoPhase, Goto, Publishing, collected
  <2>2. pc' \notin {"write", "rename"} => todo = {}
    BY <1>a, <1>11, <2>1 DEF OpenFile, OpenMeta, GotoPhase, Goto, Written
  <2>3. QED
    BY <1>a, <2>1, <2>2 DEF Written, SuiteDescribed, RecoveryFlagged, RecoveredNotEmpty,
       SuccessMeansPublished
<1>12. CASE CloseFile
  BY <1>12, DiskCloseFile
<1>13. CASE WriteDone \/ VerifyRan \/ VerifyRanNothing
  BY <1>a, <1>13, DiskKept DEF WriteDone, VerifyRan, VerifyRanNothing, NextSkill, GotoPhase, Goto,
     collected, Publishing
<1>14. CASE CloseMeta
  BY <1>14, DiskCloseMeta
<1>15. CASE WriteFails
  BY <1>a, <1>15, DiskAtEnd DEF WriteFails, DropTemp
<1>16. QED
  BY <1>1, <1>2, <1>3, <1>4, <1>5, <1>6, <1>7, <1>8, <1>9, <1>10, <1>11, <1>12, <1>13, <1>14, <1>15
     DEF Next, Program, Finished

LEMMA ResultInit == Init => ResultInv
<1> SUFFICES ASSUME Init PROVE ResultInv
  OBVIOUS
<1>1. SuiteInv
  BY InitType DEF Init, SuiteInit, SuiteInv, OwnFiles, PublishingClean, Publishing, SuiteUnmixed
<1>2. ~Generated /\ ~Publishing /\ ~InSkill
  BY DEF Init, Generated, Publishing, InSkill
<1>3. BatchPosition
  BY <1>2 DEF Init, BatchPosition
<1>4. GenNamed /\ GenAccounted /\ Written /\ RunStarted
  BY <1>2 DEF Init, GenNamed, GenAccounted, Flagged, EachContributed, Written, RunStarted
<1>5. SuiteDescribed
  BY DEF Init, SuiteInit, NoMeta, SuiteDescribed, RecoveryFlagged, RecoveredNotEmpty,
     SuccessMeansPublished
<1>6. QED
  BY <1>1, <1>3, <1>4, <1>5 DEF ResultInv

LEMMA ResultStep == ResultInv /\ [Next]_vars => ResultInv'
<1> SUFFICES ASSUME ResultInv, [Next]_vars PROVE ResultInv'
  OBVIOUS
<1>1. SuiteInv' /\ BatchPosition' /\ RunStarted'
  BY ResultInvFacts, SuiteStep, PositionStep, StartedStep
<1>2. GenNamed' /\ GenAccounted' /\ Written' /\ SuiteDescribed'
  BY ResultInvFacts, MemoryStep, DiskStep DEF MemoryInv
<1>3. QED
  BY <1>1, <1>2 DEF ResultInv

(* The inductive invariant of everything below.                            *)
LEMMA ResultAlways == Spec => []ResultInv
  BY ResultInit, ResultStep, PTL DEF Spec

(* Output of a failing backend is flagged in meta.json, and the output of  *)
(* one that was cancelled or lost its account is never in a suite.         *)
THEOREM RecoveryAlwaysFlagged == Spec => []RecoveryFlagged
<1>1. ResultInv => RecoveryFlagged
  BY ResultInvFacts DEF SuiteDescribed
<1>2. QED
  BY ResultAlways, <1>1, PTL

(* A batch is never listed as recovered without a file of it in the suite. *)
THEOREM RecoveredNeverEmpty == Spec => []RecoveredNotEmpty
<1>1. ResultInv => RecoveredNotEmpty
  BY ResultInvFacts DEF SuiteDescribed
<1>2. QED
  BY ResultAlways, <1>1, PTL

(* Exit status 0 means that every batch was generated and every file of it *)
(* is on disk, none overwritten by another, with meta.json beside them.    *)
THEOREM SuccessAlwaysPublished == Spec => []SuccessMeansPublished
<1>1. ResultInv => SuccessMeansPublished
  BY ResultInvFacts DEF SuiteDescribed
<1>2. QED
  BY ResultAlways, <1>1, PTL
-----------------------------------------------------------------------------
(***************************************************************************)
(* Generation implements Publication.  The abstract attempt is ready once  *)
(* every batch is generated; from then on the old suite may go, and only a *)
(* rename of meta.json brings the new one.                                 *)
(***************************************************************************)
Ready == done = Batches

LEMMA ReadyLate ==
  ASSUME TypeInv, BatchPosition PROVE Ready <=> Generated
<1>1. nBatches \in Nat /\ batch \in Nat
  BY BatchBound DEF TypeInv
<1>2. CASE Generated
  BY <1>2 DEF BatchPosition, Ready
<1>3. CASE ~Generated
  <2>1. done = 1 .. (batch - 1) /\ 0 \notin done
    BY <1>1, <1>3 DEF BatchPosition
  <2>2. Batched => nBatches \notin done
    BY <1>1, <2>1 DEF TypeInv, TypeOK
  <2>3. Batched => nBatches \in 1 .. nBatches
    BY <1>1 DEF Batched
  <2>4. done # Batches
    BY <2>1, <2>2, <2>3 DEF Batches
  <2>5. QED
    BY <1>3, <2>4 DEF Ready
<1>4. QED
  BY <1>2, <1>3

(* Without meta.json, or with the suite left alone, Current does not move. *)
LEMMA CurrentKept == ASSUME UNCHANGED suite PROVE Current' = Current
  BY DEF Current, suite

LEMMA CurrentWithoutMeta == meta = NoMeta => Current = 0
  BY DEF Current

LEMMA AtRest ==
  ASSUME Current' = Current, run' = run, Ready' <=> Ready
  PROVE  UNCHANGED P!vars
  BY DEF P!vars, Ready

LEMMA EndSimulated ==
  ASSUME TypeInv, BatchPosition, NEW r, End(r), Current' = Current PROVE [P!Next]_P!vars
<1>1. run' = run /\ TypeInv /\ BatchPosition
  BY DEF End
<1>2. ~Ready'
  BY BatchBound DEF End, Forget, Ready, Batches, Batched, TypeInv
<1>3. CASE Ready
  BY <1>1, <1>2, <1>3 DEF P!GiveUp, P!Next, Ready
<1>4. CASE ~Ready
  BY <1>1, <1>2, <1>4, AtRest
<1>5. QED
  BY <1>3, <1>4

LEMMA StepFailedSimulated ==
  ASSUME ResultInv, pc \in {"skill", "exited"}, StepFailed, UNCHANGED suite
  PROVE  [P!Next]_P!vars
<1>1. CASE End("error")
  BY <1>1, EndSimulated, CurrentKept, ResultInvFacts
<1>2. CASE AfterOptional /\ UNCHANGED collected
  BY <1>2, AtRest, CurrentKept DEF AfterOptional, NextSkill, GotoBatch, Goto, collected, Ready,
     Batches, Batched
<1>3. CASE skill = "validate" /\ GotoPhase("meta") /\ UNCHANGED collected
  BY <1>3, AtRest, CurrentKept DEF GotoPhase, Goto, collected, Ready, Batches, Batched
<1>4. QED
  BY <1>1, <1>2, <1>3 DEF StepFailed

(* The last generate step accepted makes the attempt ready.                *)
LEMMA StepAcceptedSimulated ==
  ASSUME ResultInv, pc = "exited", NEW a, StepAccepted(a), UNCHANGED suite
  PROVE  [P!Next]_P!vars
<1>1. CASE End("error")
  BY <1>1, EndSimulated, CurrentKept, ResultInvFacts
<1>2. CASE TraceAccepted(a) \/ HistoryAccepted(a) \/ ValidateAccepted(a)
  BY <1>2, AtRest, CurrentKept DEF TraceAccepted, HistoryAccepted, ValidateAccepted, AfterOptional,
     NextSkill, GotoBatch, GotoPhase, Goto, Ready, Batches, Batched
<1>3. CASE GenerateAccepted(a) /\ ~End("error")
  <2>1. ~Ready /\ UNCHANGED <<Current, run>>
    <3>1. ~Generated
      BY <1>3 DEF GenerateAccepted, Generated, Publishing
    <3>2. run' = run
      BY <1>3 DEF GenerateAccepted, AfterGenerate, GotoBatch, GotoPhase, Goto
    <3>3. QED
      BY <3>1, <3>2, ReadyLate, CurrentKept, ResultInvFacts
  <2>2. CASE Ready'
    BY <2>1, <2>2 DEF P!Ready, P!Next, Ready
  <2>3. CASE ~Ready'
    BY <2>1, <2>3, AtRest
  <2>4. QED
    BY <2>2, <2>3
<1>4. QED
  BY <1>1, <1>2, <1>3 DEF StepAccepted, RecordFails, GenerateAccepted

(* Removing the first entry of a described suite takes it back; the rest   *)
(* of the removal never turns what is left into a described one.           *)
LEMMA RemoveStepSimulated ==
  ASSUME ResultInv, RemoveStep PROVE [P!Next]_P!vars
<1>1. UNCHANGED <<run, done, nBatches>> /\ (Ready' <=> Ready)
  BY DEF RemoveStep, control, collected, Ready, Batches, Batched
<1>2. Ready
  BY ReadyLate, ResultInvFacts DEF RemoveStep, Generated
<1>3. Current' = Current \/ Current' = 0
  <2>1. CASE \E f \in files : files' = files \ {f} /\ UNCHANGED <<temp, meta>>
    <3>1. meta # NoMeta => files' # meta'.files
      BY <2>1, ResultInvFacts DEF SuiteDescribed
    <3>2. QED
      BY <2>1, <3>1 DEF Current
  <2>2. CASE \E t \in temp : temp' = temp \ {t} /\ UNCHANGED <<files, meta>>
    <3>1. meta = NoMeta /\ meta' = NoMeta
      BY <2>2, ResultInvFacts DEF SuiteUnmixed
    <3>2. QED
      BY <3>1 DEF Current
  <2>3. CASE meta' = NoMeta
    BY <2>3 DEF Current
  <2>4. QED
    BY <2>1, <2>2, <2>3 DEF RemoveStep, RemoveEntry
<1>4. CASE Current' = Current
  BY <1>1, <1>4, AtRest
<1>5. CASE Current' = 0 /\ Current # 0
  BY <1>1, <1>2, <1>5 DEF P!Retract, P!Next, Ready
<1>6. QED
  BY <1>3, <1>4, <1>5

LEMMA CloseMetaSimulated ==
  ASSUME ResultInv, CloseMeta PROVE [P!Next]_P!vars
<1>1. Current = 0 /\ Current' = run
  BY DiskCloseMeta DEF Current
<1>2. Ready /\ run' = run
  BY DiskCloseMeta DEF Ready
<1>3. ~Ready'
  <2>1. nBatches' \in Nat /\ done' = {}
    BY DiskCloseMeta, BatchBound, ResultInvFacts
  <2>2. QED
    BY <2>1 DEF Ready, Batches, Batched
<1>4. QED
  BY <1>1, <1>2, <1>3 DEF P!Publish, P!Next, Ready

LEMMA StartSimulated == ASSUME ResultInv, Start PROVE [P!Next]_P!vars
<1>1. done = {} /\ done' = {}
  BY ResultInvFacts DEF Start, TypeInv, IdleClean, collected
<1>2. nBatches \in Nat /\ nBatches' \in Nat
  <2>1. nBatches' \in BatchCounts
    BY DEF Start
  <2>2. QED
    BY <2>1, BatchBound, ResultInvFacts, GenerationAssumption DEF GenerationAssumption
<1>3. ~Ready /\ ~Ready'
  BY <1>1, <1>2 DEF Ready, Batches, Batched
<1>4. Current' = Current /\ run' = run + 1
  BY CurrentKept DEF Start
<1>5. QED
  BY <1>3, <1>4 DEF P!Begin, P!Next, Ready

(* What a step of a run does to the abstract attempt.                      *)
LEMMA StepSimulated == ResultInv /\ [Next]_vars => [P!Next]_P!vars
<1> SUFFICES ASSUME ResultInv, [Next]_vars PROVE [P!Next]_P!vars
  OBVIOUS
<1>a. ASSUME UNCHANGED <<run, nBatches, done>>, Current' = Current PROVE [P!Next]_P!vars
  BY <1>a, AtRest DEF Ready, Batches, Batched
<1>b. ASSUME NEW r, End(r), UNCHANGED suite PROVE [P!Next]_P!vars
  BY <1>b, EndSimulated, CurrentKept, ResultInvFacts
<1>1. CASE Start
  BY <1>1, StartSimulated
<1>2. CASE Crash \/ StageFails \/ RefuseReplace \/ IOFails
  BY <1>b, <1>2 DEF Crash, StageFails, RefuseReplace, IOFails
<1>3. CASE Cancel \/ BackendWrite \/ UNCHANGED vars
  BY <1>a, <1>3, CurrentKept DEF Cancel, BackendWrite, vars, control, collected
<1>4. CASE PrepareWorkspace \/ StageContext \/ Launch \/ BackendExit \/ PrepareBatch
  BY <1>a, <1>4, CurrentKept DEF PrepareWorkspace, StageContext, Launch, BackendExit,
     PrepareBatch, NextSkill, Goto, collected
<1>5. CASE SkillUnavailable
  BY <1>5, StepFailedSimulated DEF SkillUnavailable
<1>6. CASE Finish
  BY <1>6, StepFailedSimulated, StepAcceptedSimulated DEF Finish
<1>7. CASE RestoreBatched \/ BeginReplace \/ RemoveDone \/ WriteDone \/ VerifyRan \/ VerifyRanNothing
  BY <1>a, <1>7, CurrentKept DEF RestoreBatched, BeginReplace, RemoveDone, WriteDone, VerifyRan,
     VerifyRanNothing, NextSkill, GotoPhase, Goto, collected
<1>8. CASE RemoveStep
  BY <1>8, RemoveStepSimulated
<1>9. CASE OpenFile \/ CloseFile \/ OpenMeta
  <2>1. meta = NoMeta /\ meta' = NoMeta
    BY <1>9, ResultInvFacts DEF OpenFile, CloseFile, OpenMeta, OpenTemp, RenameFile, Publishing,
       PublishingClean
  <2>2. Current' = Current
    BY <2>1 DEF Current
  <2>3. QED
    BY <1>a, <1>9, <2>2 DEF OpenFile, CloseFile, OpenMeta, GotoPhase, Goto, collected
<1>10. CASE CloseMeta
  BY <1>10, CloseMetaSimulated
<1>11. CASE WriteFails
  <2>1. meta = NoMeta /\ meta' = NoMeta
    BY <1>11, ResultInvFacts DEF WriteFails, DropTemp, Publishing, PublishingClean
  <2>2. Current' = Current
    BY <2>1 DEF Current
  <2>3. QED
    BY <1>11, <2>2, EndSimulated, ResultInvFacts DEF WriteFails
<1>12. QED
  BY <1>1, <1>2, <1>3, <1>4, <1>5, <1>6, <1>7, <1>8, <1>9, <1>10, <1>11 DEF Next, Program, Finished

LEMMA InitSimulated == Init => P!Init
<1> SUFFICES ASSUME Init PROVE P!Init
  OBVIOUS
<1>1. Current = 0
  BY DEF Init, SuiteInit, Current
<1>2. done # Batches
  BY DEF Init, Batches, Batched
<1>3. QED
  BY <1>1, <1>2 DEF Init, P!Init

(* The detailed driver, with its batches, skills, crashes and file steps,  *)
(* implements the promise of Publication.tla: a suite is one attempt's     *)
(* complete output or none, and a complete one is only taken back by an    *)
(* attempt that already holds all the tests that replace it.               *)
THEOREM PublicationImplemented == Spec => SuitePublication
<1>1. Init /\ [][Next]_vars /\ []ResultInv => P!Init /\ [][P!Next]_P!vars
  BY InitSimulated, StepSimulated, PTL
<1>2. QED
  BY <1>1, ResultAlways, PTL DEF Spec, SuitePublication, P!Spec
-----------------------------------------------------------------------------
(***************************************************************************)
(* The workspace the batches share.  surface.json is gone until the first  *)
(* batch; PrepareBatch then stages each batch afresh, and what the skills  *)
(* of a batch write there carries its number.                              *)
(***************************************************************************)
BatchWorkspaceKept ==
  Batched =>
    /\ pc = "context" \/ (InSkill /\ skill = "history") \/ (pc = "batch" /\ batch = 1) =>
         ws["surface"] = Absent
    /\ InSkill /\ skill \in {"usage", "generate"} =>
         /\ ws["usage"] = Driver(batch)
         /\ ws["surface"] # Absent => ws["surface"].batch = batch
         /\ ws["breaks"] = IF batch = 1 THEN breaks ELSE Absent
    /\ pc \in {"replace", "remove"} \/ Publishing =>
         ws["usage"] = Driver(0) /\ ws["tests"] = Driver(0)
    /\ InSkill /\ skill = "validate" => ws["verify"] = Driver(0)

WorkspaceInv == TypeInv /\ BatchPosition /\ BatchWorkspaceKept

LEMMA WorkspaceAtEnd == ASSUME NEW r, End(r) PROVE BatchWorkspaceKept'
<1>1. pc' = "idle"
  BY DEF End
<1>2. QED
  BY <1>1 DEF BatchWorkspaceKept, InSkill, Publishing

(* The steps that leave the workspace alone.                               *)
LEMMA WorkspaceAfterOptional ==
  ASSUME WorkspaceInv, pc \in {"skill", "exited"}, AfterOptional, UNCHANGED ws["surface"],
         skill = "usage" => UNCHANGED <<ws, breaks>>
  PROVE  BatchWorkspaceKept'
<1>1. run' = run /\ nBatches' = nBatches /\ ~Publishing'
  BY AfterOptionalNotPublishing DEF AfterOptional, NextSkill, GotoBatch, Goto
<1>2. CASE ~Batched
  BY <1>1, <1>2 DEF BatchWorkspaceKept, Batched
<1>3. CASE skill = "usage" /\ Batched /\ NextSkill("generate", batch)
  <2>1. pc' = "skill" /\ skill' = "generate" /\ batch' = batch /\ UNCHANGED <<ws, breaks>>
    BY <1>3 DEF NextSkill, Goto
  <2>2. /\ ws["usage"] = Driver(batch)
        /\ ws["surface"] # Absent => ws["surface"].batch = batch
        /\ ws["breaks"] = IF batch = 1 THEN breaks ELSE Absent
    BY <1>3 DEF WorkspaceInv, BatchWorkspaceKept, InSkill
  <2>3. QED
    BY <1>1, <2>1, <2>2 DEF BatchWorkspaceKept, InSkill, Driver
<1>4. CASE skill = "history" /\ Batched /\ GotoBatch(1)
  <2>1. pc' = "batch" /\ ws["surface"] = Absent /\ ws'["surface"] = Absent
    BY <1>4 DEF GotoBatch, Goto, WorkspaceInv, BatchWorkspaceKept, InSkill
  <2>2. QED
    BY <1>1, <2>1 DEF BatchWorkspaceKept, InSkill
<1>5. QED
  BY <1>2, <1>3, <1>4 DEF AfterOptional

LEMMA WorkspaceAfterGenerate ==
  ASSUME WorkspaceInv, InSkill, skill = "generate", AfterGenerate PROVE BatchWorkspaceKept'
<1>1. nBatches' = nBatches /\ ~Publishing' /\ ~InSkill' /\ pc' \in {"batch", "restore", "replace"}
  BY AfterGenerateNotPublishing DEF AfterGenerate, GotoBatch, GotoPhase, Goto, InSkill
<1>2. CASE ~Batched
  BY <1>1, <1>2 DEF BatchWorkspaceKept, Batched
<1>3. CASE Batched
  <2>1. pc' # "replace" /\ (pc' = "batch" => batch' = batch + 1)
    BY <1>3 DEF AfterGenerate, GotoBatch, GotoPhase, Goto
  <2>2. batch \in Nat /\ batch >= 1
    BY <1>3, GeneratePosition, BatchBound DEF WorkspaceInv, TypeInv
  <2>3. ~(pc' = "batch" /\ batch' = 1)
    BY <2>1, <2>2
  <2>4. QED
    BY <1>1, <2>1, <2>3 DEF BatchWorkspaceKept
<1>4. QED
  BY <1>2, <1>3

(* Onward to a phase after the generate steps, inputs untouched.           *)
LEMMA WorkspaceOnward ==
  ASSUME BatchWorkspaceKept, UNCHANGED <<run, nBatches>>,
         UNCHANGED <<ws["usage"], ws["tests"]>>,
         pc \in {"replace", "remove"} \/ Publishing,
         pc' \in {"remove", "write", "rename", "verify", "meta", "renameMeta"}
           \/ (InSkill' /\ skill' = "validate" /\ ws'["verify"] = Driver(0))
  PROVE  BatchWorkspaceKept'
  BY DEF BatchWorkspaceKept, InSkill, Publishing, Batched, Driver

LEMMA WorkspaceStepFailed ==
  ASSUME WorkspaceInv, pc \in {"skill", "exited"}, StepFailed,
         UNCHANGED <<ws["usage"], ws["tests"]>> \/ skill # "validate",
         UNCHANGED ws["surface"], skill = "usage" => UNCHANGED ws
  PROVE  BatchWorkspaceKept'
<1>1. CASE End("error")
  BY <1>1, WorkspaceAtEnd
<1>2. CASE AfterOptional /\ UNCHANGED collected
  BY <1>2, WorkspaceAfterOptional DEF collected
<1>3. CASE skill = "validate" /\ GotoPhase("meta")
  BY <1>3, WorkspaceOnward DEF WorkspaceInv, GotoPhase, Goto, Publishing
<1>4. QED
  BY <1>1, <1>2, <1>3 DEF StepFailed

LEMMA WorkspaceStepAccepted ==
  ASSUME WorkspaceInv, pc = "exited", NEW a, StepAccepted(a), UNCHANGED ws
  PROVE  BatchWorkspaceKept'
<1>1. CASE End("error")
  BY <1>1, WorkspaceAtEnd
<1>2. CASE TraceAccepted(a) \/ HistoryAccepted(a)
  BY <1>2, WorkspaceAfterOptional DEF TraceAccepted, HistoryAccepted
<1>3. CASE GenerateAccepted(a) /\ ~End("error")
  BY <1>3, WorkspaceAfterGenerate DEF GenerateAccepted, InSkill
<1>4. CASE ValidateAccepted(a)
  BY <1>4, WorkspaceOnward DEF WorkspaceInv, ValidateAccepted, GotoPhase, Goto, Publishing
<1>5. QED
  BY <1>1, <1>2, <1>3, <1>4 DEF StepAccepted, RecordFails, GenerateAccepted

(* Within an invocation only the skill's own output file changes.          *)
LEMMA WorkspaceInvocation ==
  ASSUME WorkspaceInv, InSkill, InSkill', UNCHANGED <<run, nBatches, skill, batch, breaks>>,
         \A n \in Names \ {OutputFile[skill]} : ws'[n] = ws[n],
         skill = "usage" => (ws'["surface"] # Absent => ws'["surface"].batch = batch)
  PROVE  BatchWorkspaceKept'
<1>1. Publishing' <=> Publishing
  BY DEF InSkill, Publishing
<1>2. skill \in Skills
  BY DEF WorkspaceInv, TypeInv, TypeOK
<1>3. CASE skill = "usage"
  BY <1>1, <1>3 DEF WorkspaceInv, BatchWorkspaceKept, InSkill, Publishing, OutputFile, Names,
     Batched, Driver
<1>4. CASE skill = "history"
  BY <1>1, <1>4 DEF WorkspaceInv, BatchWorkspaceKept, InSkill, Publishing, OutputFile, Names,
     Batched
<1>5. CASE skill = "generate"
  BY <1>1, <1>5 DEF WorkspaceInv, BatchWorkspaceKept, InSkill, Publishing, OutputFile, Names,
     Batched, Driver
<1>6. CASE skill = "validate"
  BY <1>1, <1>6 DEF WorkspaceInv, BatchWorkspaceKept, InSkill, Publishing, OutputFile, Names,
     Batched, Driver
<1>7. QED
  BY <1>2, <1>3, <1>4, <1>5, <1>6 DEF Skills

LEMMA WorkspaceStep == WorkspaceInv /\ [Next]_vars => WorkspaceInv'
<1> SUFFICES ASSUME WorkspaceInv, [Next]_vars PROVE WorkspaceInv'
  OBVIOUS
<1>a. TypeInv' /\ BatchPosition'
  BY StepType, PositionStep DEF WorkspaceInv
<1>b. SUFFICES BatchWorkspaceKept'
  BY <1>a DEF WorkspaceInv
<1>c. BatchWorkspaceKept /\ ws \in [Names -> Artifact \cup {Absent}] /\ skill \in Skills
  BY DEF WorkspaceInv, TypeInv, TypeOK
<1>1. CASE Start
  BY <1>1 DEF Start, BatchWorkspaceKept, InSkill, Publishing
<1>2. CASE Crash \/ StageFails \/ RefuseReplace \/ IOFails \/ WriteFails \/ CloseMeta
  BY <1>2, WorkspaceAtEnd DEF Crash, StageFails, RefuseReplace, IOFails, WriteFails, CloseMeta
<1>3. CASE Cancel \/ UNCHANGED vars
  BY <1>c, <1>3 DEF Cancel, vars, control, invocation, collected, BatchWorkspaceKept, InSkill,
     Publishing, Batched, Driver
<1>4. CASE PrepareWorkspace
  <2>1. ws'["surface"] = Absent
    BY <1>4 DEF PrepareWorkspace, TransientNames, Names
  <2>2. QED
    BY <1>4, <2>1 DEF PrepareWorkspace, Goto, BatchWorkspaceKept, InSkill, Publishing
<1>5. CASE StageContext
  <2>1. /\ pc' = "skill" /\ pc = "context" /\ nBatches' = nBatches
        /\ skill' = IF Batched THEN "history" ELSE "usage"
    BY <1>5 DEF StageContext, NextSkill, Goto
  <2>2. Batched => ws'["surface"] = Absent
    BY <1>c, <1>5 DEF StageContext, BatchWorkspaceKept, Names
  <2>3. QED
    BY <2>1, <2>2 DEF BatchWorkspaceKept, InSkill, Publishing, Batched
<1>6. CASE SkillUnavailable
  <2>1. pc = "skill" /\ StepFailed
    BY <1>6 DEF SkillUnavailable
  <2>2. ws'["surface"] = ws["surface"]
    BY <1>c, <1>6 DEF SkillUnavailable, OutputFile, Names
  <2>3. skill \in {"usage", "validate"} => ws' = ws
    BY <1>6 DEF SkillUnavailable
  <2>4. QED
    BY <2>1, <2>2, <2>3, WorkspaceStepFailed
<1>7. CASE Launch
  <2>1. pc = "skill" /\ pc' \in {"running", "exited"}
        /\ UNCHANGED <<run, nBatches, skill, batch, breaks>>
    BY <1>7 DEF Launch, Goto, collected
  <2>2. \A n \in Names : ws'[n] = IF n = OutputFile[skill] THEN Absent ELSE ws[n]
    BY <1>c, <1>7 DEF Launch, PrepareOutput
  <2>3. skill = "usage" => ws'["surface"] = Absent
    BY <2>2 DEF OutputFile, Names
  <2>4. QED
    BY <2>1, <2>2, <2>3, WorkspaceInvocation DEF InSkill
<1>8. CASE BackendWrite
  <2>1. PICK a \in BackendOutput(run, skill, batch) : ws' = [ws EXCEPT ![OutputFile[skill]] = a]
    BY <1>8 DEF BackendWrite
  <2>2. a.batch = batch
    BY DEF BackendOutput
  <2>3. \A n \in Names : ws'[n] = IF n = OutputFile[skill] THEN a ELSE ws[n]
    BY <1>c, <2>1
  <2>4. skill = "usage" => ws'["surface"] = a
    BY <2>3 DEF OutputFile, Names
  <2>5. pc = "running" /\ pc' = pc /\ UNCHANGED <<run, nBatches, skill, batch, breaks>>
    BY <1>8 DEF BackendWrite, control, invocation, collected
  <2>6. QED
    BY <2>2, <2>3, <2>4, <2>5, WorkspaceInvocation DEF InSkill
<1>9. CASE BackendExit
  BY <1>c, <1>9 DEF BackendExit, collected, BatchWorkspaceKept, InSkill, Publishing, Batched, Driver
<1>10. CASE Finish
  <2>1. pc = "exited" /\ ws' = ws
    BY <1>10 DEF Finish
  <2>2. QED
    BY <1>10, <2>1, WorkspaceStepFailed, WorkspaceStepAccepted DEF Finish
<1>11. CASE PrepareBatch
  <2>1. /\ pc = "batch" /\ pc' = "skill" /\ skill' = "usage" /\ batch' = batch
        /\ UNCHANGED <<run, nBatches, breaks>>
    BY <1>11 DEF PrepareBatch, NextSkill, Goto, collected
  <2>2. /\ ws'["usage"] = Driver(batch)
        /\ ws'["breaks"] = IF batch = 1 THEN breaks ELSE Absent
        /\ ws'["surface"] = IF batch = 1 /\ breaks # Absent THEN ws["surface"] ELSE Absent
    BY <1>c, <1>11 DEF PrepareBatch, BatchWorkspace, Names
  <2>3. Batched => ws'["surface"] = Absent
    BY <1>c, <2>1, <2>2 DEF BatchWorkspaceKept
  <2>4. QED
    BY <2>1, <2>2, <2>3 DEF BatchWorkspaceKept, InSkill, Publishing, Batched, Driver
<1>12. CASE RestoreBatched
  <2>1. pc' = "replace" /\ run' = run /\ ws'["usage"] = Driver(0) /\ ws'["tests"] = Driver(0)
    BY <1>c, <1>12 DEF RestoreBatched, GotoPhase, Goto, Names
  <2>2. QED
    BY <2>1 DEF BatchWorkspaceKept, InSkill, Publishing, Driver
<1>13. CASE BeginReplace \/ RemoveStep \/ RemoveDone \/ OpenFile \/ CloseFile
  BY <1>c, <1>13, WorkspaceOnward DEF BeginReplace, RemoveStep, RemoveDone, OpenFile, CloseFile,
     GotoPhase, Goto, control, Publishing
<1>14. CASE WriteDone \/ VerifyRanNothing \/ OpenMeta
  BY <1>c, <1>14, WorkspaceOnward DEF WriteDone, VerifyRanNothing, OpenMeta, GotoPhase, Goto,
     Publishing
<1>15. CASE VerifyRan
  <2>1. /\ pc = "verify" /\ pc' = "skill" /\ skill' = "validate" /\ UNCHANGED <<run, nBatches>>
    BY <1>15 DEF VerifyRan, NextSkill, Goto
  <2>2. ws'["verify"] = Driver(0) /\ UNCHANGED <<ws["usage"], ws["tests"]>>
    BY <1>c, <1>15 DEF VerifyRan, Names
  <2>3. Driver(0)' = Driver(0)
    BY <2>1 DEF Driver
  <2>4. QED
    BY <1>c, <2>1, <2>2, WorkspaceOnward DEF InSkill, Publishing
<1>16. QED
  BY <1>1, <1>2, <1>3, <1>4, <1>5, <1>6, <1>7, <1>8, <1>9, <1>10, <1>11, <1>12, <1>13, <1>14, <1>15
     DEF Next, Program, Finished

(* The skills of a batch read that batch's usage, at most its own trace,   *)
(* and the history only in batch 1; validate reads the merged inputs.      *)
THEOREM BatchInputsKept == Spec => []BatchInputs
<1>1. Init => WorkspaceInv
  BY InitType, ResultInit DEF Init, ResultInv, WorkspaceInv, BatchWorkspaceKept, InSkill, Publishing
<1>2. WorkspaceInv => BatchInputs
  <2> SUFFICES ASSUME WorkspaceInv, pc = "running", Batched
               PROVE  /\ skill \in {"usage", "generate"} =>
                           /\ ws["usage"] = Driver(batch)
                           /\ ws["surface"] # Absent => ws["surface"].batch = batch
                           /\ ws["breaks"] = IF batch = 1 THEN breaks ELSE Absent
                      /\ skill = "validate" =>
                           /\ ws["usage"] = Driver(0) /\ ws["tests"] = Driver(0)
                           /\ ws["verify"] = Driver(0)
    BY DEF BatchInputs
  <2>1. QED
    BY DEF WorkspaceInv, BatchWorkspaceKept, InSkill, Publishing
<1>3. QED
  BY <1>1, <1>2, WorkspaceStep, PTL DEF Spec
=============================================================================
