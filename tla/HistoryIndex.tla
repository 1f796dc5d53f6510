---------------------------- MODULE HistoryIndex ----------------------------
(***************************************************************************)
(* BuildHistoryIndex and HistoryIndex.For: the target's git log, streamed  *)
(* twice through a pipe and a bounded scanner, split into commits,         *)
(* partitioned by dependency name, and asked for each dependency's history.*)
(*                                                                         *)
(* The stream is a sequence of pieces (runs of bytes): before each commit  *)
(* a NUL, then the commit's pieces.  The first one holds hash, date and    *)
(* subject, and with the last one the body and the patch are complete.     *)
(* git writes piece by piece, the scanner reads any number of them at once.*)
(***************************************************************************)
EXTENDS Naturals, Sequences, FiniteSets, SequencesExt

CONSTANTS
  Names,      \* dependency names in lower case
  Needles,    \* the names of the dependencies, in order, repetitions included
  Logs,       \* the histories a target may have
  MaxRecord,  \* maxLogRecord
  PipeSize    \* what the pipe holds while nobody reads

(* A commit: the names its message mentions, whether it touches a          *)
(* manifest, the names its manifest diff excerpts mention, and the pieces  *)
(* of its message and of its patch.                                        *)
ASSUME HistoryAssumption ==
  /\ MaxRecord \in Nat \ {0} /\ PipeSize \in Nat \ {0}
  /\ Needles \in Seq(Names)
  /\ \A log \in Logs : log \in Seq(Range(log)) /\ \A i \in DOMAIN log :
       /\ log[i].mentions \subseteq Names /\ log[i].changes \subseteq Names
       /\ log[i].manifest \in BOOLEAN
       /\ log[i].message \in Nat \ {0} /\ log[i].patch \in Nat

VARIABLES
  log,        \* the input: commits in git's order
  paths,      \* the input: whether brief detected manifest paths
  pc,         \* the pass, or how building ended
  git,        \* the git process of the pass
  sent,       \* pieces it has written
  taken,      \* pieces the scanner has read
  buffer,     \* pieces read and not yet consumed
  scan,       \* "reading", "eof" after the end of the pipe, "ended", "too long"
  byName,     \* per name: the commits whose message mentions it
  manifest,   \* the commits that touch a manifest, with their excerpts
  answers,    \* per name: what For returned for it
  cancelled

input == <<log, paths>>
process == <<git, sent>>
scanner == <<taken, buffer, scan>>
index == <<byName, manifest>>
vars == <<input, pc, process, scanner, index, answers, cancelled>>

Nul == [commit |-> 0, part |-> 0]
NoAnswer == [n \in {} |-> {}]
Ended == pc \in {"done", "failed"}

(* What git writes in a pass: every commit, or those that touch a manifest *)
(* and with their patch.                                                   *)
Record(commits, pass, i) ==
  [k \in 1..(commits[i].message + (IF pass = "manifests" THEN commits[i].patch ELSE 0)) |->
     [commit |-> i, part |-> k]]

Written(commits, pass, i) == pass = "manifests" => commits[i].manifest

Output(commits, pass) ==
  FoldLeftDomain(LAMBDA out, i : IF Written(commits, pass, i)
                                 THEN out \o <<Nul>> \o Record(commits, pass, i) ELSE out,
                 <<>>, commits)

Stream == Output(log, pc)

Init ==
  /\ log \in Logs /\ paths \in BOOLEAN
  /\ pc = "messages" /\ git = "running" /\ sent = 0
  /\ taken = 0 /\ buffer = <<>> /\ scan = "reading"
  /\ byName = [n \in Names |-> <<>>] /\ manifest = <<>>
  /\ answers = [n \in Names |-> NoAnswer]
  /\ cancelled = FALSE

-----------------------------------------------------------------------------
(* git, the pipe and the context. *)

GitWrites ==
  /\ ~Ended /\ git = "running"
  /\ sent < Len(Stream) /\ sent - taken < PipeSize
  /\ sent' = sent + 1
  /\ UNCHANGED <<input, pc, git, scanner, index, answers, cancelled>>

GitExits ==
  /\ ~Ended /\ git = "running" /\ sent = Len(Stream)
  /\ git' = "exited"
  /\ UNCHANGED <<input, pc, sent, scanner, index, answers, cancelled>>

(* An unreadable repository, or the end of a killed process. *)
GitFails ==
  /\ ~Ended /\ git = "running"
  /\ git' = "failed"
  /\ UNCHANGED <<input, pc, sent, scanner, index, answers, cancelled>>

Cancel ==
  /\ ~Ended /\ ~cancelled
  /\ cancelled' = TRUE
  /\ UNCHANGED <<input, pc, process, scanner, index, answers>>

KillMissing ==                                  \* mutant: git is started without the context
  /\ ~Ended /\ cancelled /\ git = "failed"
  /\ UNCHANGED vars

(* exec.CommandContext kills the process of a cancelled context. *)
Kill ==
  /\ ~Ended /\ cancelled /\ git = "running"
  /\ git' = "failed"
  /\ UNCHANGED <<input, pc, sent, scanner, index, answers, cancelled>>

-----------------------------------------------------------------------------
(* bufio.Scanner with splitOn. *)

HasNul == \E k \in DOMAIN buffer : buffer[k] = Nul

ReadUnbounded ==                                \* mutant: the buffer may outgrow maxLogRecord
  /\ ~Ended /\ scan = "reading" /\ ~HasNul /\ Len(buffer) < MaxRecord
  /\ \E n \in 1..(sent - taken) :
       /\ buffer' = buffer \o SubSeq(Stream, taken + 1, taken + n)
       /\ taken' = taken + n
  /\ UNCHANGED <<input, pc, process, scan, index, answers, cancelled>>

Read ==
  /\ ~Ended /\ scan = "reading" /\ ~HasNul /\ Len(buffer) < MaxRecord
  /\ \E n \in 1..(sent - taken) :
       /\ Len(buffer) + n <= MaxRecord
       /\ buffer' = buffer \o SubSeq(Stream, taken + 1, taken + n)
       /\ taken' = taken + n
  /\ UNCHANGED <<input, pc, process, scan, index, answers, cancelled>>

ReadEnd ==
  /\ ~Ended /\ scan = "reading" /\ ~HasNul /\ Len(buffer) < MaxRecord
  /\ sent = taken /\ git # "running"
  /\ scan' = "eof"
  /\ UNCHANGED <<input, pc, process, taken, buffer, index, answers, cancelled>>

(* bufio.ErrTooLong: the scanner stops, git may still have much to write. *)
TooLong ==
  /\ ~Ended /\ scan = "reading" /\ ~HasNul /\ Len(buffer) = MaxRecord
  /\ scan' = "too long"
  /\ UNCHANGED <<input, pc, process, taken, buffer, index, answers, cancelled>>

(* How many dependencies have the name. *)
Times(n) == Cardinality({k \in DOMAIN Needles : Needles[k] = n})

(* parseLogRecord and the callback of the pass.  A token without the       *)
(* fields of a record, like the one before the first NUL, is dropped.      *)
Deliver(token) ==
  IF token = <<>> \/ token[1].part # 1 THEN UNCHANGED index
  ELSE LET i == token[1].commit
           whole == token = Record(log, pc, i)
       IN IF pc = "messages"
          THEN /\ byName' = [n \in Names |->
                    IF n \in log[i].mentions
                    THEN byName[n] \o [k \in 1..Times(n) |-> [commit |-> i, whole |-> whole]]
                    ELSE byName[n]]
               /\ UNCHANGED manifest
          ELSE /\ manifest' = Append(manifest,
                    [commit |-> i, whole |-> whole,
                     changes |-> IF whole THEN log[i].changes ELSE {}])
               /\ UNCHANGED byName

(* splitOn: what is in front of the first NUL is a token. *)
Token ==
  /\ ~Ended /\ scan \in {"reading", "eof"} /\ HasNul
  /\ LET k == Min({j \in DOMAIN buffer : buffer[j] = Nul})
     IN /\ Deliver(SubSeq(buffer, 1, k - 1))
        /\ buffer' = SubSeq(buffer, k + 1, Len(buffer))
  /\ UNCHANGED <<input, pc, process, taken, scan, answers, cancelled>>

(* At the end of the stream the rest is a token, unless it is empty. *)
LastToken ==
  /\ ~Ended /\ scan = "eof" /\ ~HasNul
  /\ Deliver(buffer)
  /\ buffer' = <<>>
  /\ scan' = "ended"
  /\ UNCHANGED <<input, pc, process, taken, answers, cancelled>>

NextPass == IF pc = "messages" /\ paths THEN "manifests" ELSE "done"

WaitIgnoringStatus ==                           \* mutant: the exit status is not looked at
  /\ ~Ended /\ scan \in {"ended", "too long"} /\ git # "running"
  /\ IF scan = "too long" THEN pc' = "failed" ELSE pc' = NextPass
  /\ git' = "running" /\ sent' = 0
  /\ taken' = 0 /\ buffer' = <<>> /\ scan' = "reading"
  /\ UNCHANGED <<input, index, answers, cancelled>>

(* cmd.Wait, after a complete scan and after one that gave up: it returns  *)
(* when git has exited, and closes hyrum's end of the pipe only then.  The *)
(* second pass follows the first; any error discards the index.            *)
Wait ==
  /\ ~Ended /\ scan \in {"ended", "too long"} /\ git # "running"
  /\ IF scan = "too long" \/ git = "failed" THEN pc' = "failed" ELSE pc' = NextPass
  /\ git' = "running" /\ sent' = 0
  /\ taken' = 0 /\ buffer' = <<>> /\ scan' = "reading"
  /\ UNCHANGED <<input, index, answers, cancelled>>

-----------------------------------------------------------------------------
(* HistoryIndex.For, asked once for each dependency. *)

(* The excerpts of a commit that mention the name, as their mention of it. *)
Details(name, i) ==
  IF \E m \in Range(manifest) : m.commit = i /\ name \in m.changes THEN {name} ELSE {}

(* A commit goes in once. *)
AddNew(out, name, i) ==
  IF \E o \in Range(out) : o.commit = i THEN out
  ELSE Append(out, [commit |-> i, details |-> Details(name, i)])

For(name) ==
  LET named == FoldLeft(LAMBDA out, m : AddNew(out, name, m.commit), <<>>, byName[name])
  IN FoldLeft(LAMBDA out, m : IF name \in m.changes THEN AddNew(out, name, m.commit) ELSE out,
              named, manifest)

QueryInPlace(name) ==                           \* mutant: the shared index is filtered
  /\ pc = "done" /\ answers[name] = NoAnswer
  /\ answers' = [answers EXCEPT ![name] = [commits |-> For(name)]]
  /\ manifest' = [k \in DOMAIN manifest |->
                    [manifest[k] EXCEPT !.changes = @ \cap {name}]]
  /\ UNCHANGED <<input, pc, process, scanner, byName, cancelled>>

Query(name) ==
  /\ pc = "done" /\ answers[name] = NoAnswer
  /\ answers' = [answers EXCEPT ![name] = [commits |-> For(name)]]
  /\ UNCHANGED <<input, pc, process, scanner, index, cancelled>>

Finished ==
  /\ pc = "failed" \/ (pc = "done" /\ \A n \in Names : answers[n] # NoAnswer)
  /\ UNCHANGED vars

Git == GitWrites \/ GitExits

Scanning == Read \/ ReadEnd \/ TooLong \/ Token \/ LastToken \/ Wait

Next ==
  \/ Git \/ GitFails \/ Cancel \/ Kill \/ Scanning
  \/ (\E n \in Names : Query(n))
  \/ Finished

(* git runs until it blocks on the pipe or is done, and hyrum's one thread *)
(* reads until it blocks on git; cancellation is delivered.                *)
Spec == Init /\ [][Next]_vars /\ WF_vars(Git) /\ WF_vars(Scanning) /\ WF_vars(Kill)

-----------------------------------------------------------------------------
TypeOK ==
  /\ log \in Logs /\ paths \in BOOLEAN /\ cancelled \in BOOLEAN
  /\ pc \in {"messages", "manifests", "done", "failed"}
  /\ git \in {"running", "exited", "failed"}
  /\ scan \in {"reading", "eof", "ended", "too long"}
  /\ sent \in Nat /\ taken \in 0..sent /\ sent - taken <= PipeSize
  /\ Len(buffer) <= MaxRecord
  /\ DOMAIN byName = Names /\ DOMAIN answers = Names

Places(entries, i) == {k \in DOMAIN entries : entries[k].commit = i}

(* Whole commits of the log, in git's order.                               *)
InOrder(entries) ==
  /\ \A k \in DOMAIN entries : entries[k].whole /\ entries[k].commit \in DOMAIN log
  /\ \A j, k \in DOMAIN entries : j <= k => entries[j].commit <= entries[k].commit

(* However the pipe cuts the stream into reads, and whatever git, the      *)
(* context or an oversized record do, an index that is used holds every    *)
(* commit that mentions a name, in git's order and as often as the name is *)
(* a dependency, and every commit that touches a manifest once, all of     *)
(* them whole (BuildHistoryIndex, streamLog, splitOn).                     *)
IndexComplete ==
  pc = "done" =>
    /\ \A n \in Names :
         /\ InOrder(byName[n])
         /\ \A i \in DOMAIN log :
              Cardinality(Places(byName[n], i)) = IF n \in log[i].mentions THEN Times(n) ELSE 0
    /\ InOrder(manifest)
    /\ \A k \in DOMAIN manifest : manifest[k].changes = log[manifest[k].commit].changes
    /\ \A i \in DOMAIN log :
         Cardinality(Places(manifest, i)) = IF paths /\ log[i].manifest THEN 1 ELSE 0

Mentions(n, i) == n \in log[i].mentions

Excerpt(n, i) == paths /\ log[i].manifest /\ n \in log[i].changes

(* Commits that mention the name come before the others.                   *)
Precedes(n, i, j) == IF Mentions(n, i) <=> Mentions(n, j) THEN i < j ELSE Mentions(n, i)

(* Whichever dependencies were asked for before, For(name) names each      *)
(* relevant commit once, the commits that mention the name first and then  *)
(* those that only their manifest diff makes relevant, both in git's       *)
(* order, and shows a commit's manifest excerpt exactly when it mentions   *)
(* the name (For; the index is shared by all dependencies of a run).       *)
ForExact ==
  \A n \in Range(Needles) : answers[n] # NoAnswer =>
    LET out == answers[n].commits
    IN /\ {out[k].commit : k \in DOMAIN out} = {i \in DOMAIN log : Mentions(n, i) \/ Excerpt(n, i)}
       /\ \A j, k \in DOMAIN out : j < k => Precedes(n, out[j].commit, out[k].commit)
       /\ \A k \in DOMAIN out :
            out[k].details = IF Excerpt(n, out[k].commit) THEN {n} ELSE {}

RecordsFit ==
  \A i \in DOMAIN log : log[i].message + (IF paths /\ log[i].manifest THEN log[i].patch ELSE 0)
                           < MaxRecord

(* Building ends when every record fits the scanner, and when it is        *)
(* cancelled, even while git waits for a reader ("Both passes propagate    *)
(* context cancellation", BuildHistoryIndex).                              *)
IndexEnds == (RecordsFit \/ cancelled) ~> Ended

(* Building ends for every history: maxLogRecord turns an oversized record *)
(* into an error (streamLog).                                              *)
ScanEnds == <>Ended
=============================================================================
