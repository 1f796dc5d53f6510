---------------------------- MODULE OutlineBudget ----------------------------
(***************************************************************************)
(* selectDependencyOutline: which files of a packed dependency outline go  *)
(* into dep-outline.md, a document of at most maxBytes bytes made of whole *)
(* files.  Three passes offer files to budget.add one after the other: the *)
(* required files, the files that declare what selected files refer to,    *)
(* and the package context.  One action is one offer.                      *)
(*                                                                         *)
(* Files are numbered in the order of their paths, and so are the exported *)
(* names.  What a path tells (its directory, whether its base name is an   *)
(* entry point's or the context's) is constant; what the files hold, the   *)
(* usage surface and the limit are inputs chosen by Init.                  *)
(***************************************************************************)
EXTENDS Naturals, FiniteSets, Sequences, FiniteSetsExt

CONSTANTS
  Files,        \* 1..n: the packed files, in path order
  Dir,          \* the directory of each file, a sequence of segments
  EntryNamed,   \* files whose base name is in outlineEntryNames
  ContextNamed, \* files whose base name is a README, a manifest or a gemspec
  TestPaths,    \* files for which isTestPath holds
  Auxiliary,    \* files for which outlineAuxiliaryPath holds
  Module,       \* the name a file's path answers to when modules are matched
  Outlines,     \* the possible contents of the packed files
  UsedNames,    \* the possible sets of names in the usage surface
  UsedModules,  \* the possible sets of module names in the usage surface
  Budgets,      \* the possible limits
  HeaderBytes,  \* the length of the document's header without the counts
  Radix         \* of the counts in the header, 10 in the code

VARIABLES
  content,    \* per file: status, bytes once rendered, outlined, exports, refers
  used,       \* identifiers of the usage surface
  modules,    \* its normalised module names
  maxBytes,
  pc,         \* the pass, or how it ended
  todo,       \* candidates still to be offered, as <<rank, file>>
  queue,      \* selected files whose references are still to be followed
  visited,    \* files whose references have been followed
  selected,   \* the reason for which each file was selected, or None
  rejected,   \* rejectedByBudget
  entrySize   \* bytes of the selected files

inputs == <<content, used, modules, maxBytes>>
vars == <<inputs, pc, todo, queue, visited, selected, rejected, entrySize>>

None == "none"
Reasons == {"required", "reference", "context"}
Failures == {"required does not fit", "nothing fits", "rendering exceeds"}

Count == Cardinality(Files)

(* The number of digits of a count. *)
Digits[n \in Nat] == IF n < Radix THEN 1 ELSE 1 + Digits[n \div Radix]

(* The header states how many files are selected and how many omitted. *)
Header(n) == HeaderBytes + Digits[n] + Digits[Count - n]

(* The header may get shorter by the digits of "omitted" when a file is    *)
(* added, but never by as much as the file's own heading and fence.        *)
OutlineAssumption ==
  /\ IsFiniteSet(Files) /\ Files = 1..Count
  /\ EntryNamed \subseteq Files /\ EntryNamed \cap ContextNamed = {}
  /\ Budgets \subseteq Nat /\ HeaderBytes \in Nat /\ Radix \in Nat \ {0, 1}
  /\ \A c \in Outlines, f \in Files :
       /\ c[f].bytes \in Nat /\ c[f].refers \subseteq Nat
       /\ \A n \in 0..(Count - 1) : Header(n) < Header(n + 1) + c[f].bytes
ASSUME OutlineAssumption

-----------------------------------------------------------------------------
(* The index of the packed files. *)

Usable(f) == content[f].status = "text" /\ f \notin TestPaths

Declarations(name) == {f \in Files : Usable(f) /\ name \in content[f].exports}

IsAncestor(d, e) == Len(d) <= Len(e) /\ SubSeq(e, 1, Len(d)) = d

(* The files that must fit: those that declare a used name, the package    *)
(* entry points in their directories and above, and the files the observed *)
(* modules are named for.                                                  *)
Direct == {f \in Files : Usable(f) /\ content[f].exports \cap used # {}}

AncestorEntries ==
  {f \in EntryNamed : Usable(f) /\ \E g \in Direct : IsAncestor(Dir[f], Dir[g])}

Observed ==
  {f \in Files : /\ Usable(f)
                 /\ Module[f] \in modules
                 /\ f \in EntryNamed \/ content[f].outlined}

Required == Direct \cup AncestorEntries \cup Observed

(* Where following references starts. *)
Seeds == IF Direct # {} THEN Direct ELSE Observed

(* bestOutlineDeclarations: of the files that declare a name, the nearest. *)
Anchor(d) ==
  IF d = <<>> THEN <<>>
  ELSE IF d[1] \in {"src", "packages"} /\ Len(d) > 1 THEN SubSeq(d, 1, 2)
  ELSE SubSeq(d, 1, 1)

CommonSegments(d, e) ==
  IF d = <<>> /\ e = <<>> THEN 1
  ELSE Cardinality({n \in 1..Len(d) : IsAncestor(SubSeq(d, 1, n), e)})

Nearer(f, g, h) ==
  LET same(x) == Anchor(Dir[x]) = Anchor(Dir[f])
  IN IF same(g) = same(h)
     THEN CommonSegments(Dir[f], Dir[g]) >= CommonSegments(Dir[f], Dir[h])
     ELSE same(g)

BestDeclarations(f, name) ==
  LET candidates == Declarations(name) \ Auxiliary
  IN {g \in candidates : \A h \in candidates : Nearer(f, g, h)}

Selected == {f \in Files : selected[f] # None}

(* outlineContextCandidates: entry points and exporting files only when    *)
(* nothing has been selected; a file is offered once, at its first rank.   *)
FallbackEntry(f) == Selected = {} /\ f \in EntryNamed /\ Len(Dir[f]) <= 2
FallbackExport(f) == Selected = {} /\ content[f].exports # {}
RootContext(f) == f \in ContextNamed /\ Dir[f] = <<>>

ContextCandidates ==
  { <<CASE FallbackEntry(f) -> 1 [] RootContext(f) -> 2 [] OTHER -> 3, f>> :
      f \in {g \in Files : /\ Usable(g)
                           /\ \/ FallbackEntry(g)
                              \/ RootContext(g)
                              \/ FallbackExport(g)} }

-----------------------------------------------------------------------------
(* The passes. *)

Init ==
  /\ content \in Outlines
  /\ used \in UsedNames
  /\ modules \in UsedModules
  /\ maxBytes \in Budgets
  /\ pc = "required"
  /\ todo = {<<0, f>> : f \in Required}
  /\ queue = {} /\ visited = {} /\ rejected = {} /\ entrySize = 0
  /\ selected = [f \in Files |-> None]

First(candidates) ==
  CHOOSE c \in candidates : \A d \in candidates :
    c[1] < d[1] \/ (c[1] = d[1] /\ c[2] <= d[2])

ReasonOf(pass) ==
  CASE pass = "required" -> "required"
    [] pass = "references" -> "reference"
    [] pass = "context" -> "context"

SizeWithOldHeader(f) ==                         \* mutant: the header before the file is added
  Header(Cardinality(Selected)) + entrySize + content[f].bytes

SizeWithSeparator(f) ==                         \* mutant: a separator that is not written
  Header(Cardinality(Selected) + 1) + entrySize + content[f].bytes + 1

SizeWith(f) == Header(Cardinality(Selected) + 1) + entrySize + content[f].bytes

(* budget.add, for a file that is selected already. *)
Known(c) ==
  /\ selected[c[2]] # None
  /\ UNCHANGED <<pc, queue, selected, rejected, entrySize>>

RejectSkipping(c) ==                            \* mutant: a required file is left out
  /\ selected[c[2]] = None
  /\ SizeWith(c[2]) > maxBytes
  /\ rejected' = rejected \cup {c[2]}
  /\ UNCHANGED <<pc, queue, selected, entrySize>>

(* budget.add, for a file that does not fit: an error if it is required. *)
Reject(c) ==
  /\ selected[c[2]] = None
  /\ SizeWith(c[2]) > maxBytes
  /\ rejected' = rejected \cup {c[2]}
  /\ pc' = IF pc = "required" THEN "required does not fit" ELSE pc
  /\ UNCHANGED <<queue, selected, entrySize>>

SelectUnqueued(c) ==                            \* mutant: only the seeds are followed
  /\ selected[c[2]] = None
  /\ SizeWith(c[2]) <= maxBytes
  /\ selected' = [selected EXCEPT ![c[2]] = ReasonOf(pc)]
  /\ entrySize' = entrySize + content[c[2]].bytes
  /\ UNCHANGED <<pc, queue, rejected>>

SelectWithoutReason(c) ==                       \* mutant: an empty reason
  /\ selected[c[2]] = None
  /\ SizeWith(c[2]) <= maxBytes
  /\ selected' = [selected EXCEPT ![c[2]] = ""]
  /\ entrySize' = entrySize + content[c[2]].bytes
  /\ queue' = IF pc = "references" THEN queue \cup {c[2]} ELSE queue
  /\ UNCHANGED <<pc, rejected>>

(* budget.add, for a file that fits. *)
Select(c) ==
  /\ selected[c[2]] = None
  /\ SizeWith(c[2]) <= maxBytes
  /\ selected' = [selected EXCEPT ![c[2]] = ReasonOf(pc)]
  /\ entrySize' = entrySize + content[c[2]].bytes
  /\ queue' = IF pc = "references" THEN queue \cup {c[2]} ELSE queue
  /\ UNCHANGED <<pc, rejected>>

Offer ==
  /\ pc \in {"required", "references", "context"}
  /\ todo # {}
  /\ LET c == First(todo)
     IN /\ todo' = todo \ {c}
        /\ Known(c) \/ Reject(c) \/ Select(c)
  /\ UNCHANGED <<inputs, visited>>

StartReferences ==
  /\ pc = "required" /\ todo = {}
  /\ pc' = "references"
  /\ queue' = Seeds
  /\ UNCHANGED <<inputs, todo, visited, selected, rejected, entrySize>>

(* addReferencedOutlineCandidates: take the first file of the queue and    *)
(* offer what declares the names it refers to.                             *)
Visit ==
  /\ pc = "references" /\ todo = {} /\ queue # {}
  /\ LET f == Min(queue)
     IN /\ queue' = queue \ {f}
        /\ visited' = visited \cup {f}
        /\ todo' = IF f \in visited THEN {}
                   ELSE UNION {{<<name, g>> : g \in BestDeclarations(f, name)} :
                                 name \in content[f].refers}
  /\ UNCHANGED <<inputs, pc, selected, rejected, entrySize>>

StartContext ==
  /\ pc = "references" /\ todo = {} /\ queue = {}
  /\ pc' = "context"
  /\ todo' = ContextCandidates
  /\ UNCHANGED <<inputs, queue, visited, selected, rejected, entrySize>>

(* result, and the two errors that may replace it. *)
Result ==
  /\ pc = "context" /\ todo = {}
  /\ pc' = CASE Selected = {} /\ \E f \in Files : Usable(f) -> "nothing fits"
             [] Header(Cardinality(Selected)) + entrySize > maxBytes ->
                  "rendering exceeds"
             [] OTHER -> "done"
  /\ UNCHANGED <<inputs, todo, queue, visited, selected, rejected, entrySize>>

Finished == pc \in Failures \cup {"done"} /\ UNCHANGED vars

Next == Offer \/ StartReferences \/ Visit \/ StartContext \/ Result \/ Finished

Spec == Init /\ [][Next]_vars

(* omissionReason, for a file that is not selected. *)
Omission(f) ==
  CASE f \in rejected -> "budget"
    [] content[f].status = "skipped" -> "skipped"
    [] f \in TestPaths -> "test"
    [] OTHER -> "outside"

-----------------------------------------------------------------------------
(* The entries of the files in S, written in path order. *)
SumOfBytes(S) ==
  LET written[n \in 0..Count] ==
        IF n = 0 THEN 0
        ELSE written[n - 1] + (IF n \in S THEN content[n].bytes ELSE 0)
  IN written[Count]

(* The length of the document made of the files in S. *)
DocumentSize(S) == Header(Cardinality(S)) + SumOfBytes(S)

TypeOK ==
  /\ pc \in {"required", "references", "context", "done"} \cup Failures
  /\ todo \subseteq Nat \X Files
  /\ queue \subseteq Files /\ visited \subseteq Files /\ rejected \subseteq Files
  /\ selected \in [Files -> Reasons \cup {None}]
  /\ entrySize \in Nat

(* outlineDocumentSize, computed before a file is accepted, is the length  *)
(* renderSelectedOutline arrives at: after every offer the document of     *)
(* the files selected so far fits, so that the last check in result can    *)
(* only fail when no file was selected at all.                             *)
FitsBudget ==
  /\ Selected # {} => DocumentSize(Selected) <= maxBytes
  /\ pc = "rendering exceeds" => Selected = {}

(* README: "A run fails during staging when required source files cannot   *)
(* fit".  A selection has every required file; and staging fails for a     *)
(* required file only when all of them together are too much, whatever the *)
(* order in which they were offered.                                       *)
RequiredFit ==
  /\ pc \in {"references", "context", "done"} => Required \subseteq Selected
  /\ pc = "required does not fit" => DocumentSize(Required) > maxBytes

(* docs/skills.md: the selection "marks omissions caused by the byte       *)
(* limit".  A file marked so is not selected, neither when it was rejected *)
(* nor by a later pass that finds it small enough, and even the finished   *)
(* document has no room for it.                                            *)
OmissionTrue ==
  /\ rejected \cap Selected = {}
  /\ pc = "done" =>
       \A f \in Files \ Selected :
         Omission(f) = "budget" => DocumentSize(Selected \cup {f}) > maxBytes

(* addReferencedOutlineCandidates reaches a fixed point: what the seeds    *)
(* and the files found through them refer to is in the document or was     *)
(* rejected by the limit, although a file selected late may refer to an    *)
(* earlier one and files may refer to each other.                          *)
ReferencesFollowed ==
  pc \in {"context", "done"} =>
    \A f \in Seeds \cup {g \in Files : selected[g] = "reference"} :
      \A name \in content[f].refers :
        BestDeclarations(f, name) \subseteq Selected \cup rejected

=============================================================================
