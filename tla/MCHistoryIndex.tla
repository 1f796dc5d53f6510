--------------------------- MODULE MCHistoryIndex ---------------------------
(* Two dependency names, one of them in two dependencies, and histories of *)
(* one to three commits: relevant by message, by manifest, by both or by   *)
(* neither, and records that fit the scanner or outgrow it.                *)
EXTENDS HistoryIndex

MCNames == {"left", "right"}
MCNeedles == <<"left", "right", "left">>

Commit(names, excerpts, touches, text, diff) ==
  [mentions |-> names, changes |-> excerpts, manifest |-> touches,
   message |-> text, patch |-> diff]

Both == Commit(MCNames, {"left"}, TRUE, 2, 1)
ManifestOnly == Commit({}, MCNames, TRUE, 1, 2)
MessageOnly == Commit({"right"}, {}, FALSE, 1, 0)
Unrelated == Commit({}, {}, TRUE, 1, 1)
LongPatch == Commit({"left"}, {"right"}, TRUE, 1, 5)
LongBody == Commit({"left"}, {}, FALSE, 6, 0)

Kinds == {Both, ManifestOnly, MessageOnly, Unrelated}

MCLogs ==
  {<<>>} \cup {<<a, b, c>> : a \in Kinds, b \in Kinds, c \in Kinds}
         \cup {<<LongPatch, Both>>, <<Both, LongPatch>>, <<LongBody, MessageOnly>>}

(* Histories whose first or second record is the oversized one. *)
MCLongLogs == {<<Both, LongPatch>>, <<LongBody>>, <<Both>>}
=============================================================================
