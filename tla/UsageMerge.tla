----------------------------- MODULE UsageMerge -----------------------------
(***************************************************************************)
(* Once every batch has run, restoreBatchedWorkspace puts one usage.json   *)
(* back into the workspace: mergeUsageBatches, over the batches that       *)
(* UsageBatches.tla made.  Verification and validation work from it.       *)
(***************************************************************************)
EXTENDS UsageBatches, SequencesExt

NameOf(i) == IF i \in twins THEN i - 1 ELSE i

SiteList(from, to) == [i \in 1 .. to - from |-> from + i - 1]

AddFragmentReplacing(merged, f) ==         \* mutant: a later fragment replaces the sites
  LET at == {p \in DOMAIN merged : merged[p].name = NameOf(f.symbol)}
  IN IF at = {} THEN Append(merged, [name |-> NameOf(f.symbol), sites |-> SiteList(f.from, f.to)])
     ELSE LET p == CHOOSE p \in at : TRUE
          IN [merged EXCEPT ![p].sites = SiteList(f.from, f.to)]

(* The first fragment of a name gives the entry, the others add sites.     *)
AddFragment(merged, f) ==
  LET at == {p \in DOMAIN merged : merged[p].name = NameOf(f.symbol)}
  IN IF at = {} THEN Append(merged, [name |-> NameOf(f.symbol), sites |-> SiteList(f.from, f.to)])
     ELSE LET p == CHOOSE p \in at : TRUE
          IN [merged EXCEPT ![p].sites = @ \o SiteList(f.from, f.to)]

MergeUsageBatches == FoldLeft(AddFragment, <<>>, placed)
-----------------------------------------------------------------------------
(* The symbol that follows those named i.                                  *)
After(i) == IF i + 1 \in twins THEN i + 2 ELSE i + 1

(* The merged usage.json has the selected surface's names in their order,  *)
(* each once and with exactly the sites it had, whatever the batches were. *)
MergeRestoresSurface ==
  done =>
    LET merged == MergeUsageBatches
    IN /\ {merged[p].name : p \in DOMAIN merged} = Symbols \ twins
       /\ \A p, q \in DOMAIN merged : p < q => merged[p].name < merged[q].name
       /\ \A p \in DOMAIN merged :
            LET i == merged[p].name
            IN merged[p].sites = SiteList(bounds[i], bounds[After(i)])

(* internal/hyrum/usage/index.go: "Activation sites remain distinct from   *)
(* imported symbols with the same name."  That is, the merged surface has  *)
(* one entry per symbol, as the staged one had.                            *)
ActivationsDistinct == done => Len(MergeUsageBatches) = Len(bounds) - 1
=============================================================================
