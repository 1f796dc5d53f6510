----------------------------- MODULE MCStaging -----------------------------
(***************************************************************************)
(* Staging for TLC: two releases, the first under either of two tags, the  *)
(* second under one.                                                       *)
(***************************************************************************)
EXTENDS Staging

TwoReleases == {"1.0", "2.0"}

ThreeTags == {"1.0", "v1.0", "v2.0"}

ReleaseTags == [v \in TwoReleases |-> IF v = "1.0" THEN {"1.0", "v1.0"} ELSE {"v2.0"}]
=============================================================================
