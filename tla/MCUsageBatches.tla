--------------------------- MODULE MCUsageBatches ---------------------------
(***************************************************************************)
(* UsageBatches and UsageMerge for TLC: every surface of at most           *)
(* MaxSymbols symbols with at most MaxSitesEach call sites each.           *)
(***************************************************************************)
EXTENDS UsageMerge

CONSTANTS MaxSymbols, MaxSitesEach

(* All bounds of n symbols, by adding a symbol to those of n - 1.          *)
BoundsOf[n \in 0 .. MaxSymbols] ==
  IF n = 0 THEN {<<0>>}
  ELSE {Append(b, b[n] + s) : b \in BoundsOf[n - 1], s \in 0 .. MaxSitesEach}

AllSurfaces == UNION {BoundsOf[n] : n \in 0 .. MaxSymbols}

(* An import and an activation, each used at one site.                     *)
TwoSymbols == {<<0, 1, 2>>}
=============================================================================
