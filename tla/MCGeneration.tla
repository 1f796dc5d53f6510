---------------------------- MODULE MCGeneration ----------------------------
(***************************************************************************)
(* Generation for TLC: the cfg files choose how many processes run one     *)
(* after the other over one workspace and suite, and with how many batches.*)
(***************************************************************************)
EXTENDS Generation
=============================================================================
