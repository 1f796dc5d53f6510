---------------------------- MODULE Publication ----------------------------
(***************************************************************************)
(* What `hyrum gen` promises about the suite it leaves on disk, without    *)
(* saying how: a suite is one attempt's complete output or none.           *)
(***************************************************************************)
EXTENDS Naturals

VARIABLES current,   \* the attempt whose complete suite is on disk; 0: none
          attempt,   \* number of attempts started
          ready      \* the attempt has all its generated tests

vars == <<current, attempt, ready>>

Init == current = 0 /\ attempt = 0 /\ ready = FALSE

(* An attempt that has not got all its tests leaves the old suite alone.   *)
Begin == ~ready /\ attempt' = attempt + 1 /\ UNCHANGED <<current, ready>>

Ready == ~ready /\ ready' = TRUE /\ UNCHANGED <<current, attempt>>

(* The old suite goes before the new one comes; a reader never finds the   *)
(* one turned into the other in a step.                                    *)
Retract == ready /\ current # 0 /\ current' = 0 /\ UNCHANGED <<attempt, ready>>

Publish == ready /\ current = 0 /\ current' = attempt /\ ready' = FALSE /\ UNCHANGED attempt

GiveUp == ready /\ ready' = FALSE /\ UNCHANGED <<current, attempt>>

Next == Begin \/ Ready \/ Retract \/ Publish \/ GiveUp

Spec == Init /\ [][Next]_vars
=============================================================================
