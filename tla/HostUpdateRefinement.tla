------------------------ MODULE HostUpdateRefinement ------------------------
(***************************************************************************)
(* The executor as an implementation of HostUpdate.  A container is in     *)
(* hand from the moment its replacement begins until the walk goes on to   *)
(* the next name; the result noted before the wait of a roll-back is not   *)
(* an outcome yet, because that wait may still turn it into "failed".      *)
(***************************************************************************)
EXTENDS PlanExecutor

InHand == IF pc \in Replacing THEN {Current} ELSE {}

Outcome == [c \in Containers |-> IF c \in InHand THEN "none" ELSE result[c]]

Phase == IF pc \in {"idle", "prepare", "stop"} THEN "stopping"
         ELSE IF pc \in {"finish"} \cup Ended THEN "over"
         ELSE "replacing"

Promised == INSTANCE HostUpdate
                WITH hand <- InHand, outcome <- Outcome, phase <- Phase

(* The executor does nothing to the host or to its report that HostUpdate  *)
(* does not allow: it replaces one container at a time, gives each outcome *)
(* once, does not touch what has one and keeps the images of everything    *)
(* else (execute_update_plan, all of its paths).                           *)
ImplementsHostUpdate == Promised!Spec
=============================================================================
