-------------------------- MODULE UpdatePlanSchema --------------------------
(***************************************************************************)
(* The update plan: what build_update_plan hands to execute_update_plan.   *)
(***************************************************************************)
EXTENDS Naturals, Sequences

CONSTANT Containers   \* names of the containers of a host

Involved(p) == p.toUpdate \cup p.affected

(* What the executor relies on: the order lists every involved container   *)
(* once (and perhaps containers it has nothing to do with), and no         *)
(* container is both updatable and affected.                               *)
IsPlan(p) ==
    /\ p \in [toUpdate : SUBSET Containers, affected : SUBSET Containers,
              order : Seq(Containers)]
    /\ p.toUpdate \cap p.affected = {}
    /\ \A i, j \in 1..Len(p.order) : p.order[i] = p.order[j] => i = j
    /\ \A c \in Involved(p) : \E i \in 1..Len(p.order) : p.order[i] = c
=============================================================================
