----------------------------- MODULE MCSessions -----------------------------
(***************************************************************************)
(* Two tabs, one of which has two requests for data under way; those two   *)
(* can be exchanged for each other.                                        *)
(***************************************************************************)
EXTENDS Sessions, TLC

CONSTANTS t1, t2

PagesOfOne == [p \in Pages |-> t1]

Alike == Permutations(Pages)
=============================================================================
