---------------------------- MODULE MCSharedHost ----------------------------
(***************************************************************************)
(* A database and an api that depends on it.  The plan of the database     *)
(* stops the api; the plan of the api updates it.                          *)
(***************************************************************************)
EXTENDS SharedHost

CONSTANTS db, api, s1, s2

Plan(u, a, o) == [toUpdate |-> u, affected |-> a, order |-> o]

OwnSpecs == {[c \in Containers |-> IF c = db THEN s1 ELSE s2]}

OfDatabase == {Plan({db}, {api}, <<db, api>>)}
OfApi      == {Plan({api}, {}, <<db, api>>)}

(* What tells the future of a state: states that agree in this enable the  *)
(* same steps, which lead to states that agree in it, and no property of   *)
(* the run can tell them apart.  Left out is what never changes here (what *)
(* the first run remembers, and vetoes, for there are no hooks), and what  *)
(* is not read any more: the networks of containers, the words of the      *)
(* progress records and how a run ended; what the second run remembers of  *)
(* containers its plan does not involve; the flags, once that plan has been*)
(* built; whether the latest image, which is pulled when it is not there,  *)
(* is stored; and, of a roll-back that failed, or once images were pruned, *)
(* whether the tag call was answered.                                      *)
Place(pc) == IF pc \in First!Ended THEN "done" ELSE pc

Retags(retagged, result) ==
    {c \in Containers : retagged[c] /\ result[c] # "failed" /\ ~pruned}

Future ==
    <<st, image, tag, [s \in Specs |-> kept[s] \ {Latest}], spec,
      plan1, err1, result1, Retags(retagged1, result1), Place(pc1), pos1, todo1,
      plan2, err2, result2, Retags(retagged2, result2), Place(pc2), pos2, todo2,
      [c \in Involved(plan2) |-> <<wasRunning2[c], oldImage2[c]>>],
      IF built THEN {} ELSE available, built, others>>
=============================================================================
