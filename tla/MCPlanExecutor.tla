--------------------------- MODULE MCPlanExecutor ---------------------------
(***************************************************************************)
(* Small plans for PlanExecutor over a database and an api: both updatable, *)
(* one updatable and the other affected or only listed by the order, none. *)
(***************************************************************************)
EXTENDS HostUpdateRefinement

CONSTANTS db, api

Plan(u, a, o) == [toUpdate |-> u, affected |-> a, order |-> o]

PairOnly == {Plan({db, api}, {}, <<db, api>>)}

EveryShape == PairOnly \cup
    {Plan({db}, {api}, <<db, api>>), Plan({api}, {}, <<db, api>>),
     Plan({}, {}, <<>>)}
=============================================================================
