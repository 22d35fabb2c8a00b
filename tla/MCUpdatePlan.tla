---------------------------- MODULE MCUpdatePlan ----------------------------
(***************************************************************************)
(* Hosts of three containers for UpdatePlan: every dependency graph over   *)
(* custom labels, a compose project with a scaled service, and every       *)
(* selection; and the reference definitions of what the searches compute.  *)
(***************************************************************************)
EXTENDS UpdatePlan, FiniteSets, TLC

G == INSTANCE Graphs

CONSTANTS db, api, fe, ghost, project, database, web

(* A call about three running containers with nothing else to say.         *)
Plain ==
    [listed |-> Containers, protected |-> {}, running |-> Containers,
     onlyRunning |-> TRUE, available |-> {}, enabled |-> Containers,
     delay |-> [c \in Containers |-> Unset], globalDelay |-> 0,
     age |-> [c \in Containers |-> Unset], manual |-> {},
     custom |-> [c \in Containers |-> {}],
     project |-> [c \in Containers |-> Unset],
     service |-> [c \in Containers |-> Unset],
     compose |-> [c \in Containers |-> {}]]

With(changes) == changes @@ Plain

DependencyGraph(nodes, deps) ==
    [node |-> nodes, edge |-> {e \in nodes \X nodes : e[2] \in deps[e[1]]}]

CyclicUpdates(i) ==
    G!HasCycle(DependencyGraph(Updatable(i), i.custom))

(* Every graph over custom labels and every set of available updates.      *)
Graphs3 ==
    {With([available |-> u, custom |-> g]) :
        u \in SUBSET Containers, g \in [Containers -> SUBSET Containers]}

(* Where no cycle consists of updatable containers alone.                  *)
TameGraphs == {i \in Graphs3 : ~CyclicUpdates(i)}

(* Two containers that name each other, both to be updated.                *)
MutualUpdates ==
    {With([available |-> {db, api},
           custom |-> (db :> {api}) @@ (api :> {db}) @@ (fe :> {})])}

(* fe depends on api, api on db and on a container that is not there; who  *)
(* is protected, stopped, gone by the time of the listing, asked for by    *)
(* hand, enabled and delayed varies.                                       *)
Chain == (fe :> {api}) @@ (api :> {db, ghost}) @@ (db :> {})

Selections ==
    {With([custom |-> Chain, available |-> a, enabled |-> e, manual |-> m,
           protected |-> p, running |-> r, onlyRunning |-> o, listed |-> l,
           globalDelay |-> 2, age |-> [Plain.age EXCEPT ![db] = d]]) :
        a \in {{db}, {api}, {db, api}}, e \in {{api}, Containers},
        m \in {{}, {api}, Containers}, p \in {{}, {api}},
        r \in {{db, fe}, Containers}, o \in BOOLEAN,
        l \in {{db, fe}, Containers}, d \in {Unset, 1, 2}}

(* A compose project: fe depends on the service db and api are two         *)
(* replicas of.                                                            *)
Replicas ==
    {With([available |-> a,
           project |-> [c \in Containers |-> project],
           service |-> (fe :> web) @@ [c \in Containers |-> database],
           compose |-> (fe :> {database}) @@ [c \in Containers |-> {}]]) :
        a \in {{db}, {api}, {fe}, Containers}}

AllInputs == TameGraphs \cup Selections \cup Replicas
-----------------------------------------------------------------------------
(* The closure that the properties speak of is reachability in a graph.    *)
ASSUME ReachesIsReachability ==
    \A g \in [Containers -> SUBSET Containers] :
        LET deps == g @@ [n \in Names |-> {}]
        IN  \A c \in Names :
                {d \in Names : Reaches(deps, c, d)}
                    = G!Descendants(DependencyGraph(Names, deps), c)

(* A topological execution order is built from the dependency graph        *)
(* (docs/CHECK_AND_UPDATE.md): a call returns.                             *)
PlanIsBuilt == <>(pc = "done")
=============================================================================
