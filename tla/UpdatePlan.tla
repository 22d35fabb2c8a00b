----------------------------- MODULE UpdatePlan -----------------------------
(***************************************************************************)
(* build_update_plan: which containers of a host are updated, which are    *)
(* affected because they depend on one of those, and in which order all of *)
(* them are handled.  The selection is one step; the breadth-first search  *)
(* over the dependents, the depth-first search that sorts and the final    *)
(* filter are loops over python sets, whose order of iteration is not      *)
(* defined: each iteration is a step that picks any element.               *)
(***************************************************************************)
EXTENDS UpdatePlanSchema

CONSTANTS
    Names,      \* names a depends_on label may mention
    Projects,   \* compose ids
    Services,   \* compose service names
    Unset,      \* None
    Inputs      \* what the function may be called with

(* One call: the containers docker listed, which of them are protected and *)
(* running, what the database says of them, the settings, the containers   *)
(* of a manual run ({} for a scheduled one) and the labels.                *)
IsInput(i) ==
    i \in [listed : SUBSET Containers, protected : SUBSET Containers,
           running : SUBSET Containers, onlyRunning : BOOLEAN,
           available : SUBSET Containers, enabled : SUBSET Containers,
           delay : [Containers -> Nat \cup {Unset}], globalDelay : Nat,
           age : [Containers -> Nat \cup {Unset}],
           manual : SUBSET Containers,
           custom : [Containers -> SUBSET Names],
           project : [Containers -> Projects \cup {Unset}],
           service : [Containers -> Services \cup {Unset}],
           compose : [Containers -> SUBSET Services]]

ASSUME NamesAssumption == Containers \subseteq Names
ASSUME InputsAssumption == \A i \in Inputs : IsInput(i)
ASSUME UnsetAssumption == Unset \notin Nat \cup Projects \cup Services

VARIABLES
    input,       \* the call
    toUpdate,    \* to_update
    dependsOn,   \* depends_on_map, {} for a name that is no key
    queued,      \* the names in the queue of the search
    affected,
    roots,       \* what the loop that calls dfs has not come to
    stack,       \* the calls of dfs under way, the innermost one last
    unseen,      \* of each of them, the dependencies it has not come to
    visited,
    order,
    kept, next,  \* the filtered order, and how far the filter has come
    pc

search == <<input, dependsOn, toUpdate>>
sorting == <<roots, stack, unseen, visited, order>>
filter == <<kept, next>>
vars == <<search, queued, affected, sorting, filter, pc>>

Eligible(i, c) == c \notin i.protected /\ (c \in i.running \/ ~i.onlyRunning)

Candidates(i) == {c \in i.listed : Eligible(i, c)}

(* The delay of the container's own row, or else the global one; a missing *)
(* timestamp means no delay.                                               *)
Delayed(i, c) ==
    LET delay == IF i.delay[c] = Unset THEN i.globalDelay ELSE i.delay[c]
    IN  i.age[c] # Unset /\ i.age[c] < delay

(* A manual run that names no eligible container is taken for a scheduled  *)
(* one.                                                                    *)
Updatable(i) ==
    LET manual == {c \in i.manual : Eligible(i, c)}
    IN  IF manual # {} THEN manual \cap i.available
        ELSE {c \in Candidates(i) \cap i.available \cap i.enabled :
                 ~Delayed(i, c)}

Providers(i, p, s) ==
    {c \in Candidates(i) : i.project[c] = p /\ i.service[c] = s}

(* compose_service_names: one container for each service of a project, the *)
(* last one of the list docker returned.                                   *)
Namings(i) ==
    {f \in [Projects \X Services -> Containers] :
        \A p \in Projects, s \in Services :
            Providers(i, p, s) # {} => f[<<p, s>>] \in Providers(i, p, s)}

DependenciesOf(i, naming, c) ==
    i.custom[c] \cup
    IF i.project[c] = Unset THEN {}
    ELSE {naming[<<i.project[c], s>>] :
             s \in {t \in i.compose[c] : Providers(i, i.project[c], t) # {}}}

Graph(i, naming) ==
    [n \in Names |-> IF n \in Candidates(i) THEN DependenciesOf(i, naming, n)
                     ELSE {}]

Dependables(n) == {c \in Names : n \in dependsOn[c]}
Ids(s) == {s[k] : k \in 1..Len(s)}
Top == stack[Len(stack)]
Pop == SubSeq(stack, 1, Len(stack) - 1)
-----------------------------------------------------------------------------
Init ==
    /\ input \in Inputs
    /\ toUpdate = {}
    /\ dependsOn = [n \in Names |-> {}]
    /\ queued = {}
    /\ affected = {}
    /\ roots = {}
    /\ stack = <<>>
    /\ unseen = [n \in Names |-> {}]
    /\ visited = {}
    /\ order = <<>>
    /\ kept = <<>>
    /\ next = 1
    /\ pc = "select"

Select ==
    /\ pc = "select"
    /\ toUpdate' = Updatable(input)
    /\ \E naming \in Namings(input) : dependsOn' = Graph(input, naming)
    /\ queued' = toUpdate'
    /\ pc' = "scan"
    /\ UNCHANGED <<input, affected, sorting, filter>>

(* Mutant of Scan: only the direct dependents are found.                   *)
ScanOneLevel(n) ==
    /\ pc = "scan"
    /\ n \in queued
    /\ queued' = queued \ {n}
    /\ affected' = affected \cup (Dependables(n) \ toUpdate)
    /\ UNCHANGED <<search, sorting, filter, pc>>

(* Mutant of Scan: what has been seen is expanded again.                   *)
ScanAgain(n) ==
    /\ pc = "scan"
    /\ n \in queued
    /\ affected' = affected \cup ({n} \ toUpdate)
    /\ queued' = (queued \ {n}) \cup Dependables(n)
    /\ UNCHANGED <<search, sorting, filter, pc>>

(* One turn of the search.  Only the affected count as seen: an updatable  *)
(* container is expanded whenever it comes up.                             *)
Scan(n) ==
    /\ pc = "scan"
    /\ n \in queued
    /\ IF n \in affected
       THEN queued' = queued \ {n} /\ UNCHANGED affected
       ELSE /\ affected' = affected \cup ({n} \ toUpdate)
            /\ queued' = (queued \ {n}) \cup (Dependables(n) \ affected')
    /\ UNCHANGED <<search, sorting, filter, pc>>

(* Mutant of EndScan: only the affected are sorted.                        *)
EndScanOfAffected ==
    /\ pc = "scan"
    /\ queued = {}
    /\ roots' = affected
    /\ pc' = "sort"
    /\ UNCHANGED <<search, queued, affected, stack, unseen, visited, order,
                   filter>>

EndScan ==
    /\ pc = "scan"
    /\ queued = {}
    /\ roots' = affected \cup toUpdate
    /\ pc' = "sort"
    /\ UNCHANGED <<search, queued, affected, stack, unseen, visited, order,
                   filter>>

(* dfs(n) is called, `left' being what its caller has still to come to: it *)
(* returns at once when n has been visited.                                *)
Call(n, left) ==
    IF n \in visited
    THEN unseen' = left /\ UNCHANGED <<stack, visited>>
    ELSE /\ visited' = visited \cup {n}
         /\ stack' = Append(stack, n)
         /\ unseen' = [left EXCEPT ![n] = dependsOn[n]]

Root(n) ==
    /\ pc = "sort"
    /\ stack = <<>>
    /\ n \in roots
    /\ roots' = roots \ {n}
    /\ Call(n, unseen)
    /\ UNCHANGED <<search, queued, affected, order, filter, pc>>

Descend(n) ==
    /\ pc = "sort"
    /\ stack # <<>>
    /\ n \in unseen[Top]
    /\ Call(n, [unseen EXCEPT ![Top] = @ \ {n}])
    /\ UNCHANGED <<search, queued, affected, roots, order, filter, pc>>

(* Mutant of Leave: the order is built from its end.                       *)
LeaveFirst ==
    /\ pc = "sort"
    /\ stack # <<>>
    /\ unseen[Top] = {}
    /\ order' = <<Top>> \o order
    /\ stack' = Pop
    /\ UNCHANGED <<search, queued, affected, roots, unseen, visited, filter,
                   pc>>

Leave ==
    /\ pc = "sort"
    /\ stack # <<>>
    /\ unseen[Top] = {}
    /\ order' = Append(order, Top)
    /\ stack' = Pop
    /\ UNCHANGED <<search, queued, affected, roots, unseen, visited, filter,
                   pc>>

(* to_update and affected keep what was listed; then the order is filtered.*)
EndSort ==
    /\ pc = "sort"
    /\ stack = <<>>
    /\ roots = {}
    /\ toUpdate' = toUpdate \cap Candidates(input)
    /\ affected' = affected \cap Candidates(input)
    /\ pc' = "filter"
    /\ UNCHANGED <<input, dependsOn, queued, sorting, filter>>

Filter ==
    /\ pc = "filter"
    /\ next <= Len(order)
    /\ kept' = IF order[next] \in Candidates(input)
               THEN Append(kept, order[next]) ELSE kept
    /\ next' = next + 1
    /\ UNCHANGED <<search, queued, affected, sorting, pc>>

Return ==
    /\ pc = "filter"
    /\ next > Len(order)
    /\ pc' = "done"
    /\ UNCHANGED <<search, queued, affected, sorting, filter>>

Terminated == pc = "done" /\ UNCHANGED vars

Next ==
    \/ Select
    \/ \E n \in Names : Scan(n) \/ Root(n) \/ Descend(n)
    \/ EndScan \/ Leave \/ EndSort \/ Filter \/ Return
    \/ Terminated

Spec == Init /\ [][Next]_vars

(* Nothing is awaited from the selection on: the function runs on.         *)
FairSpec == Spec /\ WF_vars(Next)
-----------------------------------------------------------------------------
TypeOK ==
    /\ IsInput(input)
    /\ toUpdate \in SUBSET Containers
    /\ dependsOn \in [Names -> SUBSET Names]
    /\ queued \in SUBSET Names
    /\ affected \in SUBSET Names
    /\ roots \in SUBSET Names
    /\ stack \in Seq(Names)
    /\ unseen \in [Names -> SUBSET Names]
    /\ visited \in SUBSET Names
    /\ order \in Seq(Names)
    /\ kept \in Seq(Containers)
    /\ next \in Nat \ {0}
    /\ pc \in {"select", "scan", "sort", "filter", "done"}

Plan == [toUpdate |-> toUpdate, affected |-> affected, order |-> kept]

(* What is returned is what the executor relies on: each container has one *)
(* place in the order, nobody involved is left out, and nobody is both     *)
(* updatable and affected, whatever cycles the labels make.                *)
PlanIsSound == pc = "done" => IsPlan(Plan)

(* What a name depends on, directly or not: the names in every set that    *)
(* holds its dependencies and those of its members.                        *)
Closed(deps, s) == \A n \in s : deps[n] \subseteq s

Reaches(deps, c, d) ==
    \A s \in SUBSET Names : deps[c] \subseteq s /\ Closed(deps, s) => d \in s

Dependents ==
    {c \in Candidates(input) \ Updatable(input) :
        \E u \in Updatable(input) : Reaches(dependsOn, c, u)}

(* The affected containers are exactly those that depend, directly or not, *)
(* on one selected for an update, themselves not selected (breadth-first   *)
(* search of build_update_plan).                                           *)
AffectedAreDependents == pc = "done" => affected = Dependents

(* In the order a container comes after its dependencies, also when there  *)
(* are cycles: the one exception is a dependency that depends on it in     *)
(* turn (depth-first search of build_update_plan).                         *)
DependenciesFirst ==
    pc = "done" =>
        \A j, k \in 1..Len(kept) :
            /\ kept[j] \in dependsOn[kept[k]]
            /\ ~Reaches(dependsOn, kept[j], kept[k])
            => j < k
-----------------------------------------------------------------------------
(* The inductive invariant.                                                *)
(*                                                                         *)
(* Everything the searches have met is in one place, once.                 *)
Distinct(s) == \A j, k \in 1..Len(s) : s[j] = s[k] => j = k

Sorted ==
    /\ Distinct(stack) /\ Distinct(order)
    /\ Ids(stack) \cap Ids(order) = {}
    /\ Ids(stack) \cup Ids(order) = visited
    /\ pc \in {"select", "scan"} => visited = {}
    /\ pc \in {"filter", "done"} => stack = <<>>

(* The involved containers are waiting for dfs or have been through it.    *)
Covered ==
    /\ pc = "sort" => toUpdate \cup affected \subseteq roots \cup visited
    /\ pc \in {"filter", "done"} => toUpdate \cup affected \subseteq visited

Apart ==
    /\ toUpdate \cap affected = {}
    /\ pc = "select" => affected = {}
    /\ pc \in {"filter", "done"} =>
          toUpdate \cup affected \subseteq Candidates(input)

Kept ==
    /\ Distinct(kept)
    /\ pc \in {"select", "scan", "sort"} => kept = <<>> /\ next = 1
    /\ pc = "done" => next > Len(order)
    /\ \A n \in Ids(kept) : \E j \in 1..Len(order) : j < next /\ order[j] = n
    /\ \A j \in 1..Len(order) :
          j < next /\ order[j] \in Candidates(input) => order[j] \in Ids(kept)

(* What the first search has met depends on an updatable container, and    *)
(* has its dependents met or is waiting for its turn.                      *)
Met ==
    /\ toUpdate = Updatable(input)
    /\ \A n \in affected \cup queued :
          n \in toUpdate \/ \E u \in toUpdate : Reaches(dependsOn, n, u)
    /\ \A n \in affected \cup (toUpdate \ queued) :
          Dependables(n) \subseteq affected \cup toUpdate \cup queued

Searched ==
    /\ pc # "scan" => queued = {}
    /\ pc \in {"scan", "sort"} => Met
    /\ pc \in {"filter", "done"} => affected = Dependents

(* dfs has come to each dependency of a name on the stack that it has not  *)
(* still to come to; and every name on the stack depends on those above.   *)
Nested ==
    /\ \A n \in Ids(stack) : /\ unseen[n] \subseteq dependsOn[n]
                             /\ dependsOn[n] \ unseen[n] \subseteq visited
    /\ \A j, k \in 1..Len(stack) :
          j < k => Reaches(dependsOn, stack[j], stack[k])

(* A name in the order has its dependencies before it, but those that      *)
(* depend on it; and the filter keeps names in their order.                *)
Ordered ==
    \A k \in 1..Len(order) : \A d \in dependsOn[order[k]] :
        \/ \E j \in 1..Len(order) : j < k /\ order[j] = d
        \/ Reaches(dependsOn, d, order[k])

Follows ==
    \A j, k \in 1..Len(kept) : j < k =>
        \E m, n \in 1..Len(order) :
            m < n /\ n < next /\ order[m] = kept[j] /\ order[n] = kept[k]

IInv ==
    /\ Sorted /\ Covered /\ Apart /\ Kept
    /\ Searched /\ Nested /\ Ordered /\ Follows
=============================================================================
