-------------------------- MODULE UpdatePlanProofs --------------------------
(***************************************************************************)
(* Theorems about UpdatePlan for any set of containers, any labels and any *)
(* selection: what it returns is a plan PlanExecutor may rely on, holds    *)
(* exactly the dependents of what is updated, and is ordered by the        *)
(* dependencies as far as they are not circular.                           *)
(***************************************************************************)
EXTENDS UpdatePlan, TLAPS

(* What the pure part of the function computes has the types the searches  *)
(* need.                                                                   *)
LEMMA SelectionTypes ==
    ASSUME NEW i, IsInput(i)
    PROVE  /\ Candidates(i) \subseteq Containers
           /\ Updatable(i) \subseteq Containers
           /\ \A naming \in Namings(i) : Graph(i, naming) \in [Names -> SUBSET Names]
<1>1. Candidates(i) \subseteq Containers
  BY DEF Candidates, IsInput
<1>2. Updatable(i) \subseteq Containers
  BY <1>1 DEF Updatable, IsInput
<1>3. ASSUME NEW naming \in Namings(i)
      PROVE  Graph(i, naming) \in [Names -> SUBSET Names]
  <2>1. ASSUME NEW c \in Candidates(i)
        PROVE  DependenciesOf(i, naming, c) \subseteq Names
    <3>1. i.custom[c] \subseteq Names
      BY <1>1, <2>1 DEF IsInput
    <3>2. ASSUME i.project[c] # Unset, NEW s \in i.compose[c]
          PROVE  naming[<<i.project[c], s>>] \in Names
      <4>1. i.project[c] \in Projects /\ s \in Services
        BY <1>1, <2>1, <3>2 DEF IsInput
      <4>2. naming[<<i.project[c], s>>] \in Containers
        BY <4>1 DEF Namings
      <4>. QED
        BY <4>2, NamesAssumption
    <3>. QED
      BY <3>1, <3>2 DEF DependenciesOf
  <2>. QED
    BY <2>1 DEF Graph
<1>. QED
  BY <1>1, <1>2, <1>3

(* A call of dfs, whoever makes it.                                        *)
LEMMA CallTypes ==
    ASSUME TypeOK, NEW n \in Names, NEW left \in [Names -> SUBSET Names],
           Call(n, left)
    PROVE  /\ stack' \in Seq(Names)
           /\ visited' \in SUBSET Names
           /\ unseen' \in [Names -> SUBSET Names]
<1>1. CASE n \in visited
  BY <1>1 DEF Call, TypeOK
<1>2. CASE n \notin visited
  <2>1. stack' = Append(stack, n) /\ visited' = visited \cup {n}
    BY <1>2 DEF Call
  <2>2. unseen' = [left EXCEPT ![n] = dependsOn[n]]
    BY <1>2 DEF Call
  <2>3. dependsOn[n] \in SUBSET Names
    BY DEF TypeOK
  <2>4. unseen' \in [Names -> SUBSET Names]
    BY <2>2, <2>3
  <2>. QED
    BY <2>1, <2>4 DEF TypeOK
<1>. QED
  BY <1>1, <1>2

(* Every variable keeps its type.                                          *)
THEOREM TypeCorrect == Spec => []TypeOK
<1>1. Init => TypeOK
  BY InputsAssumption DEF Init, TypeOK
<1>2. TypeOK /\ [Next]_vars => TypeOK'
  <2> SUFFICES ASSUME TypeOK, [Next]_vars PROVE TypeOK'
    OBVIOUS
  <2> USE NamesAssumption, SelectionTypes DEF TypeOK, search, sorting, filter
  <2>1. CASE UNCHANGED vars
    BY <2>1 DEF vars
  <2>2. CASE Select
    BY <2>2 DEF Select
  <2>3. ASSUME NEW n \in Names, Scan(n) PROVE TypeOK'
    BY <2>3 DEF Scan, Dependables
  <2>4. CASE EndScan
    BY <2>4 DEF EndScan
  <2>5. ASSUME NEW n \in Names, Root(n) PROVE TypeOK'
    <3>1. /\ stack' \in Seq(Names) /\ visited' \in SUBSET Names
          /\ unseen' \in [Names -> SUBSET Names]
      BY <2>5, CallTypes DEF Root
    <3>. QED
      BY <2>5, <3>1 DEF Root
  <2>6. ASSUME NEW n \in Names, Descend(n) PROVE TypeOK'
    <3>1. [unseen EXCEPT ![Top] = @ \ {n}] \in [Names -> SUBSET Names]
      BY <2>6 DEF Descend, Top
    <3>2. /\ stack' \in Seq(Names) /\ visited' \in SUBSET Names
          /\ unseen' \in [Names -> SUBSET Names]
      BY <2>6, <3>1, CallTypes DEF Descend
    <3>. QED
      BY <2>6, <3>2 DEF Descend
  <2>7. CASE Leave
    <3>1. Len(stack) \in Nat \ {0} /\ Top \in Names
      BY <2>7 DEF Leave, Top
    <3>2. Pop \in Seq(Names)
      BY <3>1 DEF Pop
    <3>. QED
      BY <2>7, <3>1, <3>2 DEF Leave
  <2>8. CASE EndSort
    BY <2>8 DEF EndSort
  <2>9. CASE Filter
    BY <2>9 DEF Filter
  <2>10. CASE Return
    BY <2>10 DEF Return
  <2>11. CASE Terminated
    BY <2>11 DEF Terminated, vars
  <2>. QED
    BY <2>1, <2>2, <2>3, <2>4, <2>5, <2>6, <2>7, <2>8, <2>9, <2>10, <2>11
    DEF Next
<1>. QED
  BY <1>1, <1>2, PTL DEF Spec

(* Putting a name that is not there at the end of a sequence without       *)
(* repetition, and taking the last one away.                               *)
LEMMA AppendIds ==
    ASSUME NEW S, NEW s \in Seq(S), NEW n \in S
    PROVE  /\ Ids(Append(s, n)) = Ids(s) \cup {n}
           /\ Distinct(s) /\ n \notin Ids(s) => Distinct(Append(s, n))
<1> DEFINE t == Append(s, n)
<1>1. /\ Len(s) \in Nat /\ Len(t) = Len(s) + 1
      /\ \A k \in 1..Len(s) : t[k] = s[k]
      /\ t[Len(s) + 1] = n
  OBVIOUS
<1>2. 1..Len(t) = 1..Len(s) \cup {Len(s) + 1}
  BY <1>1
<1> HIDE DEF t
<1>3. Ids(t) = Ids(s) \cup {n}
  BY <1>1, <1>2 DEF Ids
<1>4. Distinct(s) /\ n \notin Ids(s) => Distinct(t)
  BY <1>1, <1>2 DEF Ids, Distinct
<1>. QED
  BY <1>3, <1>4 DEF t

LEMMA NoIds == ASSUME NEW S, NEW s \in Seq(S), Ids(s) = {} PROVE s = <<>>
<1>1. Len(s) = 0
  BY DEF Ids
<1>. QED
  BY <1>1

(* What is left of a sequence without its last element.                    *)
LEMMA FrontProperties ==
    ASSUME NEW S, NEW s \in Seq(S), NEW m \in Nat, Len(s) = m + 1
    PROVE  /\ Len(SubSeq(s, 1, m)) = m
           /\ \A k \in 1..m : SubSeq(s, 1, m)[k] = s[k]
<1>1. \A k \in 1..m : s[k] \in S
  OBVIOUS
<1>2. CASE m = 0
  BY <1>2
<1>3. CASE m > 0
  BY <1>1, <1>3
<1>. QED
  BY <1>2, <1>3

(* Popping removes the top from the names on the stack.                    *)
LEMMA PopIds ==
    ASSUME NEW S, NEW s \in Seq(S), s # <<>>, Distinct(s)
    PROVE  /\ Ids(SubSeq(s, 1, Len(s) - 1)) = Ids(s) \ {s[Len(s)]}
           /\ s[Len(s)] \in Ids(s)
           /\ Distinct(SubSeq(s, 1, Len(s) - 1))
<1> DEFINE t == SubSeq(s, 1, Len(s) - 1)
<1>1. Len(s) \in Nat \ {0} /\ Len(s) - 1 \in Nat /\ Len(s) = (Len(s) - 1) + 1
  OBVIOUS
<1>2. Len(t) = Len(s) - 1 /\ \A k \in 1..Len(t) : t[k] = s[k]
  BY <1>1, FrontProperties
<1>3. 1..Len(s) = 1..Len(t) \cup {Len(s)} /\ Len(s) \notin 1..Len(t)
  BY <1>1, <1>2
<1> HIDE DEF t
<1>4. Ids(t) = Ids(s) \ {s[Len(s)]}
  BY <1>2, <1>3 DEF Ids, Distinct
<1>5. s[Len(s)] \in Ids(s)
  BY <1>1, <1>3 DEF Ids
<1>6. Distinct(t)
  BY <1>2, <1>3 DEF Distinct
<1>. QED
  BY <1>4, <1>5, <1>6 DEF t

(* What the searches have met is on the stack or in the order, once: dfs   *)
(* marks a name as it enters it, and moves it to the order as it leaves.   *)
LEMMA SortedStep ==
    ASSUME TypeOK, Sorted, [Next]_vars
    PROVE  Sorted'
<1> USE DEF search, sorting, filter
<1>1. ASSUME UNCHANGED <<stack, order, visited>>,
             pc' \in {"select", "scan"} => visited = {},
             pc' \in {"filter", "done"} => stack = <<>>
      PROVE  Sorted'
  <2>1. stack' = stack /\ order' = order /\ visited' = visited
    BY <1>1
  <2>2. /\ Distinct(stack') /\ Distinct(order')
        /\ Ids(stack') \cap Ids(order') = {}
        /\ Ids(stack') \cup Ids(order') = visited'
    BY <2>1 DEF Sorted
  <2>3. /\ pc' \in {"select", "scan"} => visited' = {}
        /\ pc' \in {"filter", "done"} => stack' = <<>>
    BY <1>1, <2>1
  <2>. QED
    BY <2>2, <2>3 DEF Sorted
<1>2. CASE UNCHANGED vars
  BY <1>1, <1>2 DEF vars, Sorted
<1>3. CASE Select
  BY <1>1, <1>3 DEF Select, Sorted
<1>4. ASSUME NEW n \in Names, Scan(n) PROVE Sorted'
  BY <1>1, <1>4 DEF Scan, Sorted
<1>5. CASE EndScan
  BY <1>1, <1>5 DEF EndScan, Sorted
<1>6. ASSUME NEW n \in Names, NEW left, Call(n, left),
             pc = "sort", UNCHANGED <<order, pc>>
      PROVE  Sorted'
  <2>1. CASE n \in visited
    BY <1>1, <1>6, <2>1 DEF Call
  <2>2. CASE n \notin visited
    <3>1. stack' = Append(stack, n) /\ visited' = visited \cup {n}
      BY <1>6, <2>2 DEF Call
    <3>2. n \notin Ids(stack) /\ n \notin Ids(order)
      BY <2>2 DEF Sorted
    <3>3. Ids(stack') = Ids(stack) \cup {n} /\ Distinct(stack')
      BY <3>1, <3>2, AppendIds DEF TypeOK, Sorted
    <3>4. Ids(order') = Ids(order) /\ Distinct(order')
      BY <1>6 DEF Sorted
    <3>. QED
      BY <1>6, <3>1, <3>2, <3>3, <3>4 DEF Sorted
  <2>. QED
    BY <2>1, <2>2
<1>7. ASSUME NEW n \in Names, Root(n) PROVE Sorted'
  BY <1>6, <1>7 DEF Root
<1>8. ASSUME NEW n \in Names, Descend(n) PROVE Sorted'
  BY <1>6, <1>8 DEF Descend
<1>9. CASE Leave
  <2>1. /\ pc = "sort" /\ stack # <<>> /\ UNCHANGED <<visited, pc>>
        /\ order' = Append(order, Top) /\ stack' = Pop
    BY <1>9 DEF Leave
  <2>2. /\ Top \in Ids(stack)
        /\ Ids(stack') = Ids(stack) \ {Top} /\ Distinct(stack')
    BY <2>1, PopIds DEF TypeOK, Sorted, Top, Pop
  <2>3. Top \notin Ids(order) /\ Top \in Names
    BY <2>2 DEF Sorted, TypeOK
  <2>4. Ids(order') = Ids(order) \cup {Top} /\ Distinct(order')
    BY <2>1, <2>3, AppendIds DEF TypeOK, Sorted
  <2>. QED
    BY <2>1, <2>2, <2>3, <2>4 DEF Sorted
<1>10. CASE EndSort
  BY <1>1, <1>10 DEF EndSort
<1>11. CASE Filter
  BY <1>1, <1>11 DEF Filter, Sorted
<1>12. CASE Return
  BY <1>1, <1>12 DEF Return, Sorted
<1>13. CASE Terminated
  BY <1>1, <1>13 DEF Terminated, vars, Sorted
<1>. QED
  BY <1>2, <1>3, <1>4, <1>5, <1>7, <1>8, <1>9, <1>10, <1>11, <1>12, <1>13
  DEF Next

(* No involved container gets lost between the searches: the roots are all *)
(* of them, and a root is only taken away as dfs visits it.                *)
LEMMA CoveredStep ==
    ASSUME TypeOK, Covered, [Next]_vars
    PROVE  Covered'
<1> USE DEF Covered, search, sorting, filter
<1>1. CASE UNCHANGED vars
  BY <1>1 DEF vars
<1>2. CASE Select \/ EndScan \/ Leave \/ Filter \/ Return \/ Terminated
  BY <1>2 DEF Select, EndScan, Leave, Filter, Return, Terminated, vars
<1>3. ASSUME NEW n \in Names, Scan(n) PROVE Covered'
  BY <1>3 DEF Scan
<1>4. ASSUME NEW n \in Names, Root(n) PROVE Covered'
  <2>1. visited' = visited \cup {n} /\ roots' = roots \ {n}
    BY <1>4 DEF Root, Call
  <2>. QED
    BY <2>1, <1>4 DEF Root
<1>5. ASSUME NEW n \in Names, Descend(n) PROVE Covered'
  <2>1. visited \subseteq visited'
    BY <1>5 DEF Descend, Call
  <2>. QED
    BY <2>1, <1>5 DEF Descend
<1>6. CASE EndSort
  BY <1>6 DEF EndSort
<1>. QED
  BY <1>1, <1>2, <1>3, <1>4, <1>5, <1>6 DEF Next

(* An updatable container is never marked as affected, and at the end both *)
(* sets hold nothing but candidates.                                       *)
LEMMA ApartStep ==
    ASSUME TypeOK, Apart, [Next]_vars
    PROVE  Apart'
<1> USE DEF Apart, search, sorting, filter
<1>1. CASE UNCHANGED vars
  BY <1>1 DEF vars
<1>2. CASE Select \/ EndScan \/ Leave
  BY <1>2 DEF Select, EndScan, Leave
<1>3. ASSUME NEW n \in Names, Scan(n) PROVE Apart'
  BY <1>3 DEF Scan
<1>4. ASSUME NEW n \in Names, Root(n) \/ Descend(n) PROVE Apart'
  BY <1>4 DEF Root, Descend
<1>5. CASE EndSort
  BY <1>5 DEF EndSort
<1>6. CASE Filter \/ Return \/ Terminated
  BY <1>6 DEF Filter, Return, Terminated, vars
<1>. QED
  BY <1>1, <1>2, <1>3, <1>4, <1>5, <1>6 DEF Next

(* The filter keeps each candidate of the order, at the first and only     *)
(* place it has there.                                                     *)
LEMMA KeptStep ==
    ASSUME TypeOK, Sorted, Kept, [Next]_vars
    PROVE  Kept'
<1> USE DEF search, sorting, filter
<1>1. ASSUME UNCHANGED <<input, order, kept, next>>,
             pc' \in {"select", "scan", "sort"} => kept = <<>> /\ next = 1,
             pc' = "done" => next > Len(order)
      PROVE  Kept'
  BY <1>1 DEF Kept, Ids, Distinct
<1>2. CASE UNCHANGED vars
  BY <1>1, <1>2 DEF vars, Kept
<1>3. CASE Select \/ EndScan \/ EndSort
  BY <1>1, <1>3 DEF Select, EndScan, EndSort, Kept
<1>4. ASSUME NEW n \in Names, Scan(n) \/ Root(n) \/ Descend(n) PROVE Kept'
  BY <1>1, <1>4 DEF Scan, Root, Descend, Kept
<1>5. CASE Return \/ Terminated
  BY <1>1, <1>5 DEF Return, Terminated, vars, Kept
<1>6. CASE Leave
  <2>1. pc = "sort" /\ pc' = "sort" /\ kept' = <<>> /\ next' = 1
    BY <1>6 DEF Leave, Kept
  <2>2. Len(order') \in Nat
    BY <1>6 DEF Leave, TypeOK
  <2>. QED
    BY <2>1, <2>2 DEF Kept, Ids, Distinct
<1>7. CASE Filter
  <2> DEFINE n == order[next]
  <2>1. /\ pc = "filter" /\ pc' = "filter" /\ UNCHANGED <<input, order>>
        /\ next \in 1..Len(order) /\ next' = next + 1
    BY <1>7 DEF Filter, TypeOK
  <2>2. n \notin Ids(kept)
    BY <2>1 DEF Sorted, Distinct, Kept
  <2>3. \A j \in 1..Len(order) : j < next' <=> j < next \/ j = next
    BY <2>1
  <2>4. CASE n \in Candidates(input)
    <3>1. n \in Containers
      BY <2>4, SelectionTypes DEF TypeOK
    <3>2. kept' = Append(kept, n)
      BY <2>4, <1>7 DEF Filter
    <3>3. Ids(kept') = Ids(kept) \cup {n} /\ Distinct(kept')
      BY <2>2, <3>1, <3>2, AppendIds DEF TypeOK, Kept
    <3>. QED
      BY <2>1, <2>3, <3>3 DEF Kept
  <2>5. CASE n \notin Candidates(input)
    <3>1. kept' = kept
      BY <2>5, <1>7 DEF Filter
    <3>2. Ids(kept') = Ids(kept) /\ Distinct(kept')
      BY <3>1 DEF Kept
    <3>. QED
      BY <2>1, <2>3, <2>5, <3>2 DEF Kept
  <2>. QED
    BY <2>4, <2>5
<1>. QED
  BY <1>2, <1>3, <1>4, <1>5, <1>6, <1>7 DEF Next

(* What is reached, and what is reached from there.                        *)
LEMMA ReachesNext ==
    ASSUME NEW deps \in [Names -> SUBSET Names], NEW c \in Names, NEW d \in deps[c]
    PROVE  Reaches(deps, c, d)
  BY DEF Reaches

LEMMA ReachesOn ==
    ASSUME NEW deps \in [Names -> SUBSET Names], NEW c \in Names, NEW m \in Names,
           Reaches(deps, c, m), NEW d \in deps[m]
    PROVE  Reaches(deps, c, d)
  BY DEF Reaches, Closed

LEMMA ReachesFrom ==
    ASSUME NEW deps \in [Names -> SUBSET Names], NEW c \in Names, NEW m \in deps[c],
           NEW d, Reaches(deps, m, d)
    PROVE  Reaches(deps, c, d)
<1> SUFFICES ASSUME NEW s \in SUBSET Names, deps[c] \subseteq s, Closed(deps, s)
             PROVE  d \in s
  BY DEF Reaches
<1>1. deps[m] \subseteq s
  BY DEF Closed
<1>. QED
  BY <1>1 DEF Reaches

(* One turn of the first search.                                           *)
LEMMA ScanMeets ==
    ASSUME TypeOK, Met, NEW n \in Names, Scan(n)
    PROVE  Met'
<1>1. /\ UNCHANGED <<input, dependsOn, toUpdate>> /\ n \in queued
      /\ toUpdate = Updatable(input)
  BY DEF Scan, search, Met
<1>2. \A m \in Names : Dependables(m)' = Dependables(m)
  BY <1>1 DEF Dependables
<1>3. dependsOn \in [Names -> SUBSET Names] /\ affected \cup queued \subseteq Names
  BY DEF TypeOK
<1>4. CASE n \in affected
  <2>1. affected' = affected /\ queued' = queued \ {n}
    BY <1>4 DEF Scan
  <2>2. \A m \in affected' \cup queued' :
            m \in toUpdate' \/ \E u \in toUpdate' : Reaches(dependsOn', m, u)
    BY <1>1, <2>1 DEF Met
  <2>3. ASSUME NEW m \in affected' \cup (toUpdate' \ queued')
        PROVE  Dependables(m)' \subseteq affected' \cup toUpdate' \cup queued'
    <3>1. m \in affected \cup (toUpdate \ queued) /\ m \in Names
      BY <1>1, <1>3, <1>4, <2>1, <2>3, NamesAssumption DEF TypeOK
    <3>2. Dependables(m) \subseteq affected \cup toUpdate \cup queued
      BY <3>1 DEF Met
    <3>. QED
      BY <1>1, <1>2, <1>4, <2>1, <3>1, <3>2
  <2>. QED
    BY <1>1, <2>2, <2>3 DEF Met
<1>5. CASE n \notin affected
  <2>1. /\ affected' = affected \cup ({n} \ toUpdate)
        /\ queued' = (queued \ {n}) \cup (Dependables(n) \ affected')
    BY <1>5 DEF Scan
  <2>2. ASSUME NEW m \in affected' \cup queued'
        PROVE  m \in toUpdate \/ \E u \in toUpdate : Reaches(dependsOn, m, u)
    <3>1. CASE m \in affected \cup queued
      BY <3>1 DEF Met
    <3>2. CASE m \in Dependables(n)
      <4>1. m \in Names /\ n \in dependsOn[m]
        BY <3>2 DEF Dependables
      <4>2. CASE n \in toUpdate
        BY <1>3, <4>1, <4>2, ReachesNext
      <4>3. CASE \E u \in toUpdate : Reaches(dependsOn, n, u)
        BY <1>3, <4>1, <4>3, ReachesFrom
      <4>. QED
        BY <1>1, <4>2, <4>3 DEF Met
    <3>. QED
      BY <1>1, <2>1, <2>2, <3>1, <3>2
  <2>3. ASSUME NEW m \in affected' \cup (toUpdate \ queued')
        PROVE  Dependables(m) \subseteq affected' \cup toUpdate \cup queued'
    <3>1. CASE m = n
      BY <2>1, <3>1
    <3>2. CASE m # n
      <4>1. m \in affected \cup (toUpdate \ queued)
        BY <2>1, <2>3, <3>2
      <4>2. Dependables(m) \subseteq affected \cup toUpdate \cup queued
        BY <4>1 DEF Met
      <4>. QED
        BY <2>1, <4>2
    <3>. QED
      BY <3>1, <3>2
  <2>4. \A m \in affected' \cup (toUpdate \ queued') : m \in Names
    BY <1>3, <2>1, NamesAssumption DEF TypeOK
  <2>. QED
    BY <1>1, <1>2, <2>2, <2>3, <2>4 DEF Met
<1>. QED
  BY <1>4, <1>5

(* When the queue is empty, the affected are the dependents: the names     *)
(* that have not been met are closed under dependencies.                   *)
LEMMA DependentsAreMet ==
    ASSUME TypeOK, Apart, Met, queued = {}
    PROVE  affected \cap Candidates(input) = Dependents
<1>1. dependsOn \in [Names -> SUBSET Names] /\ Candidates(input) \subseteq Names
  BY SelectionTypes, NamesAssumption DEF TypeOK
<1>2. ASSUME NEW c \in affected \cap Candidates(input)
      PROVE  c \in Dependents
  BY <1>2 DEF Apart, Met, Dependents
<1>3. ASSUME NEW c \in Dependents, c \notin affected
      PROVE  FALSE
  <2> DEFINE s == Names \ (affected \cup toUpdate)
  <2>1. c \in Names /\ c \in s /\ \E u \in toUpdate : Reaches(dependsOn, c, u)
    BY <1>1, <1>3 DEF Dependents, Met
  <2>2. Closed(dependsOn, s)
    <3> SUFFICES ASSUME NEW n \in s, NEW d \in dependsOn[n], d \notin s
                 PROVE  FALSE
      BY DEF Closed
    <3>1. d \in affected \cup toUpdate /\ n \in Dependables(d)
      BY <1>1 DEF Dependables
    <3>2. Dependables(d) \subseteq affected \cup toUpdate
      BY <3>1 DEF Met
    <3>. QED
      BY <3>1, <3>2
  <2>3. dependsOn[c] \subseteq s
    BY <2>1, <2>2 DEF Closed
  <2>4. \A u \in toUpdate : Reaches(dependsOn, c, u) => u \in s
    BY <2>2, <2>3 DEF Reaches
  <2>. QED
    BY <2>1, <2>4
<1>. QED
  BY <1>2, <1>3 DEF Dependents

LEMMA SearchedStep ==
    ASSUME TypeOK, Apart, Searched, [Next]_vars
    PROVE  Searched'
<1> USE DEF search, sorting, filter
<1>1. ASSUME UNCHANGED <<search, queued, affected, pc>>
      PROVE  Searched'
  BY <1>1 DEF Searched, Met, Dependents, Dependables
<1>2. CASE UNCHANGED vars
  BY <1>1, <1>2 DEF vars
<1>3. CASE Select
  <2>1. /\ pc' = "scan" /\ input' = input /\ toUpdate' = Updatable(input)
        /\ queued' = toUpdate' /\ affected' = {}
    BY <1>3 DEF Select, Apart
  <2>2. Met'
    BY <2>1 DEF Met
  <2>. QED
    BY <2>1, <2>2 DEF Searched
<1>4. ASSUME NEW n \in Names, Scan(n) PROVE Searched'
  <2>1. pc = "scan" /\ pc' = "scan"
    BY <1>4 DEF Scan
  <2>2. Met'
    BY <1>4, <2>1, ScanMeets DEF Searched
  <2>. QED
    BY <2>1, <2>2 DEF Searched
<1>5. CASE EndScan
  <2>1. /\ pc = "scan" /\ pc' = "sort" /\ queued = {}
        /\ UNCHANGED <<search, queued, affected>>
    BY <1>5 DEF EndScan
  <2>2. Met'
    BY <2>1 DEF Searched, Met, Dependables
  <2>. QED
    BY <2>1, <2>2 DEF Searched
<1>6. ASSUME NEW n \in Names, Root(n) \/ Descend(n) PROVE Searched'
  BY <1>1, <1>6 DEF Root, Descend
<1>7. CASE Leave \/ Filter \/ Terminated
  BY <1>1, <1>7 DEF Leave, Filter, Terminated, vars
<1>8. CASE EndSort
  <2>1. /\ pc = "sort" /\ pc' = "filter" /\ UNCHANGED <<input, dependsOn, queued>>
        /\ affected' = affected \cap Candidates(input)
    BY <1>8 DEF EndSort
  <2>2. affected \cap Candidates(input) = Dependents
    BY <2>1, DependentsAreMet DEF Searched
  <2>3. Dependents' = Dependents
    BY <2>1 DEF Dependents
  <2>. QED
    BY <2>1, <2>2, <2>3 DEF Searched
<1>9. CASE Return
  <2>1. pc = "filter" /\ pc' = "done" /\ UNCHANGED <<search, queued, affected>>
    BY <1>9 DEF Return
  <2>2. Dependents' = Dependents
    BY <2>1 DEF Dependents
  <2>. QED
    BY <2>1, <2>2 DEF Searched
<1>. QED
  BY <1>2, <1>3, <1>4, <1>5, <1>6, <1>7, <1>8, <1>9 DEF Next

(* A call of dfs keeps the stack a path of dependencies.                   *)
LEMMA CallNests ==
    ASSUME TypeOK, Sorted, Nested, dependsOn' = dependsOn,
           NEW n \in Names, NEW left \in [Names -> SUBSET Names], Call(n, left),
           \A m \in Ids(stack) : /\ left[m] \subseteq dependsOn[m]
                                 /\ dependsOn[m] \ left[m] \subseteq visited \cup {n},
           stack # <<>> => n \in dependsOn[Top]
    PROVE  Nested'
<1>1. CASE n \in visited
  <2>1. unseen' = left /\ stack' = stack /\ visited' = visited
    BY <1>1 DEF Call
  <2>2. \A m \in Ids(stack') : /\ unseen'[m] \subseteq dependsOn'[m]
                               /\ dependsOn'[m] \ unseen'[m] \subseteq visited'
    BY <1>1, <2>1
  <2>. QED
    BY <2>1, <2>2 DEF Nested
<1>2. CASE n \notin visited
  <2>1. /\ visited' = visited \cup {n} /\ stack' = Append(stack, n)
        /\ unseen' = [left EXCEPT ![n] = dependsOn[n]]
    BY <1>2 DEF Call
  <2>2. /\ unseen'[n] = dependsOn[n]
        /\ \A m \in Names : m # n => unseen'[m] = left[m]
    BY <2>1
  <2>3. Ids(stack') = Ids(stack) \cup {n} /\ Ids(stack) \subseteq Names \ {n}
    BY <1>2, <2>1, AppendIds DEF TypeOK, Sorted
  <2>4. \A m \in Ids(stack') : /\ unseen'[m] \subseteq dependsOn'[m]
                               /\ dependsOn'[m] \ unseen'[m] \subseteq visited'
    BY <2>1, <2>2, <2>3
  <2>5. /\ Len(stack) \in Nat /\ Len(stack') = Len(stack) + 1
        /\ \A k \in 1..Len(stack) : stack'[k] = stack[k] /\ stack[k] \in Names
        /\ stack'[Len(stack) + 1] = n
    BY <2>1 DEF TypeOK
  <2>6. ASSUME NEW j \in 1..Len(stack), NEW k \in 1..Len(stack), j < k
        PROVE  Reaches(dependsOn, stack'[j], stack'[k])
    BY <2>5, <2>6 DEF Nested
  <2>7. ASSUME NEW j \in 1..Len(stack)
        PROVE  Reaches(dependsOn, stack'[j], n)
    <3>1. /\ stack # <<>> /\ Top \in Names /\ Top = stack[Len(stack)]
          /\ Len(stack) \in 1..Len(stack) /\ n \in dependsOn[Top]
      BY <2>5, <2>7 DEF Top, TypeOK
    <3>2. CASE j = Len(stack)
      BY <2>5, <3>1, <3>2, ReachesNext DEF TypeOK
    <3>3. CASE j < Len(stack)
      <4>1. Reaches(dependsOn, stack[j], Top)
        BY <3>1, <3>3 DEF Nested
      <4>. QED
        BY <2>5, <3>1, <4>1, ReachesOn DEF TypeOK
    <3>. QED
      BY <2>5, <3>2, <3>3
  <2>8. ASSUME NEW j \in 1..Len(stack'), NEW k \in 1..Len(stack'), j < k
        PROVE  Reaches(dependsOn, stack'[j], stack'[k])
    <3>1. j \in 1..Len(stack) /\ (k \in 1..Len(stack) \/ k = Len(stack) + 1)
      BY <2>5, <2>8
    <3>. QED
      BY <2>5, <2>6, <2>7, <2>8, <3>1
  <2>. QED
    BY <2>4, <2>8 DEF Nested
<1>. QED
  BY <1>1, <1>2

LEMMA NestedStep ==
    ASSUME TypeOK, Sorted, Nested, [Next]_vars
    PROVE  Nested'
<1> USE DEF search, sorting, filter
<1>1. ASSUME UNCHANGED <<dependsOn, stack, unseen, visited>>
      PROVE  Nested'
  BY <1>1 DEF Nested, Ids
<1>2. CASE UNCHANGED vars
  BY <1>1, <1>2 DEF vars
<1>3. CASE Select
  <2>1. stack' = <<>>
    <3>1. stack' = stack /\ Ids(stack) = {}
      BY <1>3 DEF Select, Sorted
    <3>. QED
      BY <3>1, NoIds DEF TypeOK
  <2>. QED
    BY <2>1 DEF Nested, Ids
<1>4. ASSUME NEW n \in Names, Scan(n) PROVE Nested'
  BY <1>1, <1>4 DEF Scan
<1>5. ASSUME NEW n \in Names, Root(n) PROVE Nested'
  <2>1. stack = <<>> /\ dependsOn' = dependsOn /\ Call(n, unseen)
    BY <1>5 DEF Root
  <2>2. Ids(stack) = {}
    BY <2>1 DEF Ids
  <2>. QED
    BY <2>1, <2>2, CallNests DEF TypeOK
<1>6. ASSUME NEW n \in Names, Descend(n) PROVE Nested'
  <2> DEFINE left == [unseen EXCEPT ![Top] = @ \ {n}]
  <2>1. /\ stack # <<>> /\ n \in unseen[Top] /\ dependsOn' = dependsOn
        /\ Call(n, left)
    BY <1>6 DEF Descend
  <2>2. Top \in Ids(stack) /\ Ids(stack) \subseteq Names
    BY <2>1, PopIds DEF TypeOK, Sorted, Top, Ids
  <2>3. /\ left \in [Names -> SUBSET Names] /\ left[Top] = unseen[Top] \ {n}
        /\ \A m \in Names : m # Top => left[m] = unseen[m]
    BY <2>2 DEF TypeOK
  <2>4. n \in dependsOn[Top]
    BY <2>1, <2>2 DEF Nested
  <2> HIDE DEF left
  <2>5. \A m \in Ids(stack) : /\ left[m] \subseteq dependsOn[m]
                              /\ dependsOn[m] \ left[m] \subseteq visited \cup {n}
    BY <2>2, <2>3 DEF Nested
  <2>. QED
    BY <2>1, <2>3, <2>4, <2>5, CallNests
<1>7. CASE Leave
  <2>1. /\ stack # <<>> /\ stack' = Pop /\ UNCHANGED <<dependsOn, unseen, visited>>
    BY <1>7 DEF Leave
  <2>2. Ids(stack') \subseteq Ids(stack)
    BY <2>1, PopIds DEF TypeOK, Sorted, Pop
  <2>3. Len(stack) \in Nat /\ Len(stack') = Len(stack) - 1
        /\ \A k \in 1..Len(stack') : stack'[k] = stack[k] /\ k \in 1..Len(stack)
    <3>1. Len(stack) \in Nat \ {0} /\ Len(stack) - 1 \in Nat
          /\ Len(stack) = (Len(stack) - 1) + 1
      BY <2>1 DEF TypeOK
    <3>2. Len(stack') = Len(stack) - 1 /\ \A k \in 1..Len(stack) - 1 : stack'[k] = stack[k]
      BY <2>1, <3>1, FrontProperties DEF TypeOK, Pop
    <3>. QED
      BY <3>1, <3>2
  <2>. QED
    BY <2>1, <2>2, <2>3 DEF Nested
<1>8. CASE EndScan \/ EndSort \/ Filter \/ Return \/ Terminated
  BY <1>1, <1>8 DEF EndScan, EndSort, Filter, Return, Terminated, vars
<1>. QED
  BY <1>2, <1>3, <1>4, <1>5, <1>6, <1>7, <1>8 DEF Next

(* A name that is left has its dependencies in the order already, or below *)
(* it on the stack; those depend on it.                                    *)
LEMMA OrderedStep ==
    ASSUME TypeOK, Sorted, Nested, Ordered, [Next]_vars
    PROVE  Ordered'
<1> USE DEF search, sorting, filter
<1>1. ASSUME UNCHANGED <<dependsOn, order>>
      PROVE  Ordered'
  BY <1>1 DEF Ordered
<1>2. CASE UNCHANGED vars
  BY <1>1, <1>2 DEF vars
<1>3. CASE Select
  <2>1. order' = <<>>
    <3>1. order' = order /\ Ids(order) = {}
      BY <1>3 DEF Select, Sorted
    <3>. QED
      BY <3>1, NoIds DEF TypeOK
  <2>. QED
    BY <2>1 DEF Ordered
<1>4. ASSUME NEW n \in Names, Scan(n) \/ Root(n) \/ Descend(n) PROVE Ordered'
  BY <1>1, <1>4 DEF Scan, Root, Descend
<1>5. CASE Leave
  <2>1. /\ stack # <<>> /\ unseen[Top] = {} /\ order' = Append(order, Top)
        /\ dependsOn' = dependsOn
    BY <1>5 DEF Leave
  <2>2. /\ Len(stack) \in Nat \ {0} /\ Top = stack[Len(stack)] /\ Top \in Names
        /\ Top \in Ids(stack) /\ \A k \in 1..Len(stack) : stack[k] \in Names
    BY <2>1 DEF TypeOK, Top, Ids
  <2>3. /\ Len(order) \in Nat /\ Len(order') = Len(order) + 1
        /\ \A k \in 1..Len(order) : order'[k] = order[k]
        /\ order'[Len(order) + 1] = Top
    BY <2>1, <2>2 DEF TypeOK
  <2>4. ASSUME NEW d \in dependsOn[Top]
        PROVE  \/ \E j \in 1..Len(order) : order[j] = d
               \/ Reaches(dependsOn, d, Top)
    <3>1. d \in Ids(stack) \cup Ids(order)
      BY <2>1, <2>2 DEF Nested, Sorted
    <3>2. CASE d \in Ids(order)
      BY <3>2 DEF Ids
    <3>3. CASE d \in Ids(stack)
      <4>1. PICK k \in 1..Len(stack) : d = stack[k]
        BY <3>3 DEF Ids
      <4>2. CASE k = Len(stack)
        BY <2>2, <4>1, <4>2, ReachesNext DEF TypeOK
      <4>3. CASE k < Len(stack)
        BY <2>2, <4>1, <4>3 DEF Nested
      <4>. QED
        BY <2>2, <4>2, <4>3
    <3>. QED
      BY <3>1, <3>2, <3>3
  <2>5. ASSUME NEW k \in 1..Len(order'), NEW d \in dependsOn[order'[k]]
        PROVE  \/ \E j \in 1..Len(order') : j < k /\ order'[j] = d
               \/ Reaches(dependsOn, d, order'[k])
    <3>1. CASE k \in 1..Len(order)
      <4>1. \/ \E j \in 1..Len(order) : j < k /\ order[j] = d
            \/ Reaches(dependsOn, d, order[k])
        BY <2>3, <2>5, <3>1 DEF Ordered
      <4>. QED
        BY <2>3, <3>1, <4>1
    <3>2. CASE k = Len(order) + 1
      BY <2>3, <2>4, <2>5, <3>2
    <3>. QED
      BY <2>3, <3>1, <3>2
  <2>. QED
    BY <2>1, <2>5 DEF Ordered
<1>6. CASE EndScan \/ EndSort \/ Filter \/ Return \/ Terminated
  BY <1>1, <1>6 DEF EndScan, EndSort, Filter, Return, Terminated, vars
<1>. QED
  BY <1>2, <1>3, <1>4, <1>5, <1>6 DEF Next

(* What the filter keeps next comes later in the order than all it has     *)
(* kept.                                                                   *)
LEMMA FollowsStep ==
    ASSUME TypeOK, Kept, Follows, [Next]_vars
    PROVE  Follows'
<1> USE DEF search, sorting, filter
<1>1. ASSUME UNCHANGED <<order, kept, next>>
      PROVE  Follows'
  BY <1>1 DEF Follows
<1>2. CASE UNCHANGED vars
  BY <1>1, <1>2 DEF vars
<1>3. CASE Select \/ EndScan \/ EndSort \/ Return \/ Terminated
  BY <1>1, <1>3 DEF Select, EndScan, EndSort, Return, Terminated, vars
<1>4. ASSUME NEW n \in Names, Scan(n) \/ Root(n) \/ Descend(n) PROVE Follows'
  BY <1>1, <1>4 DEF Scan, Root, Descend
<1>5. CASE Leave
  <2>1. kept' = <<>>
    BY <1>5 DEF Leave, Kept
  <2>. QED
    BY <2>1 DEF Follows
<1>6. CASE Filter
  <2>1. /\ order' = order /\ next \in 1..Len(order) /\ next' = next + 1
        /\ kept' \in {kept, Append(kept, order[next])}
        /\ kept' # kept => order[next] \in Candidates(input)
    BY <1>6 DEF Filter, TypeOK
  <2>2. CASE kept' = kept
    <3>1. \A n \in 1..Len(order) : n < next => n < next'
      BY <2>1
    <3>2. ASSUME NEW j \in 1..Len(kept), NEW k \in 1..Len(kept), j < k
          PROVE  \E m, n \in 1..Len(order) :
                     m < n /\ n < next' /\ order[m] = kept[j] /\ order[n] = kept[k]
      <4>1. PICK m, n \in 1..Len(order) :
                m < n /\ n < next /\ order[m] = kept[j] /\ order[n] = kept[k]
        BY <3>2 DEF Follows
      <4>. QED
        BY <3>1, <4>1
    <3>. QED
      BY <2>1, <2>2, <3>2 DEF Follows
  <2>3. CASE kept' # kept
    <3>1. /\ Len(kept) \in Nat /\ Len(kept') = Len(kept) + 1
          /\ \A k \in 1..Len(kept) : kept'[k] = kept[k]
          /\ kept'[Len(kept) + 1] = order[next]
      BY <2>1, <2>3 DEF TypeOK
    <3>2. ASSUME NEW j \in 1..Len(kept), NEW k \in 1..Len(kept), j < k
          PROVE  \E m, n \in 1..Len(order) :
                     m < n /\ n < next' /\ order[m] = kept'[j] /\ order[n] = kept'[k]
      <4>1. PICK m, n \in 1..Len(order) :
                m < n /\ n < next /\ order[m] = kept[j] /\ order[n] = kept[k]
        BY <3>2 DEF Follows
      <4>2. n < next'
        BY <2>1, <4>1
      <4>. QED
        BY <3>1, <4>1, <4>2
    <3>3. ASSUME NEW j \in 1..Len(kept)
          PROVE  \E m, n \in 1..Len(order) :
                     m < n /\ n < next' /\ order[m] = kept'[j] /\ order[n] = order[next]
      <4>1. kept[j] \in Ids(kept)
        BY DEF Ids
      <4>2. PICK m \in 1..Len(order) : m < next /\ order[m] = kept[j]
        BY <4>1 DEF Kept
      <4>3. next < next'
        BY <2>1
      <4>. QED
        BY <2>1, <3>1, <4>2, <4>3
    <3>4. ASSUME NEW j \in 1..Len(kept'), NEW k \in 1..Len(kept'), j < k
          PROVE  \E m, n \in 1..Len(order) :
                     m < n /\ n < next' /\ order[m] = kept'[j] /\ order[n] = kept'[k]
      <4>1. j \in 1..Len(kept) /\ (k \in 1..Len(kept) \/ k = Len(kept) + 1)
        BY <3>1, <3>4
      <4>. QED
        BY <3>1, <3>2, <3>3, <3>4, <4>1
    <3>. QED
      BY <2>1, <3>4 DEF Follows
  <2>. QED
    BY <2>2, <2>3
<1>. QED
  BY <1>2, <1>3, <1>4, <1>5, <1>6 DEF Next

(* Nothing has been searched or sorted at the start.                       *)
LEMMA InitIInv == Init => IInv
<1> SUFFICES ASSUME Init PROVE IInv
  OBVIOUS
<1>1. Sorted /\ Covered /\ Apart /\ Kept
  BY DEF Init, Sorted, Covered, Apart, Kept, Ids, Distinct
<1>2. Searched /\ Nested /\ Ordered /\ Follows
  BY DEF Init, Searched, Nested, Ordered, Follows, Ids
<1>. QED
  BY <1>1, <1>2 DEF IInv

(* The invariant the soundness of the plan rests on.                       *)
THEOREM Invariance == Spec => []IInv
<1>1. TypeOK /\ IInv /\ [Next]_vars => IInv'
  BY SortedStep, CoveredStep, ApartStep, KeptStep,
     SearchedStep, NestedStep, OrderedStep, FollowsStep DEF IInv
<1>. QED
  BY <1>1, InitIInv, TypeCorrect, PTL DEF Spec

(* Whatever the labels say - cycles, names of containers that do not exist *)
(* - a plan that is returned has each involved container in its order      *)
(* exactly once: the assumption PlanExecutor makes of its plans.           *)
THEOREM PlanSoundness == Spec => []PlanIsSound
<1>1. TypeOK /\ IInv => PlanIsSound
  <2> SUFFICES ASSUME TypeOK, IInv, pc = "done" PROVE IsPlan(Plan)
    BY DEF PlanIsSound
  <2>1. Ids(order) = visited
    BY DEF IInv, Sorted, Ids
  <2>2. toUpdate \cup affected \subseteq Ids(order) \cap Candidates(input)
    BY <2>1 DEF IInv, Covered, Apart
  <2>3. \A j \in 1..Len(order) : j < next
    BY DEF IInv, Kept, TypeOK
  <2>4. Ids(order) \cap Candidates(input) \subseteq Ids(kept)
    BY <2>3 DEF IInv, Kept, Ids
  <2>5. \A c \in toUpdate \cup affected : \E k \in 1..Len(kept) : kept[k] = c
    BY <2>2, <2>4 DEF Ids
  <2>6. affected \in SUBSET Containers
    BY SelectionTypes DEF IInv, Apart, TypeOK
  <2>7. toUpdate \cap affected = {} /\ Distinct(kept)
    BY DEF IInv, Apart, Kept
  <2>. QED
    BY <2>5, <2>6, <2>7 DEF IsPlan, Involved, Plan, TypeOK, Distinct
<1>. QED
  BY <1>1, Invariance, TypeCorrect, PTL

(* The search finds all dependents of the updatable containers and nobody  *)
(* else, in any graph and in any order of its queue.                       *)
THEOREM DependentsAreFound == Spec => []AffectedAreDependents
<1>1. IInv => AffectedAreDependents
  BY DEF IInv, Searched, AffectedAreDependents
<1>. QED
  BY <1>1, Invariance, PTL

(* The order is topological wherever the graph lets it be: a dependency    *)
(* that comes later is in a cycle with the container that depends on it.   *)
THEOREM DependenciesComeFirst == Spec => []DependenciesFirst
<1>1. TypeOK /\ IInv => DependenciesFirst
  <2> SUFFICES ASSUME TypeOK, IInv, pc = "done",
                      NEW j \in 1..Len(kept), NEW k \in 1..Len(kept),
                      kept[j] \in dependsOn[kept[k]],
                      ~Reaches(dependsOn, kept[j], kept[k]), ~(j < k)
               PROVE  FALSE
    BY DEF DependenciesFirst
  <2>1. /\ Len(kept) \in Nat /\ dependsOn \in [Names -> SUBSET Names]
        /\ kept[j] \in Names /\ kept[k] \in Names
    BY NamesAssumption DEF TypeOK
  <2>2. j # k
    BY <2>1, ReachesNext
  <2>3. PICK m, n \in 1..Len(order) : m < n /\ order[m] = kept[k] /\ order[n] = kept[j]
    BY <2>1, <2>2 DEF IInv, Follows
  <2>4. PICK l \in 1..Len(order) : l < m /\ order[l] = kept[j]
    BY <2>3 DEF IInv, Ordered
  <2>5. l = n
    BY <2>3, <2>4 DEF IInv, Sorted, Distinct
  <2>. QED
    BY <2>3, <2>4, <2>5
<1>. QED
  BY <1>1, Invariance, TypeCorrect, PTL
=============================================================================
