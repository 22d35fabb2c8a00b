---------------------------- MODULE ActionsProofs ----------------------------
(***************************************************************************)
(* Theorems about Actions, for any number of runs, hosts, containers and   *)
(* places for records.                                                     *)
(***************************************************************************)
EXTENDS Actions, TLAPS, FiniteSetTheorems

-----------------------------------------------------------------------------
(* The keys of the four levels are distinct.                               *)
LEMMA KeysApart ==
    ASSUME NEW h, NEW c, NEW u, NEW g, NEW d, NEW v
    PROVE  /\ AllKey # HostKey(h)
           /\ AllKey # PlanKey(h, u)
           /\ AllKey # ContainerKey(h, c)
           /\ HostKey(h) # PlanKey(g, u)
           /\ HostKey(h) # ContainerKey(g, c)
           /\ PlanKey(h, u) # ContainerKey(g, c)
BY DEF AllKey, HostKey, PlanKey, ContainerKey

(* The keys are keys of the cache, and three of the four no plan's.        *)
LEMMA KeysAreKeys ==
    ASSUME NEW h \in Hosts, NEW c \in Containers, NEW u \in SUBSET Containers
    PROVE  /\ AllKey \in Keys
           /\ HostKey(h) \in Keys
           /\ PlanKey(h, u) \in Keys /\ PlanKey(h, u) \in PlanKeys
           /\ ContainerKey(h, c) \in Keys
           /\ AllKey \notin PlanKeys
           /\ HostKey(h) \notin PlanKeys
           /\ ContainerKey(h, c) \notin PlanKeys
BY KeysApart DEF Keys, PlanKeys

(* Reading a record changes no status, only the order of use.              *)
LEMMA GetEffect ==
    ASSUME CacheTypeOK, NEW k \in Keys, Get(k)
    PROVE  CacheTypeOK' /\ status' = status
<1>1. Used(k) \in SUBSET (Keys \X Keys)
  BY DEF Used, Without, CacheTypeOK, Recorded
<1>. QED BY <1>1 DEF Get, CacheTypeOK, Recorded

(* Forgetting a record frees its place and changes no other.               *)
LEMMA ForgetEffect ==
    ASSUME CacheTypeOK, NEW k \in Keys, Forget(k)
    PROVE  /\ CacheTypeOK'
           /\ \A j \in Keys : status'[j] \in {status[j], "none"}
<1>1. Recorded' = Recorded \ {k}
  BY DEF Forget, CacheTypeOK, Recorded
<1>2. IsFiniteSet(Recorded') /\ Cardinality(Recorded') <= Capacity
  <2>1. k \in Recorded /\ IsFiniteSet(Recorded)
        /\ Cardinality(Recorded) <= Capacity
    BY DEF Forget, CacheTypeOK
  <2>2. IsFiniteSet(Recorded \ {k})
        /\ Cardinality(Recorded \ {k}) = Cardinality(Recorded) - 1
    BY <2>1, FS_RemoveElement
  <2>3. Cardinality(Recorded) \in Nat
    BY <2>1, FS_CardinalityType
  <2>. QED
    BY <1>1, <2>1, <2>2, <2>3, CapacityAssumption
<1>3. before' \in SUBSET (Keys \X Keys)
  BY DEF Forget, Without, CacheTypeOK
<1>4. status' \in [Keys -> Statuses]
  BY DEF Forget, CacheTypeOK, Statuses
<1>5. \A j \in Keys : status'[j] \in {status[j], "none"}
  BY DEF Forget, CacheTypeOK
<1>. QED BY <1>2, <1>3, <1>4, <1>5 DEF CacheTypeOK

(* Writing a record keeps the bound, at the cost of another record.        *)
LEMMA SetEffect ==
    ASSUME CacheTypeOK, NEW k \in Keys, NEW s \in Statuses \ {"none"},
           Set(k, s)
    PROVE  /\ CacheTypeOK'
           /\ status'[k] = s
           /\ \A j \in Keys \ {k} : status'[j] \in {status[j], "none"}
<1>0. Used(k) \in SUBSET (Keys \X Keys)
  BY DEF Used, Without, CacheTypeOK, Recorded
<1>1. CASE k \in Recorded \/ Cardinality(Recorded) < Capacity
  <2>1. status' = [status EXCEPT ![k] = s] /\ before' = Used(k)
    BY <1>1 DEF Set
  <2>2. Recorded' = Recorded \cup {k}
    BY <2>1 DEF CacheTypeOK, Recorded, Statuses
  <2>3. IsFiniteSet(Recorded') /\ Cardinality(Recorded') <= Capacity
    <3>1. CASE k \in Recorded
      BY <2>2, <3>1, Recorded' = Recorded DEF CacheTypeOK
    <3>2. CASE k \notin Recorded
      <4>1. IsFiniteSet(Recorded) /\ Cardinality(Recorded) < Capacity
        BY <1>1, <3>2 DEF CacheTypeOK
      <4>2. Cardinality(Recorded) \in Nat
        BY <4>1, FS_CardinalityType
      <4>3. /\ IsFiniteSet(Recorded \cup {k})
            /\ Cardinality(Recorded \cup {k}) = Cardinality(Recorded) + 1
        BY <3>2, <4>1, FS_AddElement
      <4>. QED
        BY <2>2, <4>1, <4>2, <4>3, CapacityAssumption
    <3>. QED BY <3>1, <3>2
  <2>. QED BY <2>1, <2>3, <1>0 DEF CacheTypeOK
<1>2. CASE ~(k \in Recorded \/ Cardinality(Recorded) < Capacity)
  <2>1. PICK e \in LeastRecent :
           /\ status' = [status EXCEPT ![e] = "none", ![k] = s]
           /\ before' = {p \in Used(k) : e \notin {p[1], p[2]}}
    BY <1>2 DEF Set
  <2>2. e \in Recorded /\ e \in Keys /\ e # k
    BY <1>2 DEF LeastRecent, Recorded
  <2>3. Recorded' = (Recorded \ {e}) \cup {k}
    BY <2>1, <2>2 DEF CacheTypeOK, Recorded, Statuses
  <2>4. IsFiniteSet(Recorded \ {e})
        /\ Cardinality(Recorded \ {e}) = Cardinality(Recorded) - 1
    BY <2>2, FS_RemoveElement DEF CacheTypeOK
  <2>5. IsFiniteSet(Recorded') /\ Cardinality(Recorded') <= Capacity
    BY <1>2, <2>3, <2>4, FS_AddElement, FS_CardinalityType,
       CapacityAssumption DEF CacheTypeOK
  <2>6. status' \in [Keys -> Statuses]
    BY <2>1, <2>2 DEF CacheTypeOK, Statuses
  <2>7. before' \in SUBSET (Keys \X Keys)
    BY <2>1, <1>0
  <2>8. /\ status'[k] = s
        /\ \A j \in Keys \ {k} : status'[j] \in {status[j], "none"}
    BY <2>1, <2>2 DEF CacheTypeOK
  <2>. QED BY <2>5, <2>6, <2>7, <2>8 DEF CacheTypeOK
<1>. QED BY <1>1, <1>2

-----------------------------------------------------------------------------
(* The types of what a run keeps for itself.                               *)
LevelTypeOK ==
    /\ kind \in [Runs -> Kinds]
    /\ hostsLeft \in [Runs -> SUBSET Hosts]
    /\ host \in [Runs -> Hosts]
    /\ checksLeft \in [Runs -> SUBSET Containers]
    /\ container \in [Runs -> Containers]
    /\ plan \in [Runs -> SUBSET Containers]

(* The keys of a run are keys of the cache.                                *)
LEMMA RunKeys ==
    ASSUME TypeOK, NEW r \in Runs
    PROVE  /\ AllKey \in Keys
           /\ HostKey(host[r]) \in Keys
           /\ ThePlanKey(r) \in Keys
           /\ OneKey(r) \in Keys
BY KeysAreKeys DEF TypeOK, ThePlanKey, OneKey

(* A run that has begun shows a status of work.                            *)
LEMMA BusyType ==
    ASSUME NEW r \in Runs
    PROVE  Busy(r) \in Working
BY DEF Busy, Working

(* Every step of a run keeps the types.                                    *)
LEMMA StepTypes ==
    ASSUME TypeOK, NEW r \in Runs, Step(r)
    PROVE  CacheTypeOK' /\ LevelTypeOK' /\ pc' \in [Runs -> Labels]
<1>. CacheTypeOK /\ LevelTypeOK /\ pc \in [Runs -> Labels]
  BY DEF TypeOK, LevelTypeOK
<1>a. ASSUME NEW k \in Keys,
             NEW s \in {"PREPARING", "CHECKING", "UPDATING", "PRUNING",
                         "DONE", "ERROR"},
             Set(k, s)
      PROVE  CacheTypeOK'
  BY <1>a, SetEffect DEF Statuses, Working
<1>b. ASSUME UNCHANGED level PROVE LevelTypeOK'
  BY <1>b DEF level, LevelTypeOK
<1>c. ASSUME UNCHANGED cache PROVE CacheTypeOK'
  BY <1>c DEF cache, CacheTypeOK, Recorded
<1>d. ASSUME NEW label \in Labels, Goto(r, label)
      PROVE  pc' \in [Runs -> Labels]
  BY <1>d DEF Goto
<1>l. /\ LeaveHost(r) => pc' \in [Runs -> Labels]
      /\ LeaveOne(r) => pc' \in [Runs -> Labels]
      /\ LeavePlan(r) => pc' \in [Runs -> Labels]
  BY <1>d DEF LeaveHost, LeaveOne, LeavePlan, Labels, InAll, InHost
<1>k. /\ AllKey \in Keys /\ HostKey(host[r]) \in Keys
      /\ ThePlanKey(r) \in Keys /\ OneKey(r) \in Keys
      /\ Busy(r) \in {"PREPARING", "CHECKING", "UPDATING", "PRUNING",
                      "DONE", "ERROR"}
  BY RunKeys, BusyType DEF Working
<1>e. ASSUME NEW k \in Keys, NEW label \in Labels, Enter(r, k, label)
      PROVE  CacheTypeOK' /\ pc' \in [Runs -> Labels]
  BY <1>e, <1>a, <1>d DEF Enter
<1>g. ASSUME NEW k \in Keys, Get(k) \/ Refused(k)
      PROVE  CacheTypeOK'
  BY <1>g, GetEffect DEF Refused
<1>f. FailHost(r) => CacheTypeOK' /\ pc' \in [Runs -> Labels]
  BY <1>a, <1>l, <1>k DEF FailHost
<1>r. RaisePlan(r) => CacheTypeOK' /\ pc' \in [Runs -> Labels]
  BY <1>c, <1>d, <1>f DEF RaisePlan, Labels
<1>1. CASE StartAll(r)
  BY <1>1, <1>b, <1>d, <1>e, <1>g, <1>k DEF StartAll, Labels, InAll
<1>2. CASE ListHosts(r)
  <2>1. CacheTypeOK' /\ pc' \in [Runs -> Labels]
    BY <1>2, <1>a, <1>d, <1>k DEF ListHosts, Labels, InAll
  <2>2. LevelTypeOK'
    BY <1>2 DEF ListHosts, LevelTypeOK
  <2>. QED
    BY <2>1, <2>2
<1>3. CASE NextHost(r)
  <2>1. CacheTypeOK' /\ pc' \in [Runs -> Labels]
    BY <1>3, <1>c, <1>d DEF NextHost, Labels, InAll
  <2>2. LevelTypeOK'
    BY <1>3 DEF NextHost, LevelTypeOK
  <2>. QED
    BY <2>1, <2>2
<1>4. CASE EndAll(r)
  BY <1>4, <1>a, <1>b, <1>d, <1>k DEF EndAll, Labels
<1>5. CASE StartHost(r)
  BY <1>5, <1>b, <1>l, <1>e, <1>g, <1>k DEF StartHost, Labels, InAll, InHost
<1>6. CASE ListContainers(r)
  <2>1. CacheTypeOK' /\ pc' \in [Runs -> Labels]
    BY <1>6, <1>a, <1>d, <1>f, <1>k DEF ListContainers, Labels, InAll, InHost
  <2>2. LevelTypeOK'
    BY <1>6 DEF ListContainers, LevelTypeOK
  <2>. QED
    BY <2>1, <2>2
<1>7. CASE NextCheck(r)
  <2>1. CacheTypeOK' /\ pc' \in [Runs -> Labels]
    BY <1>7, <1>c, <1>d DEF NextCheck, Labels, InAll, InHost
  <2>2. LevelTypeOK'
    BY <1>7 DEF NextCheck, LevelTypeOK
  <2>. QED
    BY <2>1, <2>2
<1>8. CASE EndChecks(r)
  BY <1>8, <1>a, <1>b, <1>l, <1>k DEF EndChecks
<1>9. CASE Prune(r)
  BY <1>9, <1>a, <1>b, <1>d, <1>l, <1>k DEF Prune, Labels, InAll, InHost
<1>10. CASE EndPrune(r)
  BY <1>10, <1>a, <1>b, <1>l, <1>k DEF EndPrune
<1>11. CASE StartOne(r)
  BY <1>11, <1>b, <1>l, <1>e, <1>g, <1>k
     DEF StartOne, Labels, InAll, InHost, InOne
<1>12. CASE Inspect(r)
  BY <1>12, <1>a, <1>b, <1>d, <1>l, <1>k
     DEF Inspect, Labels, InAll, InHost, InOne
<1>13. CASE Lookup(r)
  BY <1>13, <1>a, <1>b, <1>l, <1>k DEF Lookup
<1>14. CASE StartPlan(r)
  BY <1>14, <1>b, <1>l, <1>e, <1>g, <1>k
     DEF StartPlan, Labels, InAll, InHost, InPlan
<1>15. CASE PreparePlan(r)
  BY <1>15, <1>a, <1>b, <1>d, <1>r, <1>k
     DEF PreparePlan, Labels, InAll, InHost, InPlan
<1>16. CASE ExecutePlan(r)
  BY <1>16, <1>a, <1>b, <1>l, <1>r, <1>k DEF ExecutePlan
<1>. QED
  BY <1>1, <1>2, <1>3, <1>4, <1>5, <1>6, <1>7, <1>8, <1>9, <1>10, <1>11,
     <1>12, <1>13, <1>14, <1>15, <1>16 DEF Step

(* Every variable keeps its type, and the cache its bound.                 *)
THEOREM TypeCorrect == Spec => []TypeOK
<1>1. Init => TypeOK
  <2>. SUFFICES ASSUME Init PROVE TypeOK
    OBVIOUS
  <2>1. Recorded = {}
    BY DEF Init, CacheInit, Recorded
  <2>2. IsFiniteSet(Recorded) /\ Cardinality(Recorded) <= Capacity
    BY <2>1, FS_EmptySet, CapacityAssumption
  <2>3. CacheTypeOK
    BY <2>2 DEF Init, CacheInit, CacheTypeOK, Statuses
  <2>. QED
    BY <2>3 DEF Init, TypeOK, Labels
<1>2. TypeOK /\ [Next]_vars => TypeOK'
  <2>. SUFFICES ASSUME TypeOK, [Next]_vars PROVE TypeOK'
    OBVIOUS
  <2>. CacheTypeOK
    BY DEF TypeOK
  <2>1. Record => lost' \in SUBSET Keys
    BY DEF Record, Vanished, TypeOK
  <2>2. ASSUME NEW r \in Runs, Request(r), Record PROVE TypeOK'
    <3>1. CacheTypeOK'
      BY <2>2 DEF Request, cache, CacheTypeOK, Recorded
    <3>2. pc' \in [Runs -> Labels] /\ plan' \in [Runs -> SUBSET Containers]
      BY <2>2 DEF Request, Goto, TypeOK, Labels, InAll, InHost
    <3>. QED
      BY <3>1, <3>2, <2>1, <2>2 DEF Request, TypeOK
  <2>3. ASSUME NEW r \in Runs, Step(r), Record PROVE TypeOK'
    BY <2>1, <2>3, StepTypes DEF TypeOK, LevelTypeOK
  <2>4. ASSUME NEW k \in Keys, Expire(k) \/ Poll(k), Record PROVE TypeOK'
    <3>1. CacheTypeOK'
      BY <2>4, GetEffect, ForgetEffect DEF Expire, Poll
    <3>. QED
      BY <3>1, <2>1, <2>4 DEF Expire, Poll, level, TypeOK
  <2>5. CASE UNCHANGED vars
    <3>1. CacheTypeOK'
      BY <2>5 DEF vars, cache, CacheTypeOK, Recorded
    <3>. QED
      BY <3>1, <2>5 DEF vars, level, TypeOK
  <2>. QED
    BY <2>2, <2>3, <2>4, <2>5 DEF Next, Terminated
<1>. QED
  BY <1>1, <1>2, PTL DEF Spec

-----------------------------------------------------------------------------
(* A step of run r touches the place of no other run.                      *)
LEMMA OnlyItsOwn ==
    ASSUME TypeOK, NEW r \in Runs, Request(r) \/ Step(r)
    PROVE  /\ kind' = kind
           /\ \A q \in Runs \ {r} :
                 /\ pc'[q] = pc[q] /\ host'[q] = host[q]
                 /\ container'[q] = container[q] /\ plan'[q] = plan[q]
<1>1. CASE Request(r)
  BY <1>1 DEF Request, Goto, TypeOK
<1>2. CASE StartAll(r) \/ ListHosts(r) \/ NextHost(r) \/ EndAll(r)
  BY <1>2 DEF StartAll, ListHosts, NextHost, EndAll, Enter, Goto, TypeOK, level
<1>3. CASE StartHost(r) \/ ListContainers(r) \/ NextCheck(r) \/ EndChecks(r)
  BY <1>3 DEF StartHost, ListContainers, NextCheck, EndChecks, Enter, Goto,
              LeaveHost, FailHost, TypeOK, level
<1>4. CASE Prune(r) \/ EndPrune(r)
  BY <1>4 DEF Prune, EndPrune, Goto, LeaveHost, TypeOK, level
<1>5. CASE StartOne(r) \/ Inspect(r) \/ Lookup(r)
  BY <1>5 DEF StartOne, Inspect, Lookup, Enter, Goto, LeaveOne, TypeOK, level
<1>6. CASE StartPlan(r) \/ PreparePlan(r) \/ ExecutePlan(r)
  BY <1>6 DEF StartPlan, PreparePlan, ExecutePlan, RaisePlan, Enter, Goto,
              LeavePlan, LeaveHost, FailHost, TypeOK, level
<1>. QED
  BY <1>1, <1>2, <1>3, <1>4, <1>5, <1>6 DEF Step

(* What a coroutine writes when it ends is a status, and not one of work.  *)
LEMMA Ended ==
    \A s \in {"DONE", "ERROR"} : s \in Statuses \ {"none"} /\ s \notin Working
BY DEF Statuses, Working

(* The part of the invariant that is about the cache.                      *)
Locks == OneRunPerKey /\ WorkIsShown /\ NoOrphanRecord

(* Nothing is written, records may go, and a run may let go of a plan.     *)
LEMMA UnwrittenLocks ==
    ASSUME TypeOK, Locks, Record,
           \A j \in Keys : status'[j] \in {status[j], "none"},
           \A q \in Runs, j \in Keys : Holds(q, j)' => Holds(q, j),
           \A q \in Runs, j \in Keys :
               Holds(q, j) => Holds(q, j)' \/ j \in PlanKeys
    PROVE  Locks'
<1>1. \A k \in Keys :
         /\ k \in lost \/ (status[k] # "none" /\ status'[k] = "none")
         /\ IsHeld(k)'
         => k \in lost'
  BY DEF Record, Vanished
<1>2. OneRunPerKey'
  BY <1>1 DEF Locks, OneRunPerKey, IsHeld
<1>3. WorkIsShown'
  BY <1>1 DEF Locks, WorkIsShown, IsHeld, Working
<1>4. NoOrphanRecord'
  BY DEF Locks, NoOrphanRecord, IsHeld, Working, Keys, PlanKeys
<1>. QED
  BY <1>2, <1>3, <1>4 DEF Locks

(* Run r writes the record of k, which it works under or may start to.     *)
LEMMA WrittenLocks ==
    ASSUME TypeOK, Locks, Record,
           NEW r \in Runs, NEW k \in Keys, NEW s \in Statuses \ {"none"},
           Set(k, s),
           Holds(r, k) \/ IsAllowedStart(k),
           Holds(r, k)' <=> s \in Working,
           \A j \in Keys : Holds(r, j)' => Holds(r, j) \/ j = k,
           \A j \in Keys :
               Holds(r, j) => Holds(r, j)' \/ j \in PlanKeys \cup {k},
           \A q \in Runs \ {r}, j \in Keys : Holds(q, j)' <=> Holds(q, j)
    PROVE  Locks'
<1>1. \A j \in Keys :
         /\ j \in lost \/ (status[j] # "none" /\ status'[j] = "none")
         /\ IsHeld(j)'
         => j \in lost'
  BY DEF Record, Vanished
<1>2. /\ status'[k] = s
      /\ \A j \in Keys \ {k} : status'[j] \in {status[j], "none"}
  BY SetEffect DEF TypeOK
<1>3. IsAllowedStart(k) => status[k] \notin Working
  BY DEF IsAllowedStart, Working
<1>4. OneRunPerKey'
  <2>. SUFFICES ASSUME NEW p \in Runs, NEW q \in Runs, NEW j \in Keys,
                       Holds(p, j)', Holds(q, j)', p # q
                PROVE  j \in lost'
    BY DEF OneRunPerKey
  <2>1. CASE p # r /\ q # r
    BY <1>1, <2>1 DEF Locks, OneRunPerKey, IsHeld
  <2>2. CASE p = r \/ q = r
    <3>1. PICK o \in Runs : o # r /\ Holds(o, j)
      BY <2>2
    <3>2. CASE Holds(r, j)
      BY <1>1, <3>1, <3>2 DEF Locks, OneRunPerKey, IsHeld
    <3>3. CASE ~Holds(r, j)
      BY <1>1, <1>3, <2>2, <3>1, <3>3 DEF Locks, WorkIsShown, IsHeld
    <3>. QED
      BY <3>2, <3>3
  <2>. QED
    BY <2>1, <2>2
<1>5. WorkIsShown'
  <2>. SUFFICES ASSUME NEW q \in Runs, NEW j \in Keys,
                       Holds(q, j)', j \notin lost'
                PROVE  status'[j] \in Working
    BY DEF WorkIsShown
  <2>1. j \notin lost /\ ~(status[j] # "none" /\ status'[j] = "none")
    BY <1>1 DEF IsHeld
  <2>2. CASE q = r /\ j = k
    BY <1>2, <2>2
  <2>3. CASE q = r /\ j # k
    BY <1>2, <2>1, <2>3 DEF Locks, WorkIsShown, Working
  <2>4. CASE q # r
    <3>1. Holds(q, j) /\ status[j] \in Working
      BY <2>1, <2>4 DEF Locks, WorkIsShown
    <3>2. j # k
      BY <1>3, <2>1, <2>4, <3>1 DEF Locks, OneRunPerKey
    <3>. QED
      BY <1>2, <2>1, <3>1, <3>2 DEF Working
  <2>. QED
    BY <2>2, <2>3, <2>4
<1>6. NoOrphanRecord'
  <2>. SUFFICES ASSUME NEW j \in Keys \ PlanKeys, status'[j] \in Working
                PROVE  IsHeld(j)'
    BY DEF NoOrphanRecord, Keys, PlanKeys
  <2>1. CASE j = k
    BY <1>2, <2>1 DEF IsHeld
  <2>2. CASE j # k
    <3>1. status[j] \in Working
      BY <1>2, <2>2 DEF Working
    <3>2. PICK q \in Runs : Holds(q, j)
      BY <3>1 DEF Locks, NoOrphanRecord, IsHeld
    <3>. QED
      BY <2>2, <3>2 DEF IsHeld
  <2>. QED
    BY <2>1, <2>2
<1>. QED
  BY <1>4, <1>5, <1>6 DEF Locks

-----------------------------------------------------------------------------
(* How a step of run r goes with what the others hold, and which keys the  *)
(* run holds at which level.                                               *)
LEMMA OthersHold ==
    ASSUME TypeOK, NEW r \in Runs, Request(r) \/ Step(r)
    PROVE  \A q \in Runs \ {r}, j \in Keys : Holds(q, j)' <=> Holds(q, j)
BY OnlyItsOwn DEF Holds

(* The runs of all hosts.                                                  *)
LEMMA AllLocks ==
    ASSUME TypeOK, Locks, RunsItsKind, Record, NEW r \in Runs,
           StartAll(r) \/ ListHosts(r) \/ NextHost(r) \/ EndAll(r)
    PROVE  Locks'
<1>0. \A q \in Runs \ {r}, j \in Keys : Holds(q, j)' <=> Holds(q, j)
  BY OthersHold DEF Step
<1>k. AllKey \in Keys
  BY RunKeys
<1>1. CASE StartAll(r) /\ Enter(r, AllKey, "listHosts")
  <2>1. pc[r] = "startAll" /\ pc'[r] = "listHosts" /\ kind[r] \in AllKinds
        /\ UNCHANGED level
    BY <1>1 DEF StartAll, Enter, Goto, TypeOK, RunsItsKind
  <2>2. Set(AllKey, "PREPARING") /\ IsAllowedStart(AllKey)
    BY <1>1 DEF Enter
  <2>3. \A j \in Keys : Holds(r, j)' <=> j = AllKey
    BY <2>1 DEF Holds, level, InAll, InHost, InPlan, InOne
  <2>4. \A j \in Keys : ~Holds(r, j)
    BY <2>1 DEF Holds, InAll, InHost, InPlan, InOne
  <2>. QED
    BY <1>0, <1>k, <2>2, <2>3, <2>4, WrittenLocks DEF Statuses, Working
<1>2. CASE StartAll(r) /\ Refused(AllKey) /\ Goto(r, "done")
  <2>1. pc[r] = "startAll" /\ pc'[r] = "done" /\ UNCHANGED level
    BY <1>2 DEF StartAll, Goto, TypeOK
  <2>2. status' = status
    BY <1>2, <1>k, GetEffect DEF Refused, TypeOK
  <2>3. \A j \in Keys : ~Holds(r, j) /\ ~Holds(r, j)'
    BY <2>1 DEF Holds, level, InAll, InHost, InPlan, InOne
  <2>. QED
    BY <1>0, <2>2, <2>3, UnwrittenLocks
<1>3. CASE ListHosts(r) /\ Set(AllKey, Busy(r)) /\ Goto(r, "nextHost")
  <2>1. pc[r] = "listHosts" /\ pc'[r] = "nextHost" /\ kind[r] \in AllKinds
        /\ UNCHANGED <<kind, host, container, plan>>
    BY <1>3 DEF ListHosts, Goto, TypeOK, RunsItsKind
  <2>2. \A j \in Keys : /\ Holds(r, j)' <=> j = AllKey
                        /\ Holds(r, j) <=> j = AllKey
    BY <2>1 DEF Holds, InAll, InHost, InPlan, InOne
  <2>. QED
    BY <1>0, <1>3, <1>k, <2>2, BusyType, WrittenLocks DEF Statuses, Working
<1>4. CASE ListHosts(r) /\ Set(AllKey, "ERROR") /\ Goto(r, "done")
  <2>1. pc[r] = "listHosts" /\ pc'[r] = "done" /\ kind[r] \in AllKinds
        /\ UNCHANGED <<kind, host, container, plan>>
    BY <1>4 DEF ListHosts, Goto, TypeOK, RunsItsKind
  <2>2. \A j \in Keys : ~Holds(r, j)' /\ (Holds(r, j) <=> j = AllKey)
    BY <2>1 DEF Holds, InAll, InHost, InPlan, InOne
  <2>. QED
    BY <1>0, <1>4, <1>k, <2>2, WrittenLocks DEF Statuses, Working
<1>5. CASE NextHost(r)
  <2>1. pc[r] = "nextHost" /\ pc'[r] \in {"nextHost", "startHost"}
        /\ kind[r] \in AllKinds /\ kind' = kind /\ status' = status
    BY <1>5 DEF NextHost, Goto, TypeOK, RunsItsKind, cache
  <2>2. \A j \in Keys : /\ Holds(r, j)' <=> j = AllKey
                        /\ Holds(r, j) <=> j = AllKey
    BY <2>1 DEF Holds, InAll, InHost, InPlan, InOne
  <2>. QED
    BY <1>0, <2>1, <2>2, UnwrittenLocks
<1>6. CASE EndAll(r)
  <2>1. pc[r] = "nextHost" /\ pc'[r] = "done" /\ kind[r] \in AllKinds
        /\ UNCHANGED level /\ Set(AllKey, "DONE")
    BY <1>6 DEF EndAll, Goto, TypeOK, RunsItsKind
  <2>2. \A j \in Keys : ~Holds(r, j)' /\ (Holds(r, j) <=> j = AllKey)
    BY <2>1 DEF Holds, level, InAll, InHost, InPlan, InOne
  <2>. QED
    BY <1>0, <1>k, <2>1, <2>2, WrittenLocks DEF Statuses, Working
<1>. QED
  BY <1>1, <1>2, <1>3, <1>4, <1>5, <1>6 DEF StartAll, ListHosts

(* The keys of the other three levels, of a run that is not between two.   *)
LEMMA RunKeysApart ==
    ASSUME NEW r \in Runs
    PROVE  /\ HostKey(host[r]) # AllKey
           /\ HostKey(host[r]) # PlanKey(host[r], plan[r])
           /\ HostKey(host[r]) # ContainerKey(host[r], container[r])
           /\ PlanKey(host[r], plan[r]) # AllKey
           /\ PlanKey(host[r], plan[r]) # ContainerKey(host[r], container[r])
           /\ ContainerKey(host[r], container[r]) # AllKey
BY KeysApart

(* The runs of a host.                                                     *)
LEMMA HostLocks ==
    ASSUME TypeOK, Locks, RunsItsKind, Record, NEW r \in Runs,
           \/ StartHost(r) \/ ListContainers(r) \/ NextCheck(r)
           \/ EndChecks(r) \/ Prune(r) \/ EndPrune(r)
    PROVE  Locks'
<1>0. \A q \in Runs \ {r}, j \in Keys : Holds(q, j)' <=> Holds(q, j)
  BY OthersHold DEF Step
<1>k. HostKey(host[r]) \in Keys
  BY RunKeys
<1>1. CASE StartHost(r) /\ Enter(r, HostKey(host[r]), "listContainers")
  <2>1. pc[r] = "startHost" /\ pc'[r] = "listContainers"
        /\ kind[r] \in AllKinds \cup HostKinds /\ UNCHANGED level
    BY <1>1 DEF StartHost, Enter, Goto, TypeOK, RunsItsKind
  <2>2. Set(HostKey(host[r]), "PREPARING") /\ IsAllowedStart(HostKey(host[r]))
    BY <1>1 DEF Enter
  <2>3. \A j \in Keys : Holds(r, j)' <=> Holds(r, j) \/ j = HostKey(host[r])
    BY <2>1 DEF Holds, level, InAll, InHost, InPlan, InOne
  <2>. QED
    BY <1>0, <1>k, <2>2, <2>3, WrittenLocks DEF Statuses, Working
<1>2. CASE StartHost(r) /\ Refused(HostKey(host[r])) /\ LeaveHost(r)
  <2>1. pc[r] = "startHost" /\ UNCHANGED level
        /\ pc'[r] = IF kind[r] \in AllKinds THEN "nextHost" ELSE "done"
    BY <1>2 DEF StartHost, LeaveHost, Goto, TypeOK
  <2>2. status' = status
    BY <1>2, <1>k, GetEffect DEF Refused, TypeOK
  <2>3. \A j \in Keys : Holds(r, j)' <=> Holds(r, j)
    BY <2>1 DEF Holds, level, InAll, InHost, InPlan, InOne
  <2>. QED
    BY <1>0, <2>2, <2>3, UnwrittenLocks
<1>3. ASSUME NEW s \in {"DONE", "ERROR"},
             Set(HostKey(host[r]), s), LeaveHost(r),
             pc[r] \in InHost \ (InPlan \cup InOne),
             kind[r] \in AllKinds \cup HostKinds,
             UNCHANGED <<kind, host, container>>
      PROVE  Locks'
  <2>1. pc'[r] = IF kind[r] \in AllKinds THEN "nextHost" ELSE "done"
    BY <1>3 DEF LeaveHost, Goto, TypeOK
  <2>2. Holds(r, HostKey(host[r]))
    BY <1>3 DEF Holds
  <2>3. ~Holds(r, HostKey(host[r]))'
    BY <1>3, <2>1, RunKeysApart DEF Holds, InAll, InHost, InPlan, InOne
  <2>4. \A j \in Keys : /\ Holds(r, j)' => Holds(r, j)
                        /\ Holds(r, j) => Holds(r, j)' \/ j = HostKey(host[r])
    BY <1>3, <2>1 DEF Holds, InAll, InHost, InPlan, InOne
  <2>. QED
    BY <1>0, <1>k, <1>3, <2>2, <2>3, <2>4, WrittenLocks DEF Statuses, Working
<1>4. ASSUME NEW s \in Working, Set(HostKey(host[r]), s),
             pc[r] \in InHost \ (InPlan \cup InOne),
             pc'[r] \in InHost \ (InPlan \cup InOne),
             kind[r] \in AllKinds \cup HostKinds,
             UNCHANGED <<kind, host, container>>
      PROVE  Locks'
  <2>1. Holds(r, HostKey(host[r])) /\ Holds(r, HostKey(host[r]))'
    BY <1>4 DEF Holds
  <2>2. \A j \in Keys : Holds(r, j)' <=> Holds(r, j)
    BY <1>4 DEF Holds, InAll
  <2>. QED
    BY <1>0, <1>k, <1>4, <2>1, <2>2, WrittenLocks DEF Statuses, Working
<1>5. CASE ListContainers(r)
  <2>1. pc[r] = "listContainers" /\ kind[r] \in AllKinds \cup HostKinds
        /\ UNCHANGED <<kind, host, container>>
    BY <1>5 DEF ListContainers, RunsItsKind
  <2>2. CASE FailHost(r)
    BY <1>3, <2>1, <2>2 DEF FailHost, InHost, InPlan, InOne
  <2>3. CASE ~FailHost(r)
    <3>1. /\ Set(HostKey(host[r]), Busy(r))
          /\ pc'[r] \in {"nextCheck", "startPlan"}
      BY <1>5, <2>3 DEF ListContainers, Goto, TypeOK
    <3>. QED
      BY <1>4, <2>1, <3>1, BusyType DEF InHost, InPlan, InOne
  <2>. QED
    BY <2>2, <2>3
<1>6. CASE NextCheck(r)
  <2>1. pc[r] = "nextCheck" /\ pc'[r] = "startOne" /\ status' = status
        /\ UNCHANGED <<kind, host, plan>>
    BY <1>6 DEF NextCheck, Goto, TypeOK, cache
  <2>2. \A j \in Keys : Holds(r, j)' <=> Holds(r, j)
    BY <2>1 DEF Holds, InAll, InHost, InPlan, InOne
  <2>. QED
    BY <1>0, <2>1, <2>2, UnwrittenLocks
<1>7. CASE EndChecks(r) \/ EndPrune(r)
  <2>1. pc[r] \in {"nextCheck", "pruning"} /\ kind[r] \in AllKinds \cup HostKinds
    BY <1>7 DEF EndChecks, EndPrune, RunsItsKind, CheckKinds, AllKinds, HostKinds
  <2>. QED
    BY <1>3, <1>7, <2>1 DEF EndChecks, EndPrune, level, InHost, InPlan, InOne
<1>8. CASE Prune(r)
  <2>1. pc[r] = "prune" /\ kind[r] \in AllKinds \cup HostKinds /\ UNCHANGED level
    BY <1>8 DEF Prune, RunsItsKind
  <2>2. CASE Set(HostKey(host[r]), "PRUNING") /\ Goto(r, "pruning")
    <3>1. pc'[r] = "pruning"
      BY <2>2 DEF Goto, TypeOK
    <3>. QED
      BY <1>4, <2>1, <2>2, <3>1 DEF level, InHost, InPlan, InOne, Working
  <2>3. CASE Set(HostKey(host[r]), "DONE") /\ LeaveHost(r)
    BY <1>3, <2>1, <2>3 DEF level, InHost, InPlan, InOne
  <2>. QED
    BY <1>8, <2>2, <2>3 DEF Prune
<1>. QED
  BY <1>1, <1>2, <1>5, <1>6, <1>7, <1>8 DEF StartHost

(* The check of one container.                                             *)
LEMMA OneLocks ==
    ASSUME TypeOK, Locks, RunsItsKind, Record, NEW r \in Runs,
           StartOne(r) \/ Inspect(r) \/ Lookup(r)
    PROVE  Locks'
<1>0. \A q \in Runs \ {r}, j \in Keys : Holds(q, j)' <=> Holds(q, j)
  BY OthersHold DEF Step
<1>k. OneKey(r) \in Keys
  BY RunKeys
<1>u. kind[r] \in CheckKinds /\ UNCHANGED level
  BY DEF StartOne, Inspect, Lookup, RunsItsKind, InOne
<1>1. CASE StartOne(r) /\ Enter(r, OneKey(r), "inspect")
  <2>1. pc[r] = "startOne" /\ pc'[r] = "inspect"
    BY <1>1 DEF StartOne, Enter, Goto, TypeOK
  <2>2. Set(OneKey(r), "PREPARING") /\ IsAllowedStart(OneKey(r))
    BY <1>1 DEF Enter
  <2>3. \A j \in Keys : Holds(r, j)' <=> Holds(r, j) \/ j = OneKey(r)
    BY <1>u, <2>1 DEF Holds, OneKey, level, InAll, InHost, InPlan, InOne
  <2>. QED
    BY <1>0, <1>k, <2>2, <2>3, WrittenLocks DEF Statuses, Working
<1>2. CASE StartOne(r) /\ Refused(OneKey(r)) /\ LeaveOne(r)
  <2>1. pc[r] = "startOne" /\ pc'[r] \in {"nextCheck", "done"}
        /\ (pc'[r] = "done" => kind[r] = "checkOne")
    BY <1>2 DEF StartOne, LeaveOne, Goto, TypeOK
  <2>2. status' = status
    BY <1>2, <1>k, GetEffect DEF Refused, TypeOK
  <2>3. \A j \in Keys : Holds(r, j)' <=> Holds(r, j)
    BY <1>u, <2>1 DEF Holds, level, InAll, InHost, InPlan, InOne,
                      AllKinds, HostKinds
  <2>. QED
    BY <1>0, <2>2, <2>3, UnwrittenLocks
<1>3. CASE Inspect(r) /\ Set(OneKey(r), "CHECKING") /\ Goto(r, "lookup")
  <2>1. pc[r] = "inspect" /\ pc'[r] = "lookup"
    BY <1>3 DEF Inspect, Goto, TypeOK
  <2>2. Holds(r, OneKey(r)) /\ Holds(r, OneKey(r))'
    BY <1>u, <2>1 DEF Holds, OneKey, level, InOne
  <2>3. \A j \in Keys : Holds(r, j)' <=> Holds(r, j)
    BY <1>u, <2>1 DEF Holds, level, InAll, InHost, InPlan, InOne
  <2>. QED
    BY <1>0, <1>3, <1>k, <2>2, <2>3, WrittenLocks DEF Statuses, Working
<1>4. CASE /\ Inspect(r) \/ Lookup(r)
           /\ \E s \in {"DONE", "ERROR"} : Set(OneKey(r), s)
           /\ LeaveOne(r)
  <2>0. PICK s \in {"DONE", "ERROR"} : Set(OneKey(r), s)
    BY <1>4
  <2>1. pc[r] \in InOne /\ pc'[r] \in {"nextCheck", "done"}
        /\ (pc'[r] = "done" => kind[r] = "checkOne")
    BY <1>4 DEF Inspect, Lookup, LeaveOne, Goto, TypeOK, InOne
  <2>2. Holds(r, OneKey(r))
    BY <2>1 DEF Holds, OneKey
  <2>3. \A j \in Keys : j = OneKey(r) => ~Holds(r, j)'
    BY <1>u, <2>1, RunKeysApart DEF Holds, OneKey, level, InPlan, InOne
  <2>4. \A j \in Keys : /\ Holds(r, j)' => Holds(r, j)
                        /\ Holds(r, j) => Holds(r, j)' \/ j \in PlanKeys \cup {OneKey(r)}
    BY <1>u, <2>1 DEF Holds, OneKey, level, InAll, InHost, InPlan, InOne,
                      AllKinds, HostKinds
  <2>. QED
    BY <1>0, <1>k, <2>0, <2>2, <2>3, <2>4, Ended, WrittenLocks
<1>. QED
  BY <1>1, <1>2, <1>3, <1>4 DEF StartOne, Inspect, Lookup

(* The execution of a plan.                                                *)
LEMMA PlanLocks ==
    ASSUME TypeOK, Locks, RunsItsKind, Record, NEW r \in Runs,
           StartPlan(r) \/ PreparePlan(r) \/ ExecutePlan(r)
    PROVE  Locks'
<1>0. \A q \in Runs \ {r}, j \in Keys : Holds(q, j)' <=> Holds(q, j)
  BY OthersHold DEF Step
<1>k. /\ ThePlanKey(r) \in Keys /\ ThePlanKey(r) \in PlanKeys
      /\ HostKey(host[r]) \in Keys
  BY RunKeys, KeysAreKeys DEF TypeOK, ThePlanKey
<1>u. kind[r] \notin CheckKinds /\ kind[r] \in Kinds /\ UNCHANGED level
  BY DEF StartPlan, PreparePlan, ExecutePlan, RunsItsKind, InPlan, TypeOK
<1>1. CASE StartPlan(r) /\ Enter(r, ThePlanKey(r), "preparePlan")
  <2>1. pc[r] = "startPlan" /\ pc'[r] = "preparePlan"
    BY <1>1 DEF StartPlan, Enter, Goto, TypeOK
  <2>2. Set(ThePlanKey(r), "PREPARING") /\ IsAllowedStart(ThePlanKey(r))
    BY <1>1 DEF Enter
  <2>3. \A j \in Keys : Holds(r, j)' <=> Holds(r, j) \/ j = ThePlanKey(r)
    BY <1>u, <2>1 DEF Holds, ThePlanKey, level, InAll, InHost, InPlan, InOne
  <2>. QED
    BY <1>0, <1>k, <2>2, <2>3, WrittenLocks DEF Statuses, Working
<1>2. CASE StartPlan(r) /\ status' = status /\ LeavePlan(r)
  <2>1. pc[r] = "startPlan" /\ pc'[r] \in {"prune", "done"}
        /\ (pc'[r] = "done" => kind[r] = "updateOne")
    BY <1>2 DEF StartPlan, LeavePlan, Goto, TypeOK
  <2>2. \A j \in Keys : Holds(r, j)' <=> Holds(r, j)
    BY <1>u, <2>1 DEF Holds, level, InAll, InHost, InPlan, InOne,
                      AllKinds, HostKinds
  <2>. QED
    BY <1>0, <1>2, <2>2, UnwrittenLocks
<1>3. CASE PreparePlan(r) /\ Set(ThePlanKey(r), "UPDATING")
           /\ Goto(r, "executePlan")
  <2>1. pc[r] = "preparePlan" /\ pc'[r] = "executePlan"
    BY <1>3 DEF PreparePlan, Goto, TypeOK
  <2>2. Holds(r, ThePlanKey(r)) /\ Holds(r, ThePlanKey(r))'
    BY <1>u, <2>1 DEF Holds, ThePlanKey, level, InPlan
  <2>3. \A j \in Keys : Holds(r, j)' <=> Holds(r, j)
    BY <1>u, <2>1 DEF Holds, level, InAll, InHost, InPlan, InOne
  <2>. QED
    BY <1>0, <1>3, <1>k, <2>2, <2>3, WrittenLocks DEF Statuses, Working
<1>4. CASE ExecutePlan(r) /\ Set(ThePlanKey(r), "DONE") /\ LeavePlan(r)
  <2>1. pc[r] = "executePlan" /\ pc'[r] \in {"prune", "done"}
        /\ (pc'[r] = "done" => kind[r] = "updateOne")
    BY <1>4 DEF ExecutePlan, LeavePlan, Goto, TypeOK
  <2>2. Holds(r, ThePlanKey(r))
    BY <2>1 DEF Holds, ThePlanKey, InPlan
  <2>3. \A j \in Keys : j = ThePlanKey(r) => ~Holds(r, j)'
    BY <1>u, <2>1, RunKeysApart DEF Holds, ThePlanKey, level, InPlan, InOne
  <2>4. \A j \in Keys : /\ Holds(r, j)' => Holds(r, j)
                        /\ Holds(r, j) => Holds(r, j)' \/ j \in PlanKeys \cup {ThePlanKey(r)}
    BY <1>u, <2>1 DEF Holds, ThePlanKey, level, InAll, InHost, InPlan, InOne,
                      AllKinds, HostKinds
  <2>. QED
    BY <1>0, <1>4, <1>k, <2>2, <2>3, <2>4, Ended, WrittenLocks
<1>5. CASE (PreparePlan(r) \/ ExecutePlan(r)) /\ RaisePlan(r)
  <2>0. pc[r] \in InPlan
    BY <1>5 DEF PreparePlan, ExecutePlan, InPlan
  <2>1. CASE kind[r] = "updateOne"
    <3>1. pc'[r] = "done" /\ status' = status
      BY <1>5, <2>1 DEF RaisePlan, Goto, TypeOK, cache
    <3>2. \A j \in Keys : /\ Holds(r, j)' => Holds(r, j)
                          /\ Holds(r, j) => Holds(r, j)' \/ j = ThePlanKey(r)
      BY <1>u, <2>0, <2>1, <3>1 DEF Holds, ThePlanKey, level, InAll, InHost,
                              InPlan, InOne, AllKinds, HostKinds
    <3>. QED
      BY <1>0, <1>k, <3>1, <3>2, UnwrittenLocks
  <2>2. CASE kind[r] # "updateOne"
    <3>1. Set(HostKey(host[r]), "ERROR")
          /\ pc'[r] = IF kind[r] \in AllKinds THEN "nextHost" ELSE "done"
      BY <1>5, <2>2 DEF RaisePlan, FailHost, LeaveHost, Goto, TypeOK
    <3>2. kind[r] \in AllKinds \cup HostKinds
      BY <1>u, <2>2 DEF Kinds, CheckKinds
    <3>3. Holds(r, HostKey(host[r]))
      BY <2>0, <3>2 DEF Holds, InHost
    <3>4. \A j \in Keys : j = HostKey(host[r]) => ~Holds(r, j)'
      BY <1>u, <3>1, RunKeysApart DEF Holds, level, InAll, InHost, InPlan, InOne
    <3>5. \A j \in Keys :
             /\ Holds(r, j)' => Holds(r, j)
             /\ Holds(r, j) => \/ Holds(r, j)'
                               \/ j \in PlanKeys \cup {HostKey(host[r])}
      BY <1>k, <1>u, <2>0, <3>1 DEF Holds, ThePlanKey, level, InAll, InHost, InPlan,
                              InOne
    <3>. QED
      BY <1>0, <1>k, <3>1, <3>3, <3>4, <3>5, Ended, WrittenLocks
  <2>. QED
    BY <2>1, <2>2
<1>6. StartPlan(r) => \/ Enter(r, ThePlanKey(r), "preparePlan")
                      \/ status' = status /\ LeavePlan(r)
  BY <1>k, GetEffect DEF StartPlan, Refused, TypeOK
<1>. QED
  BY <1>1, <1>2, <1>3, <1>4, <1>5, <1>6 DEF PreparePlan, ExecutePlan

(* A task that is created holds nothing yet.                               *)
LEMMA RequestLocks ==
    ASSUME TypeOK, Locks, Record, NEW r \in Runs, Request(r)
    PROVE  Locks'
<1>0. \A q \in Runs \ {r}, j \in Keys : Holds(q, j)' <=> Holds(q, j)
  BY OthersHold
<1>1. /\ status' = status /\ UNCHANGED <<kind, host, container>>
      /\ pc[r] = "idle"
      /\ \/ kind[r] \in AllKinds /\ pc'[r] = "startAll"
         \/ kind[r] \in HostKinds /\ pc'[r] = "startHost"
         \/ kind[r] = "checkOne" /\ pc'[r] = "startOne"
         \/ kind[r] = "updateOne" /\ pc'[r] = "startPlan"
  BY DEF Request, Goto, TypeOK, cache
<1>2. \A j \in Keys : ~Holds(r, j)
  BY <1>1 DEF Holds, InAll, InHost, InPlan, InOne
<1>3. pc'[r] \notin InPlan \cup InOne
  BY <1>1 DEF InPlan, InOne
<1>4. pc'[r] \in InAll => kind'[r] \notin AllKinds
  BY <1>1 DEF InAll, InHost, InPlan, InOne, AllKinds, HostKinds
<1>5. pc'[r] \in InHost => kind'[r] \notin AllKinds \cup HostKinds
  BY <1>1 DEF InHost, InPlan, InOne, AllKinds, HostKinds
<1>6. \A j \in Keys : ~Holds(r, j)'
  BY <1>3, <1>4, <1>5 DEF Holds
<1>. QED
  BY <1>0, <1>1, <1>2, <1>6, UnwrittenLocks

(* A run stays in the coroutines that the one it started with calls.       *)
LEMMA KindStays ==
    ASSUME TypeOK, RunsItsKind, NEW r \in Runs, Request(r) \/ Step(r)
    PROVE  RunsItsKind'
<1>0. /\ kind' = kind
      /\ \A q \in Runs \ {r} : pc'[q] = pc[q]
      /\ kind[r] \in Kinds
  BY OnlyItsOwn DEF TypeOK
<1>1. CASE Request(r)
  <2>1. \/ kind[r] \in AllKinds /\ pc'[r] = "startAll"
        \/ kind[r] \in HostKinds /\ pc'[r] = "startHost"
        \/ kind[r] = "checkOne" /\ pc'[r] = "startOne"
        \/ kind[r] = "updateOne" /\ pc'[r] = "startPlan"
    BY <1>1 DEF Request, Goto, TypeOK
  <2>. QED
    BY <1>0, <2>1 DEF RunsItsKind, CheckKinds, InOne, InPlan
<1>2. CASE StartAll(r) \/ ListHosts(r) \/ NextHost(r) \/ EndAll(r)
  <2>1. pc[r] \in {"startAll", "listHosts", "nextHost"}
        /\ pc'[r] \in {"listHosts", "nextHost", "startHost", "done"}
    BY <1>2 DEF StartAll, ListHosts, NextHost, EndAll, Enter, Goto, TypeOK
  <2>. QED
    BY <1>0, <2>1 DEF RunsItsKind, InOne, InPlan
<1>3. ASSUME LeaveHost(r) PROVE RunsItsKind'
  BY <1>0, <1>3 DEF LeaveHost, Goto, TypeOK, RunsItsKind, InOne, InPlan
<1>4. CASE StartHost(r) \/ EndChecks(r) \/ Prune(r) \/ EndPrune(r)
  <2>1. CASE LeaveHost(r)
    BY <1>3, <2>1
  <2>2. CASE ~LeaveHost(r)
    <3>1. pc[r] \in {"startHost", "prune"} /\ pc'[r] \in {"listContainers", "pruning"}
      BY <1>4, <2>2 DEF StartHost, EndChecks, Prune, EndPrune, Enter, Goto, TypeOK
    <3>. QED
      BY <1>0, <3>1 DEF RunsItsKind, InOne, InPlan
  <2>. QED
    BY <2>1, <2>2
<1>5. CASE ListContainers(r)
  <2>1. CASE FailHost(r)
    BY <1>3, <2>1 DEF FailHost
  <2>2. CASE ~FailHost(r)
    <3>1. pc[r] = "listContainers"
          /\ pc'[r] = IF kind[r] \in CheckKinds THEN "nextCheck" ELSE "startPlan"
      BY <1>5, <2>2 DEF ListContainers, Goto, TypeOK
    <3>2. kind[r] # "checkOne"
      BY <3>1 DEF RunsItsKind, AllKinds, HostKinds
    <3>. QED
      BY <1>0, <3>1, <3>2 DEF RunsItsKind, InOne, InPlan
  <2>. QED
    BY <2>1, <2>2
<1>6. CASE NextCheck(r)
  <2>1. pc[r] = "nextCheck" /\ pc'[r] = "startOne"
    BY <1>6 DEF NextCheck, Goto, TypeOK
  <2>. QED
    BY <1>0, <2>1 DEF RunsItsKind, InOne, InPlan
<1>7. CASE StartOne(r) \/ Inspect(r) \/ Lookup(r)
  <2>1. /\ pc[r] \in {"startOne", "inspect", "lookup"}
        /\ pc'[r] \in {"inspect", "lookup", "nextCheck", "done"}
        /\ pc'[r] = "nextCheck" => kind[r] # "checkOne"
    BY <1>7 DEF StartOne, Inspect, Lookup, Enter, LeaveOne, Goto, TypeOK
  <2>. QED
    BY <1>0, <2>1 DEF RunsItsKind, InOne, InPlan
<1>8. CASE StartPlan(r) \/ PreparePlan(r) \/ ExecutePlan(r)
  <2>1. CASE LeaveHost(r)
    BY <1>3, <2>1
  <2>2. CASE ~LeaveHost(r)
    <3>1. /\ pc[r] \in {"startPlan", "preparePlan", "executePlan"}
          /\ pc'[r] \in {"preparePlan", "executePlan", "prune", "done"}
          /\ pc'[r] = "prune" => kind[r] # "updateOne"
      BY <1>8, <2>2 DEF StartPlan, PreparePlan, ExecutePlan, RaisePlan, FailHost,
                        Enter, LeavePlan, Goto, TypeOK
    <3>2. kind[r] \in AllKinds \cup HostKinds \cup {"updateOne"}
      BY <1>0, <3>1 DEF RunsItsKind, InPlan, Kinds, CheckKinds
    <3>. QED
      BY <1>0, <3>1, <3>2 DEF RunsItsKind, InOne, InPlan
  <2>. QED
    BY <2>1, <2>2
<1>. QED
  BY <1>1, <1>2, <1>4, <1>5, <1>6, <1>7, <1>8 DEF Step

(* The records lock: the inductive invariant of any interleaving of runs.  *)
THEOREM Invariance == Spec => []IInv
<1>1. Init => IInv
  <2>. SUFFICES ASSUME Init PROVE IInv
    OBVIOUS
  <2>1. \A r \in Runs, k \in Keys : ~Holds(r, k)
    BY DEF Init, Holds, InAll, InHost, InPlan, InOne
  <2>2. \A k \in Keys : status[k] \notin Working
    BY DEF Init, CacheInit, Working
  <2>3. RunsItsKind
    BY DEF Init, RunsItsKind, InOne, InPlan
  <2>. QED
    BY <2>1, <2>2, <2>3 DEF IInv, OneRunPerKey, WorkIsShown, NoOrphanRecord
<1>2. TypeOK /\ IInv /\ [Next]_vars => IInv'
  <2>. SUFFICES ASSUME TypeOK, IInv, [Next]_vars PROVE IInv'
    OBVIOUS
  <2>. Locks /\ RunsItsKind
    BY DEF IInv, Locks
  <2>. USE DEF IInv
  <2>1. ASSUME NEW r \in Runs, Request(r), Record PROVE IInv'
    BY <2>1, RequestLocks, KindStays DEF Locks
  <2>2. ASSUME NEW r \in Runs, Step(r), Record PROVE IInv'
    <3>1. Locks'
      BY <2>2, AllLocks, HostLocks, OneLocks, PlanLocks DEF Step
    <3>. QED
      BY <2>2, <3>1, KindStays DEF Locks
  <2>3. ASSUME NEW k \in Keys, Expire(k) \/ Poll(k), Record PROVE IInv'
    <3>1. UNCHANGED level /\ pc' = pc
      BY <2>3 DEF Expire, Poll
    <3>2. \A j \in Keys : status'[j] \in {status[j], "none"}
      BY <2>3, GetEffect, ForgetEffect DEF Expire, Poll, TypeOK
    <3>3. \A q \in Runs, j \in Keys : Holds(q, j)' <=> Holds(q, j)
      BY <3>1 DEF Holds, level
    <3>4. Locks'
      BY <2>3, <3>2, <3>3, UnwrittenLocks
    <3>. QED
      BY <3>1, <3>4 DEF Locks, RunsItsKind, level
  <2>4. CASE UNCHANGED vars
    BY <2>4 DEF vars, level, cache, OneRunPerKey, WorkIsShown, NoOrphanRecord,
                RunsItsKind, Holds, IsHeld
  <2>. QED
    BY <2>1, <2>2, <2>3, <2>4 DEF Next, Terminated
<1>. QED
  BY <1>1, <1>2, TypeCorrect, PTL DEF Spec

(* Two runs never work under one key, unless its record was forgotten.     *)
THEOREM Exclusion == Spec => []OneRunPerKey
<1>1. IInv => OneRunPerKey
  BY DEF IInv
<1>. QED
  BY <1>1, Invariance, PTL

(* A run that goes on is shown to go on, unless its record was forgotten.  *)
THEOREM Visibility == Spec => []WorkIsShown
<1>1. IInv => WorkIsShown
  BY DEF IInv
<1>. QED
  BY <1>1, Invariance, PTL

(* Only a plan leaves a record of work behind when it dies.                *)
THEOREM NoOrphans == Spec => []NoOrphanRecord
<1>1. IInv => NoOrphanRecord
  BY DEF IInv
<1>. QED
  BY <1>1, Invariance, PTL
=============================================================================
