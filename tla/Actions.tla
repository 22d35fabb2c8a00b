------------------------------- MODULE Actions -------------------------------
(***************************************************************************)
(* The runs of checks and updates: asyncio tasks that cron jobs and the    *)
(* POST handlers of the containers router start at any time, interleaved   *)
(* at their awaits.  A run of all hosts goes through the hosts, a run of a *)
(* host through its containers or its update plan, and each level guards   *)
(* itself by the progress record of its own key.                           *)
(***************************************************************************)
EXTENDS ProgressCache

CONSTANTS
    Runs,         \* the runs ever started
    Outlasts      \* TRUE: a step may take longer than a record lives

ASSUME OutlastsAssumption == Outlasts \in BOOLEAN

VARIABLES
    kind,         \* the coroutine each run started with
    pc,
    hostsLeft,    \* hosts the loop over the hosts has not come to
    host,
    checksLeft,   \* containers the check of the host has not come to
    container,
    plan,         \* plan.to_update
    lost          \* keys whose record went while a run was working under it

level == <<kind, hostsLeft, host, checksLeft, container, plan>>
vars == <<cache, level, pc, lost>>

AllKinds   == {"checkAll", "updateAll"}
HostKinds  == {"checkHost", "updateHost"}
CheckKinds == {"checkAll", "checkHost", "checkOne"}
Kinds      == AllKinds \cup HostKinds \cup {"checkOne", "updateOne"}

InOne  == {"inspect", "lookup"}
InPlan == {"preparePlan", "executePlan"}
InHost == {"listContainers", "nextCheck", "startOne", "startPlan", "prune",
           "pruning"} \cup InOne \cup InPlan
InAll  == {"listHosts", "nextHost", "startHost"} \cup InHost
Labels == {"idle", "startAll", "done"} \cup InAll

(* Run r is working under key k.                                           *)
Holds(r, k) ==
    \/ k = AllKey /\ kind[r] \in AllKinds /\ pc[r] \in InAll
    \/ k = HostKey(host[r]) /\ kind[r] \in AllKinds \cup HostKinds
                            /\ pc[r] \in InHost
    \/ k = PlanKey(host[r], plan[r]) /\ pc[r] \in InPlan
    \/ k = ContainerKey(host[r], container[r]) /\ pc[r] \in InOne

IsHeld(k) == \E r \in Runs : Holds(r, k)

(* The status between PREPARING and the end.                               *)
Busy(r) == IF kind[r] \in CheckKinds THEN "CHECKING" ELSE "UPDATING"

Goto(r, label) == pc' = [pc EXCEPT ![r] = label]

(* Where a coroutine returns to, by the one that called it.                *)
LeaveHost(r) == Goto(r, IF kind[r] \in AllKinds THEN "nextHost" ELSE "done")
LeaveOne(r)  == Goto(r, IF kind[r] = "checkOne" THEN "done" ELSE "nextCheck")
LeavePlan(r) == Goto(r, IF kind[r] = "updateOne" THEN "done" ELSE "prune")

(* The guard at the start of each coroutine: read the record, give up if   *)
(* it is in work, and write it, with no await in between.                  *)
Enter(r, k, label) ==
    /\ IsAllowedStart(k)
    /\ Set(k, "PREPARING")
    /\ Goto(r, label)

Refused(k) == ~IsAllowedStart(k) /\ Get(k)

-----------------------------------------------------------------------------
Init ==
    /\ CacheInit
    /\ kind \in [Runs -> Kinds]
    /\ pc = [r \in Runs |-> "idle"]
    /\ hostsLeft = [r \in Runs |-> {}]
    /\ host \in [Runs -> Hosts]
    /\ checksLeft = [r \in Runs |-> {}]
    /\ container \in [Runs -> Containers]
    /\ plan = [r \in Runs |-> {}]
    /\ lost = {}

(* A cron job fires or a POST handler creates the task; the handler that   *)
(* updates one container has built the plan before.                        *)
Request(r) ==
    /\ pc[r] = "idle"
    /\ \/ kind[r] \in AllKinds /\ Goto(r, "startAll") /\ UNCHANGED plan
       \/ kind[r] \in HostKinds /\ Goto(r, "startHost") /\ UNCHANGED plan
       \/ kind[r] = "checkOne" /\ Goto(r, "startOne") /\ UNCHANGED plan
       \/ /\ kind[r] = "updateOne"
          /\ Goto(r, "startPlan")
          /\ \E u \in SUBSET Containers : plan' = [plan EXCEPT ![r] = u]
    /\ UNCHANGED <<cache, kind, hostsLeft, host, checksLeft, container>>

(* check_all_containers, update_all_containers                             *)
StartAll(r) ==
    /\ pc[r] = "startAll"
    /\ \/ Enter(r, AllKey, "listHosts")
       \/ Refused(AllKey) /\ Goto(r, "done")
    /\ UNCHANGED level

ListHosts(r) ==
    /\ pc[r] = "listHosts"
    /\ \/ /\ Set(AllKey, Busy(r))
          /\ \E enabled \in SUBSET Hosts :
                hostsLeft' = [hostsLeft EXCEPT ![r] = enabled]
          /\ Goto(r, "nextHost")
       \/ Set(AllKey, "ERROR") /\ Goto(r, "done") /\ UNCHANGED hostsLeft
    /\ UNCHANGED <<kind, host, checksLeft, container, plan>>

(* An agent client that cannot be made leaves the host out.                *)
NextHost(r) ==
    /\ pc[r] = "nextHost"
    /\ \E h \in hostsLeft[r] :
          /\ hostsLeft' = [hostsLeft EXCEPT ![r] = @ \ {h}]
          /\ host' = [host EXCEPT ![r] = h]
          /\ Goto(r, "startHost") \/ UNCHANGED pc
    /\ UNCHANGED <<cache, kind, checksLeft, container, plan>>

(* The record is DONE before the notification is sent.                     *)
EndAll(r) ==
    /\ pc[r] = "nextHost"
    /\ hostsLeft[r] = {}
    /\ Set(AllKey, "DONE")
    /\ Goto(r, "done")
    /\ UNCHANGED level

(* check_host_containers, update_host_containers                           *)
StartHost(r) ==
    /\ pc[r] = "startHost"
    /\ \/ Enter(r, HostKey(host[r]), "listContainers")
       \/ Refused(HostKey(host[r])) /\ LeaveHost(r)
    /\ UNCHANGED level

(* Mutant of FailHost: the record is left as it is.                        *)
FailHostSilently(r) == LeaveHost(r) /\ UNCHANGED cache

FailHost(r) == Set(HostKey(host[r]), "ERROR") /\ LeaveHost(r)

(* The containers are listed and, for an update, the plan built.           *)
ListContainers(r) ==
    /\ pc[r] = "listContainers"
    /\ \/ FailHost(r) /\ UNCHANGED <<checksLeft, plan>>
       \/ /\ Set(HostKey(host[r]), Busy(r))
          /\ \E s \in SUBSET Containers :
                IF kind[r] \in CheckKinds
                THEN /\ checksLeft' = [checksLeft EXCEPT ![r] = s]
                     /\ Goto(r, "nextCheck") /\ UNCHANGED plan
                ELSE /\ plan' = [plan EXCEPT ![r] = s]
                     /\ Goto(r, "startPlan") /\ UNCHANGED checksLeft
    /\ UNCHANGED <<kind, hostsLeft, host, container>>

NextCheck(r) ==
    /\ pc[r] = "nextCheck"
    /\ \E c \in checksLeft[r] :
          /\ checksLeft' = [checksLeft EXCEPT ![r] = @ \ {c}]
          /\ container' = [container EXCEPT ![r] = c]
    /\ Goto(r, "startOne")
    /\ UNCHANGED <<cache, kind, hostsLeft, host, plan>>

EndChecks(r) ==
    /\ pc[r] = "nextCheck"
    /\ checksLeft[r] = {}
    /\ Set(HostKey(host[r]), "DONE")
    /\ LeaveHost(r)
    /\ UNCHANGED level

(* Mutant of Prune: the record says DONE before the images are pruned.     *)
PruneAfterDone(r) ==
    /\ pc[r] = "prune"
    /\ Set(HostKey(host[r]), "DONE")
    /\ Goto(r, "pruning")
    /\ UNCHANGED level

(* Not every host prunes; a prune that fails is only logged.               *)
Prune(r) ==
    /\ pc[r] = "prune"
    /\ \/ Set(HostKey(host[r]), "PRUNING") /\ Goto(r, "pruning")
       \/ Set(HostKey(host[r]), "DONE") /\ LeaveHost(r)
    /\ UNCHANGED level

EndPrune(r) ==
    /\ pc[r] = "pruning"
    /\ Set(HostKey(host[r]), "DONE")
    /\ LeaveHost(r)
    /\ UNCHANGED level

-----------------------------------------------------------------------------
(* check_one_container                                                     *)
OneKey(r) == ContainerKey(host[r], container[r])

StartOne(r) ==
    /\ pc[r] = "startOne"
    /\ \/ Enter(r, OneKey(r), "inspect")
       \/ Refused(OneKey(r)) /\ LeaveOne(r)
    /\ UNCHANGED level

(* An image without a spec or a digest ends the check early.               *)
Inspect(r) ==
    /\ pc[r] = "inspect"
    /\ \/ Set(OneKey(r), "CHECKING") /\ Goto(r, "lookup")
       \/ \E s \in {"DONE", "ERROR"} : Set(OneKey(r), s) /\ LeaveOne(r)
    /\ UNCHANGED level

Lookup(r) ==
    /\ pc[r] = "lookup"
    /\ \E s \in {"DONE", "ERROR"} : Set(OneKey(r), s)
    /\ LeaveOne(r)
    /\ UNCHANGED level

-----------------------------------------------------------------------------
(* execute_update_plan, what it does to the host left out                  *)
ThePlanKey(r) == PlanKey(host[r], plan[r])

StartPlan(r) ==
    /\ pc[r] = "startPlan"
    /\ \/ plan[r] # {} /\ Enter(r, ThePlanKey(r), "preparePlan")
       \/ Refused(ThePlanKey(r)) /\ LeavePlan(r)
       \/ /\ IsAllowedStart(ThePlanKey(r)) /\ plan[r] = {}
          /\ Get(ThePlanKey(r)) /\ LeavePlan(r)
    /\ UNCHANGED level

(* Nothing catches an exception of the database inside the plan: its       *)
(* record stays as it is; the update of a host reports the error.          *)
RaisePlan(r) ==
    IF kind[r] = "updateOne" THEN Goto(r, "done") /\ UNCHANGED cache
                             ELSE FailHost(r)

PreparePlan(r) ==
    /\ pc[r] = "preparePlan"
    /\ \/ Set(ThePlanKey(r), "UPDATING") /\ Goto(r, "executePlan")
       \/ RaisePlan(r)
    /\ UNCHANGED level

ExecutePlan(r) ==
    /\ pc[r] = "executePlan"
    /\ \/ Set(ThePlanKey(r), "DONE") /\ LeavePlan(r)
       \/ RaisePlan(r)
    /\ UNCHANGED level

-----------------------------------------------------------------------------
(* Mutant of Expire: what failed is kept for ever.                         *)
ExpireEnded(k) ==
    /\ Outlasts \/ ~IsHeld(k)
    /\ status[k] \in {"DONE", "ERROR"}
    /\ Forget(k)
    /\ UNCHANGED <<level, pc>>

Expire(k) ==
    /\ Outlasts \/ ~IsHeld(k)
    /\ Forget(k)
    /\ UNCHANGED <<level, pc>>

(* GET /progress                                                           *)
Poll(k) ==
    /\ k \in Recorded
    /\ Get(k)
    /\ UNCHANGED <<level, pc>>

Step(r) ==
    \/ StartAll(r) \/ ListHosts(r) \/ NextHost(r) \/ EndAll(r)
    \/ StartHost(r) \/ ListContainers(r) \/ NextCheck(r) \/ EndChecks(r)
    \/ Prune(r) \/ EndPrune(r)
    \/ StartOne(r) \/ Inspect(r) \/ Lookup(r)
    \/ StartPlan(r) \/ PreparePlan(r) \/ ExecutePlan(r)

(* History: which keys lose their record under a run's hands.              *)
Vanished == {k \in Keys : status[k] # "none" /\ status'[k] = "none"}
Record   == lost' = {k \in lost \cup Vanished : IsHeld(k)'}

Terminated == (\A r \in Runs : pc[r] = "done") /\ UNCHANGED vars

Next ==
    \/ \E r \in Runs : (Request(r) \/ Step(r)) /\ Record
    \/ \E k \in Keys : (Expire(k) \/ Poll(k)) /\ Record
    \/ Terminated

Spec == Init /\ [][Next]_vars

(* The event loop goes on while some run can: the calls of the agent and   *)
(* the registry have timeouts.  A record nobody is going to write any more *)
(* expires.                                                                *)
FairSpec ==
    /\ Spec
    /\ WF_pc(\E r \in Runs : Step(r))
    /\ WF_status(\E k \in Keys : ~IsHeld(k) /\ Expire(k))

-----------------------------------------------------------------------------
TypeOK ==
    /\ CacheTypeOK
    /\ kind \in [Runs -> Kinds]
    /\ pc \in [Runs -> Labels]
    /\ hostsLeft \in [Runs -> SUBSET Hosts]
    /\ host \in [Runs -> Hosts]
    /\ checksLeft \in [Runs -> SUBSET Containers]
    /\ container \in [Runs -> Containers]
    /\ plan \in [Runs -> SUBSET Containers]
    /\ lost \in SUBSET Keys

(* Two runs never work under one key at the same time, unless the record   *)
(* was forgotten under the hands of the first (is_allowed_start_cache at   *)
(* the start of each coroutine).                                           *)
OneRunPerKey ==
    \A q, r \in Runs, k \in Keys :
        Holds(q, k) /\ Holds(r, k) => q = r \/ k \in lost

(* As long as the record is not forgotten, nobody who polls it is told     *)
(* that the run has ended before it has, and no other run ends it.         *)
WorkIsShown ==
    \A r \in Runs, k \in Keys :
        Holds(r, k) /\ k \notin lost => status[k] \in Working

(* A record that says that work goes on has somebody at work, except the   *)
(* record of a plan that raised an exception.                              *)
NoOrphanRecord ==
    \A k \in Keys \ PlanKeys : status[k] \in Working => IsHeld(k)

(* What a run that died leaves behind keeps nobody out for ever.           *)
LocksAreFreed ==
    \A k \in Keys : status[k] \in Working ~> status[k] \notin Working

(* Which coroutine a run can be in, by the one it started with.            *)
RunsItsKind ==
    \A r \in Runs :
        /\ pc[r] \in {"startAll", "listHosts", "nextHost"}
              => kind[r] \in AllKinds
        /\ pc[r] \in {"startHost", "listContainers", "prune", "pruning"}
              => kind[r] \in AllKinds \cup HostKinds
        /\ pc[r] = "nextCheck" => kind[r] \in CheckKinds \ {"checkOne"}
        /\ pc[r] \in {"startOne"} \cup InOne => kind[r] \in CheckKinds
        /\ pc[r] \in {"startPlan"} \cup InPlan => kind[r] \notin CheckKinds

(* The inductive invariant.                                                *)
IInv == OneRunPerKey /\ WorkIsShown /\ NoOrphanRecord /\ RunsItsKind
=============================================================================
