----------------------------- MODULE SharedHost -----------------------------
(***************************************************************************)
(* One docker host that several actors change at once: two runs of         *)
(* execute_update_plan under different keys (update_container starts each  *)
(* plan as a task of its own, and so does the update of a whole host), a   *)
(* user who starts and stops containers, and the pruning of images that    *)
(* ends an update or that a user asks for.  Nothing but the keys of the    *)
(* plans keeps them apart.  The second plan is made from a list of the     *)
(* host taken at any moment, also while the first run is half way, and it  *)
(* is carried out later.                                                   *)
(***************************************************************************)
EXTENDS UpdatePlanSchema

CONSTANTS
    Specs, Versions, Latest, Hooked, Linked,   \* as in PlanExecutor
    FirstPlans, SecondPlans,           \* plans of the two runs
    SpecMaps,     \* which spec each container may be made of
    MaxCommands   \* bound: commands and prunes that meet the runs

ASSUME PlansAssumption == \A p \in FirstPlans \cup SecondPlans : IsPlan(p)
ASSUME LatestAssumption == Latest \in Versions
ASSUME HookedAssumption == Hooked \subseteq Containers
ASSUME LinkedAssumption == Linked \subseteq Containers
ASSUME SpecsAssumption == SpecMaps \subseteq [Containers -> Specs]
ASSUME MaxCommandsAssumption == MaxCommands \in Nat

VARIABLES
    st, image, attached, tag,                 \* the host, as in PlanExecutor
    kept,         \* host: versions of each spec whose image is stored
    spec, available,
    plan1, oldImage1, wasRunning1, err1, result1, vetoed1, retagged1,
    pc1, pos1, todo1, status1,
    plan2, oldImage2, wasRunning2, err2, result2, vetoed2, retagged2,
    pc2, pos2, todo2, status2,
    built,        \* the second plan has been built
    halted,       \* containers a user has stopped and not started again
    pruned,       \* images were pruned
    commands      \* how many commands and prunes there were

First == INSTANCE PlanExecutor
    WITH Plans <- FirstPlans, plan <- plan1, oldImage <- oldImage1, wasRunning <- wasRunning1,
         err <- err1, result <- result1, vetoed <- vetoed1,
         retagged <- retagged1, pc <- pc1, pos <- pos1, todo <- todo1,
         status <- status1

Second == INSTANCE PlanExecutor
    WITH Plans <- SecondPlans, plan <- plan2, oldImage <- oldImage2, wasRunning <- wasRunning2,
         err <- err2, result <- result2, vetoed <- vetoed2,
         retagged <- retagged2, pc <- pc2, pos <- pos2, todo <- todo2,
         status <- status2

host   == <<st, image, attached, tag, kept>>
run1   == <<plan1, oldImage1, wasRunning1, err1, result1, vetoed1, retagged1,
            pc1, pos1, todo1, status1>>
run2   == <<plan2, oldImage2, wasRunning2, err2, result2, vetoed2, retagged2,
            pc2, pos2, todo2, status2, built>>
others == <<halted, pruned, commands>>
vars   == <<host, spec, available, run1, run2, others>>

EmptyPlan == [toUpdate |-> {}, affected |-> {}, order |-> <<>>]

Init ==
    /\ spec \in SpecMaps
    /\ \E v \in Versions \ {Latest} : image = [c \in Containers |-> v]
    /\ st = [c \in Containers |-> "running"]
    /\ attached = [c \in Containers |-> TRUE]
    /\ tag = [s \in Specs |-> Latest]
    /\ kept = [s \in Specs |-> Versions]
    /\ available = [c \in Containers |-> TRUE]
    /\ plan1 \in FirstPlans
    /\ oldImage1 = image
    /\ wasRunning1 = [c \in Containers |-> TRUE]
    /\ todo1 = plan1.toUpdate
    /\ plan2 = EmptyPlan
    /\ oldImage2 = image
    /\ wasRunning2 = [c \in Containers |-> TRUE]
    /\ todo2 = {}
    /\ built = FALSE
    /\ err1 = [c \in Containers |-> FALSE] /\ err2 = err1
    /\ vetoed1 = err1 /\ vetoed2 = err1 /\ retagged1 = err1 /\ retagged2 = err1
    /\ result1 = [c \in Containers |-> "none"] /\ result2 = result1
    /\ pc1 = "idle" /\ pc2 = "idle" /\ pos1 = 0 /\ pos2 = 0
    /\ status1 = "none" /\ status2 = "none"
    /\ halted = {} /\ pruned = FALSE /\ commands = 0

(* A pull or a create stores an image; docker can only tag what it has.    *)
StoresImages ==
    /\ \A s \in Specs : tag'[s] \in kept[s] \cup {Latest}
    /\ kept' = [s \in Specs |-> kept[s] \cup {tag'[s]}]

FirstSteps  == First!Next /\ StoresImages /\ UNCHANGED <<run2, others>>
SecondSteps ==
    built /\ Second!Next /\ StoresImages /\ UNCHANGED <<run1, others, built>>

(* The containers are listed and the plan is built: those it involves      *)
(* exist, those it updates have an update available, and its key is not    *)
(* that of a plan that is being executed.                                  *)
BuildSecond ==
    /\ ~built
    /\ \E p \in SecondPlans :
          /\ \A c \in Involved(p) : st[c] # "absent"
          /\ \A c \in p.toUpdate : available[c]
          /\ p.toUpdate # plan1.toUpdate \/ pc1 \in First!Ended
          /\ plan2' = p
          /\ todo2' = p.toUpdate
    /\ oldImage2' = image
    /\ wasRunning2' = [c \in Containers |-> st[c] = "running"]
    /\ built' = TRUE
    /\ UNCHANGED <<host, spec, available, run1, others, err2, result2, vetoed2,
                   retagged2, pc2, pos2, status2>>

(* start, restart and unpause, or stop and kill: the container is inspected*)
(* first, and the command goes to docker whatever a plan is doing.         *)
Control(c) ==
    /\ commands < MaxCommands
    /\ \/ /\ st[c] = "stopped"
          /\ st' = [st EXCEPT ![c] = "running"]
          /\ halted' = halted \ {c}
       \/ /\ st[c] = "running"
          /\ st' = [st EXCEPT ![c] = "stopped"]
          /\ halted' = halted \cup {c}
    /\ commands' = commands + 1
    /\ UNCHANGED <<image, attached, tag, kept, spec, available, run1, run2,
                   pruned>>

InUse(s) == {image[c] : c \in {d \in Containers :
                                  spec[d] = s /\ st[d] # "absent"}}

(* Without "all" an image goes that no spec points to and no container     *)
(* uses; with "all" also one that a spec points to, and the next create    *)
(* that names the spec then pulls what the registry serves.                *)
Prune ==
    /\ commands < MaxCommands
    /\ \E all \in BOOLEAN :
          /\ kept' = [s \in Specs |->
                        kept[s] \cap (InUse(s) \cup IF all THEN {} ELSE {tag[s]})]
          /\ tag' = [s \in Specs |->
                        IF all /\ tag[s] \notin InUse(s) THEN Latest ELSE tag[s]]
    /\ pruned' = TRUE
    /\ commands' = commands + 1
    /\ UNCHANGED <<st, image, attached, spec, available, run1, run2,
                   halted>>

Next ==
    \/ FirstSteps \/ SecondSteps \/ BuildSecond \/ Prune
    \/ \E c \in Containers : Control(c)

Spec == Init /\ [][Next]_vars
-----------------------------------------------------------------------------
TypeOK ==
    /\ First!TypeOK
    /\ built => Second!TypeOK
    /\ kept \in [Specs -> SUBSET Versions]
    /\ halted \subseteq Containers
    /\ pruned \in BOOLEAN
    /\ commands \in 0..MaxCommands

Over == pc1 \in First!Ended /\ built /\ pc2 \in Second!Ended

InHand(c) ==
    \/ pc1 \in First!Replacing /\ First!Current = c
    \/ pc2 \in Second!Replacing /\ Second!Current = c

(* Whoever interferes with whom, a container that is missing is being      *)
(* replaced by a run at this moment or was reported "failed" by one: no    *)
(* interleaving of two replacements ends with both runs content and the    *)
(* container gone.                                                         *)
MissingIsAccounted ==
    \A c \in Containers :
        st[c] = "absent" =>
            InHand(c) \/ result1[c] = "failed" \/ result2[c] = "failed"

(* When both runs are over, a container that ran at the beginning runs     *)
(* again, or a run has an error or a roll-back to show for it, or a user   *)
(* has stopped it: no run leaves it down because the other had stopped it  *)
(* when the list was taken.                                                *)
NothingLeftDown ==
    Over => \A c \in Containers :
        \/ st[c] = "running"
        \/ err1[c] \/ err2[c] \/ c \in halted
        \/ {result1[c], result2[c]} \cap {"rolled_back", "failed"} # {}

(* Nobody but one run moves the spec of c: the other plan updates no       *)
(* container made of it.                                                   *)
OnlyOneMoves(c, other) == \A d \in other.toUpdate : spec[d] # spec[c]
OnlyUpdates(c, plan) == \A d \in plan.toUpdate \ {c} : spec[d] # spec[c]

(* Images are as reported when no other run and no other container of the  *)
(* plan moves the spec: "updated" runs the latest image even if images     *)
(* were pruned under the run, "rolled_back" runs the old one if the tag    *)
(* call was answered and nothing was pruned.                               *)
ImagesAsReported ==
    \A c \in Containers :
        /\ OnlyUpdates(c, plan1) /\ OnlyOneMoves(c, plan2) =>
              /\ result1[c] = "updated" => image[c] = Latest
              /\ result1[c] = "rolled_back" /\ retagged1[c] /\ ~pruned =>
                    image[c] = oldImage1[c]
        /\ OnlyUpdates(c, plan2) /\ OnlyOneMoves(c, plan1) =>
              /\ result2[c] = "updated" => image[c] = Latest
              /\ result2[c] = "rolled_back" /\ retagged2[c] /\ ~pruned =>
                    image[c] = oldImage2[c]
-----------------------------------------------------------------------------
(* The inductive invariant.                                                *)
(*                                                                         *)
(* Each run goes its way, whatever others do to the host.                  *)
Waiting ==
    /\ plan2 = EmptyPlan /\ todo2 = {} /\ pc2 = "idle" /\ pos2 = 0 /\ status2 = "none"
    /\ oldImage2 \in [Containers -> Versions]
    /\ wasRunning2 \in [Containers -> BOOLEAN]
    /\ err2 \in [Containers -> BOOLEAN]
    /\ result2 = [c \in Containers |-> "none"]
    /\ vetoed2 \in [Containers -> BOOLEAN]
    /\ retagged2 \in [Containers -> BOOLEAN]

OnTheirWay ==
    /\ First!TypeOK /\ First!Placed /\ First!Prepared
    /\ IF built THEN Second!TypeOK /\ Second!Placed /\ Second!Prepared ELSE Waiting
    /\ halted \subseteq Containers /\ pruned \in BOOLEAN /\ built \in BOOLEAN

(* A missing container was removed by a run that is still to create it, or *)
(* has reported that it could not.                                         *)
Vacated ==
    \A c \in Containers :
        st[c] = "absent" =>
            \/ c \in First!Vacant \cup Second!Vacant
            \/ result1[c] = "failed" \/ result2[c] = "failed"

(* A container that is down was stopped by a user or by a run that is      *)
(* still to start it, or has something to show for it.                     *)
Debts ==
    \A c \in Containers :
        st[c] # "running" =>
            \/ c \in halted
            \/ First!Owed(c) \/ First!Settled(c)
            \/ Second!Owed(c) \/ Second!Settled(c)

ImagesHeld ==
    \A c \in Containers :
        /\ OnlyUpdates(c, plan1) /\ OnlyOneMoves(c, plan2) =>
              First!NewImageHeld(c) /\ (~pruned => First!OldImageHeld(c))
        /\ OnlyUpdates(c, plan2) /\ OnlyOneMoves(c, plan1) =>
              Second!NewImageHeld(c) /\ (~pruned => Second!OldImageHeld(c))

IInv == OnTheirWay /\ Vacated /\ Debts /\ ImagesHeld
=============================================================================
