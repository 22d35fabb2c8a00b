----------------------------- MODULE HostUpdate -----------------------------
(***************************************************************************)
(* What executing an update plan promises to whoever looks at the host and *)
(* at the report: first containers of the plan are stopped, then they are  *)
(* replaced one at a time or started again, and whatever has got an        *)
(* outcome is left alone from then on.  How a container is replaced, rolled *)
(* back or cleaned up is not said here: while it is in hand anything may   *)
(* happen to it, and to nothing else.                                      *)
(***************************************************************************)
EXTENDS UpdatePlanSchema

CONSTANTS
    Versions,     \* versions of an image
    Plans         \* plans that may be handed over

VARIABLES
    plan,         \* the plan being executed
    st,           \* "running", "stopped" or "absent"
    image,        \* version each container was created from
    hand,         \* the container being replaced: {} or {c}
    outcome,      \* what is reported of each container
    phase         \* "stopping", then "replacing", then "over"

vars == <<plan, st, image, hand, outcome, phase>>

States   == {"running", "stopped", "absent"}
Reported == {"updated", "rolled_back", "failed"}

Init ==
    /\ plan \in Plans
    /\ st \in [Containers -> {"running", "stopped"}]
    /\ image \in [Containers -> Versions]
    /\ hand = {}
    /\ outcome = [c \in Containers |-> "none"]
    /\ phase = "stopping"

Stop(c) ==
    /\ phase = "stopping"
    /\ c \in Involved(plan)
    /\ st' = [st EXCEPT ![c] = "stopped"]
    /\ UNCHANGED <<plan, image, hand, outcome, phase>>

(* Nothing is handed from one phase to the next in an unfinished state.    *)
Advance ==
    /\ hand = {}
    /\ \/ phase = "stopping" /\ phase' \in {"replacing", "over"}
       \/ phase = "replacing" /\ phase' = "over"
    /\ UNCHANGED <<plan, st, image, hand, outcome>>

PickUp(c) ==
    /\ phase = "replacing"
    /\ hand = {}
    /\ c \in plan.toUpdate
    /\ outcome[c] = "none"
    /\ hand' = {c}
    /\ UNCHANGED <<plan, st, image, outcome, phase>>

(* A container without an outcome is started again; it may exit by itself. *)
Resume(c) ==
    /\ phase = "replacing"
    /\ hand = {}
    /\ c \in Involved(plan)
    /\ outcome[c] = "none"
    /\ st[c] # "absent"
    /\ \E s \in {"running", "stopped"} : st' = [st EXCEPT ![c] = s]
    /\ UNCHANGED <<plan, image, hand, outcome, phase>>

Reshape(c) ==
    \E s \in States, v \in Versions :
        /\ st' = [st EXCEPT ![c] = s]
        /\ image' = [image EXCEPT ![c] = v]

Work(c) ==
    /\ hand = {c}
    /\ Reshape(c)
    /\ UNCHANGED <<plan, hand, outcome, phase>>

(* It is put down with an outcome, and only a failed one may be missing.   *)
Settle(c) ==
    /\ hand = {c}
    /\ hand' = {}
    /\ Reshape(c)
    /\ \E r \in Reported :
          /\ outcome' = [outcome EXCEPT ![c] = r]
          /\ r # "failed" => st'[c] # "absent"
    /\ UNCHANGED <<plan, phase>>

Next ==
    \/ Advance
    \/ \E c \in Containers :
          Stop(c) \/ PickUp(c) \/ Resume(c) \/ Work(c) \/ Settle(c)

Spec == Init /\ [][Next]_vars
=============================================================================
