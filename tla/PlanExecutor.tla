---------------------------- MODULE PlanExecutor ----------------------------
(***************************************************************************)
(* execute_update_plan: one coroutine that carries out an update plan on   *)
(* the containers of one docker host.  It prepares the updatable           *)
(* containers, stops every involved container from the most dependent to   *)
(* the least dependent one, and then walks the order forwards: updatable   *)
(* containers are recreated from the new image (or rolled back), affected  *)
(* ones are started again.                                                 *)
(*                                                                         *)
(* The host is behind an HTTP agent.  A call answers "ok", or "error"      *)
(* (nothing happened), or is "lost": the caller sees an error although     *)
(* docker did the work, which is what a timeout or a broken connection     *)
(* looks like.  Every await of the coroutine is a step of its own, save    *)
(* that two calls on the same container are one step when no property can  *)
(* tell the state between them.                                            *)
(***************************************************************************)
EXTENDS UpdatePlanSchema

CONSTANTS
    Specs,        \* image specs (repository:tag) the containers are made of
    Versions,     \* versions of an image a spec can point to
    Latest,       \* the version the registry serves
    Plans,        \* plans build_update_plan may hand over
    Hooked,       \* containers with hooks, {} unless ALLOW_HOOKS
    Linked        \* containers in more networks than the one they are
                  \* created with, which item.commands connect

ASSUME PlanAssumption == \A p \in Plans : IsPlan(p)
ASSUME LatestAssumption == Latest \in Versions
ASSUME HookedAssumption == Hooked \subseteq Containers
ASSUME LinkedAssumption == Linked \subseteq Containers

VARIABLES
    plan,         \* the UpdatePlan being executed
    spec,         \* image_spec of each container
    oldImage,     \* image each container ran when the items were built
    wasRunning,   \* item.was_running
    st,           \* host: "running", "stopped" or "absent"
    image,        \* host: version the container was created from
    attached,     \* host: is the container attached to all its networks
    tag,          \* host: version each spec points to
    err,          \* item.errors is not empty
    result,       \* item.result
    vetoed,       \* a pre_stop or pre_update hook of the container failed
    retagged,     \* the rollback's tag call was answered "ok"
    available,    \* database: update_available
    pc, pos,      \* where the coroutine is, position in plan.order
    todo,         \* updatable containers not prepared yet
    status        \* "status" of the plan's progress record

job     == <<plan, spec, oldImage, wasRunning>>
host    == <<st, image, attached, tag>>
items   == <<err, result, vetoed, retagged>>
control == <<pc, pos, todo, status>>
vars    == <<job, host, items, available, control>>

Results  == {"none", "updated", "rolled_back", "failed"}
Outcomes == {"ok", "error", "lost"}

(* Where the walk over plan.order stands inside one iteration.             *)
Replacing == {"detach", "remove", "create", "startNew", "awaitNew",
              "teardown", "cleanup", "tagOld", "recreate", "startOld",
              "awaitOld"}
Ended     == {"done", "refused", "raised"}
Labels    == {"idle", "prepare", "stop", "update", "awaitStart", "finish"}
             \cup Replacing \cup Ended

Current    == plan.order[pos]
Finished   == pos > Len(plan.order)

(* Mutant of CanUpdate: errors of the preparation are forgotten.           *)
CanUpdateAnyway(c) == c \in Containers

CanUpdate(c) == ~err[c]

Goto(label) ==
    /\ pc' = label
    /\ UNCHANGED <<pos, todo, status>>

(* "continue": on to the next name of the order.                           *)
NextContainer ==
    /\ pc' = "update"
    /\ pos' = pos + 1
    /\ UNCHANGED <<todo, status>>

Fails(c)        == err' = [err EXCEPT ![c] = TRUE]
MayFail(c)      == Fails(c) \/ UNCHANGED err
HooksMayFail(c) == IF c \in Hooked THEN MayFail(c) ELSE UNCHANGED err
FailsIf(c, bad) == err' = [err EXCEPT ![c] = @ \/ bad]
Returns(c, r)   == result' = [result EXCEPT ![c] = r]

(* Docker answers an error for a container that does not exist.            *)
Answers(c)  == IF st[c] = "absent" THEN {"error"} ELSE Outcomes
Started(c)  == st[c] # "absent" /\ st' = [st EXCEPT ![c] = "running"]
MayStart(c) == Started(c) \/ UNCHANGED st

-----------------------------------------------------------------------------
Init ==
    /\ plan \in Plans
    /\ spec \in [Containers -> Specs]
    /\ oldImage \in [Containers -> Versions]
    /\ wasRunning \in [Containers -> BOOLEAN]
    /\ st = [c \in Containers |->
                IF wasRunning[c] THEN "running" ELSE "stopped"]
    /\ image = oldImage
    /\ attached = [c \in Containers |-> TRUE]
    /\ tag \in [Specs -> Versions]
    /\ err = [c \in Containers |-> FALSE]
    /\ result = [c \in Containers |-> "none"]
    /\ vetoed = [c \in Containers |-> FALSE]
    /\ retagged = [c \in Containers |-> FALSE]
    /\ available = [c \in Containers |-> c \in plan.toUpdate]
    /\ pc = "idle"
    /\ pos = 0
    /\ todo = plan.toUpdate
    /\ status = "none"

(* An empty plan is refused before anything is touched.                    *)
Refuse ==
    /\ pc = "idle"
    /\ plan.toUpdate = {}
    /\ Goto("refused")
    /\ UNCHANGED <<job, host, items, available>>

(* The progress record is taken, then the hooks are read from the          *)
(* database; nothing catches an exception of that query.                   *)
Begin ==
    /\ pc = "idle"
    /\ plan.toUpdate # {}
    /\ pc' \in {"prepare", "raised"}
    /\ status' = "PREPARING"
    /\ UNCHANGED <<pos, todo, job, host, items, available>>

(* Inspect the local image, pull, build the config: three attempts, each   *)
(* made whatever became of the others.  A pull moves the tag on the host.  *)
Prepare(c) ==
    /\ pc = "prepare"
    /\ c \in todo
    /\ todo' = todo \ {c}
    /\ \E inspected, configured \in BOOLEAN, pull \in Outcomes :
          /\ FailsIf(c, ~inspected \/ ~configured \/ pull # "ok")
          /\ tag' = IF pull = "error" THEN tag
                    ELSE [tag EXCEPT ![spec[c]] = Latest]
    /\ UNCHANGED <<job, st, image, attached, result, vetoed, retagged,
                   available, pc, pos, status>>

BeginStopping ==
    /\ pc = "prepare"
    /\ todo = {}
    /\ pc' = "stop"
    /\ pos' = Len(plan.order)
    /\ status' = "UPDATING"
    /\ UNCHANGED <<todo, job, host, items, available>>

-----------------------------------------------------------------------------
(* Mutant of MustStop: every container the order lists is stopped.         *)
StopsAll(c) == wasRunning[c]

(* Stopping, from the end of the order to its beginning.                   *)
MustStop(c) == c \in Involved(plan) /\ wasRunning[c]

(* Mutant of SkipStop: affected containers need not be stopped.            *)
SkipStopOfAffected ==
    /\ pc = "stop"
    /\ pos > 0
    /\ ~MustStop(Current) \/ Current \in plan.affected
    /\ pos' = pos - 1
    /\ UNCHANGED <<pc, todo, status, job, host, items, available>>

SkipStop ==
    /\ pc = "stop"
    /\ pos > 0
    /\ ~MustStop(Current)
    /\ pos' = pos - 1
    /\ UNCHANGED <<pc, todo, status, job, host, items, available>>

(* Mutant of HookVetoesStop: the hook's errors are not recorded.           *)
HookVetoesSilently ==
    /\ pc = "stop"
    /\ pos > 0
    /\ MustStop(Current)
    /\ Current \in Hooked
    /\ vetoed' = [vetoed EXCEPT ![Current] = TRUE]
    /\ pos' = pos - 1
    /\ UNCHANGED <<pc, todo, status, job, host, err, result, retagged,
                   available>>

(* A failing pre_stop or pre_update hook aborts: the container is not      *)
(* stopped.                                                                *)
HookVetoesStop ==
    /\ pc = "stop"
    /\ pos > 0
    /\ MustStop(Current)
    /\ Current \in Hooked
    /\ Fails(Current)
    /\ vetoed' = [vetoed EXCEPT ![Current] = TRUE]
    /\ pos' = pos - 1
    /\ UNCHANGED <<pc, todo, status, job, host, result, retagged, available>>

(* Stop and inspect; either may fail, the container stopped or not.        *)
StopContainer ==
    /\ pc = "stop"
    /\ pos > 0
    /\ MustStop(Current)
    /\ \E stop \in Answers(Current), inspected \in BOOLEAN :
          /\ st' = IF stop = "error" THEN st
                   ELSE [st EXCEPT ![Current] = "stopped"]
          /\ FailsIf(Current, stop # "ok" \/ ~inspected)
    /\ pos' = pos - 1
    /\ UNCHANGED <<pc, todo, status, job, image, attached, tag, result,
                   vetoed, retagged, available>>

(* Mutant of BeginUpdating: the walk starts at the second container.       *)
BeginUpdatingAtSecond ==
    /\ pc = "stop"
    /\ pos = 0
    /\ pc' = "update"
    /\ pos' = 2
    /\ UNCHANGED <<todo, status, job, host, items, available>>

BeginUpdating ==
    /\ pc = "stop"
    /\ pos = 0
    /\ pc' = "update"
    /\ pos' = 1
    /\ UNCHANGED <<todo, status, job, host, items, available>>

-----------------------------------------------------------------------------
(* Walking the order forwards.  A container that is affected, or that      *)
(* cannot be updated after all, is started again.                          *)
Restarts(c) == c \in plan.affected \/ (c \in plan.toUpdate /\ ~CanUpdate(c))

SkipUpdate ==
    /\ pc = "update"
    /\ ~Finished
    /\ \/ Current \notin Involved(plan)
       \/ Restarts(Current) /\ ~wasRunning[Current]
    /\ NextContainer
    /\ UNCHANGED <<job, host, items, available>>

(* _attempt_start_with_health up to the wait: inspect, return if running,  *)
(* start.                                                                  *)
RestartFails ==
    /\ pc = "update"
    /\ ~Finished
    /\ Restarts(Current)
    /\ wasRunning[Current]
    /\ MayStart(Current)
    /\ Fails(Current)
    /\ NextContainer
    /\ UNCHANGED <<job, image, attached, tag, result, vetoed, retagged,
                   available>>

FindRunning ==
    /\ pc = "update"
    /\ ~Finished
    /\ Restarts(Current)
    /\ wasRunning[Current]
    /\ st[Current] = "running"
    /\ NextContainer
    /\ UNCHANGED <<job, host, items, available>>

Restart ==
    /\ pc = "update"
    /\ ~Finished
    /\ Restarts(Current)
    /\ wasRunning[Current]
    /\ st[Current] = "stopped"
    /\ st' = [st EXCEPT ![Current] = "running"]
    /\ Goto("awaitStart")
    /\ UNCHANGED <<job, image, attached, tag, items, available>>

(* wait_for_container_healthy: until its timeout the container may exit.   *)
MayExit(c) ==
    \/ UNCHANGED st
    \/ st[c] = "running" /\ st' = [st EXCEPT ![c] = "stopped"]

AwaitRestarted ==
    /\ pc = "awaitStart"
    /\ \/ st[Current] = "running" /\ UNCHANGED <<st, err>>
       \/ MayExit(Current) /\ Fails(Current)
    /\ NextContainer
    /\ UNCHANGED <<job, image, attached, tag, result, vetoed, retagged,
                   available>>

-----------------------------------------------------------------------------
(* Replacing an updatable container.  Disconnecting it from its networks   *)
(* ignores the failures of each call.                                      *)
MayDetach(c) == attached' \in {attached, [attached EXCEPT ![c] = FALSE]}

BeginReplacing ==
    /\ pc = "update"
    /\ ~Finished
    /\ Current \in plan.toUpdate
    /\ CanUpdate(Current)
    /\ Goto("detach")
    /\ UNCHANGED <<job, host, items, available>>

Detach ==
    /\ pc = "detach"
    /\ \/ MayDetach(Current) /\ Goto("remove") /\ UNCHANGED err
       \/ Fails(Current) /\ Goto("cleanup") /\ UNCHANGED attached
    /\ UNCHANGED <<job, st, image, tag, result, vetoed, retagged, available>>

(* docker refuses to remove a container that is running or absent.         *)
Remove ==
    /\ pc = "remove"
    /\ \E o \in IF st[Current] = "stopped" THEN Outcomes ELSE {"error"} :
          /\ st' = IF o = "error" THEN st
                   ELSE [st EXCEPT ![Current] = "absent"]
          /\ IF o = "ok" THEN Goto("create") /\ UNCHANGED err
                         ELSE Goto("cleanup") /\ Fails(Current)
    /\ UNCHANGED <<job, image, attached, tag, result, vetoed, retagged,
                   available>>

(* docker create: the name must be free, the image is the one the spec     *)
(* points to now, and only one network is attached.                        *)
Created(c) ==
    /\ st[c] = "absent"
    /\ st' = [st EXCEPT ![c] = "stopped"]
    /\ image' = [image EXCEPT ![c] = tag[spec[c]]]
    /\ attached' = [attached EXCEPT ![c] = c \notin Linked]

(* Mutant of CreateNew: a container that ran is not started either.        *)
CreateNewOnly ==
    /\ pc = "create"
    /\ \/ Created(Current) /\ NextContainer /\ Returns(Current, "updated")
          /\ UNCHANGED err
       \/ /\ Created(Current) \/ UNCHANGED <<st, image, attached>>
          /\ Fails(Current) /\ Goto("cleanup") /\ UNCHANGED result
    /\ UNCHANGED <<job, tag, vetoed, retagged, available>>

(* A container that was not running is done once it is recreated.          *)
CreateNew ==
    /\ pc = "create"
    /\ \/ /\ Created(Current)
          /\ UNCHANGED err
          /\ IF wasRunning[Current]
             THEN Goto("startNew") /\ UNCHANGED result
             ELSE NextContainer /\ Returns(Current, "updated")
       \/ /\ Created(Current) \/ UNCHANGED <<st, image, attached>>
          /\ Fails(Current)
          /\ Goto("cleanup")
          /\ UNCHANGED result
    /\ UNCHANGED <<job, tag, vetoed, retagged, available>>

(* Mutant of RunsCommands: a command that fails is logged, not recorded.   *)
RunsAndLogs(c, failed) ==
    /\ ~failed
    /\ IF c \in Linked
       THEN attached' \in {attached, [attached EXCEPT ![c] = TRUE]}
       ELSE UNCHANGED attached

(* The commands that connect the other networks.  Each is tried; one whose *)
(* answer is an error or gets lost is recorded and nothing more.           *)
RunsCommands(c, failed) ==
    IF c \in Linked
    THEN \/ attached' = [attached EXCEPT ![c] = TRUE]
         \/ failed /\ UNCHANGED attached
    ELSE ~failed /\ UNCHANGED attached

(* Start, the commands, inspect.                                           *)
StartNew ==
    /\ pc = "startNew"
    /\ \/ /\ Started(Current)
          /\ \E failed \in BOOLEAN :
                /\ RunsCommands(Current, failed)
                /\ \/ FailsIf(Current, failed) /\ Goto("awaitNew")
                   \/ Fails(Current) /\ Goto("cleanup")
       \/ /\ MayStart(Current)
          /\ UNCHANGED attached
          /\ Fails(Current)
          /\ Goto("cleanup")
    /\ UNCHANGED <<job, image, tag, result, vetoed, retagged, available>>

(* Healthy: updated, and the post_update hooks can only add errors.        *)
AwaitNew ==
    /\ pc = "awaitNew"
    /\ \/ /\ st[Current] = "running"
          /\ Returns(Current, "updated")
          /\ HooksMayFail(Current)
          /\ NextContainer
          /\ UNCHANGED st
       \/ /\ MayExit(Current)
          /\ \/ Goto("teardown") /\ UNCHANGED err
             \/ Goto("cleanup") /\ Fails(Current)
          /\ UNCHANGED result
    /\ UNCHANGED <<job, image, attached, tag, vetoed, retagged, available>>

(* stop, inspect, disconnect, remove, given up at the first failure: how   *)
(* far it got is any prefix of the sequence.                               *)
TearDown(c, done) ==
    /\ \/ UNCHANGED st /\ ~done
       \/ st[c] # "absent" /\ st' = [st EXCEPT ![c] = "stopped"] /\ ~done
       \/ st[c] # "absent" /\ st' = [st EXCEPT ![c] = "absent"]
    /\ \/ UNCHANGED attached
       \/ st'[c] # "running" /\ attached' = [attached EXCEPT ![c] = FALSE]

TearDownUnhealthy ==
    /\ pc = "teardown"
    /\ \/ TearDown(Current, TRUE) /\ Goto("tagOld") /\ HooksMayFail(Current)
       \/ TearDown(Current, FALSE) /\ Goto("cleanup") /\ Fails(Current)
    /\ UNCHANGED <<job, image, tag, result, vetoed, retagged, available>>

(* Mutant of CleanUp: no roll-back after it.                               *)
CleanUpAndLeave ==
    /\ pc = "cleanup"
    /\ IF st[Current] = "absent"
       THEN UNCHANGED <<st, attached>>
       ELSE TearDown(Current, FALSE)
    /\ NextContainer
    /\ UNCHANGED <<job, image, tag, items, available>>

(* The same sequence once more after an exception, its own failure         *)
(* swallowed.                                                              *)
CleanUp ==
    /\ pc = "cleanup"
    /\ IF st[Current] = "absent"
       THEN UNCHANGED <<st, attached>>
       ELSE TearDown(Current, FALSE)
    /\ Goto("tagOld")
    /\ UNCHANGED <<job, image, tag, items, available>>

-----------------------------------------------------------------------------
(* Mutant of TagOld: the tag call is made for the new image.               *)
TagCreated ==
    /\ pc = "tagOld"
    /\ tag' = [tag EXCEPT ![spec[Current]] = Latest]
    /\ retagged' = [retagged EXCEPT ![Current] = TRUE]
    /\ Goto("recreate")
    /\ UNCHANGED <<job, st, image, attached, err, result, vetoed, available>>

(* Rolling back: the spec is pointed at the previous image again, and the  *)
(* container created from the previous config, which names the spec.       *)
TagOld ==
    /\ pc = "tagOld"
    /\ \E o \in Outcomes :
          /\ tag' = IF o = "error" THEN tag
                    ELSE [tag EXCEPT ![spec[Current]] = oldImage[Current]]
          /\ retagged' = [retagged EXCEPT ![Current] = (o = "ok")]
          /\ FailsIf(Current, o # "ok")
    /\ Goto("recreate")
    /\ UNCHANGED <<job, st, image, attached, result, vetoed, available>>

(* Mutant of RollBackFails: the result of a failed roll-back is not kept.  *)
RollBackFailsUnreported == Fails(Current) /\ NextContainer /\ UNCHANGED result

RollBackFails == Returns(Current, "failed") /\ Fails(Current) /\ NextContainer

Recreate ==
    /\ pc = "recreate"
    /\ \/ /\ Created(Current)
          /\ Goto("startOld")
          /\ UNCHANGED <<err, result>>
       \/ /\ Created(Current) \/ UNCHANGED <<st, image, attached>>
          /\ RollBackFails
    /\ UNCHANGED <<job, tag, vetoed, retagged, available>>

(* Started even when the container was not running before the update.  The *)
(* post_rollback hooks record their errors as the commands do.             *)
StartOld ==
    /\ pc = "startOld"
    /\ \/ /\ Started(Current)
          /\ \E failed, hookFailed \in BOOLEAN :
                /\ hookFailed => Current \in Hooked
                /\ RunsCommands(Current, failed)
                /\ \/ /\ FailsIf(Current, failed \/ hookFailed)
                      /\ Returns(Current, "rolled_back")
                      /\ Goto("awaitOld")
                   \/ RollBackFails
       \/ /\ MayStart(Current)
          /\ UNCHANGED attached
          /\ RollBackFails
    /\ UNCHANGED <<job, image, tag, vetoed, retagged, available>>

(* An unhealthy container stays "rolled_back"; only an exception of the    *)
(* wait makes it "failed".                                                 *)
AwaitOld ==
    /\ pc = "awaitOld"
    /\ MayExit(Current)
    /\ \/ NextContainer /\ UNCHANGED <<err, result>>
       \/ RollBackFails
    /\ UNCHANGED <<job, image, attached, tag, vetoed, retagged, available>>

-----------------------------------------------------------------------------
EndUpdating ==
    /\ pc = "update"
    /\ Finished
    /\ Goto("finish")
    /\ UNCHANGED <<job, host, items, available>>

(* update_containers_data_after_execution, then the record says DONE.      *)
Finish ==
    /\ pc = "finish"
    /\ available' =
          [c \in Containers |-> available[c] /\ result[c] # "updated"]
    /\ pc' = "done"
    /\ status' = "DONE"
    /\ UNCHANGED <<pos, todo, job, host, items>>

(* Nothing catches an exception of the database.                           *)
FinishRaises ==
    /\ pc = "finish"
    /\ Goto("raised")
    /\ UNCHANGED <<job, host, items, available>>

Terminated == pc \in Ended /\ UNCHANGED vars

Next ==
    \/ Refuse \/ Begin
    \/ \E c \in Containers : Prepare(c)
    \/ BeginStopping \/ SkipStop \/ HookVetoesStop \/ StopContainer
    \/ BeginUpdating \/ SkipUpdate
    \/ RestartFails \/ FindRunning \/ Restart \/ AwaitRestarted
    \/ BeginReplacing \/ Detach \/ Remove \/ CreateNew \/ StartNew \/ AwaitNew
    \/ TearDownUnhealthy \/ CleanUp
    \/ TagOld \/ Recreate \/ StartOld \/ AwaitOld
    \/ EndUpdating \/ Finish \/ FinishRaises
    \/ Terminated

Spec == Init /\ [][Next]_vars

(* The coroutine goes on: each call of the agent has a timeout, and so has *)
(* each wait for health.                                                   *)
FairSpec == Spec /\ WF_vars(Next)
-----------------------------------------------------------------------------
TypeOK ==
    /\ plan \in Plans
    /\ spec \in [Containers -> Specs]
    /\ oldImage \in [Containers -> Versions]
    /\ wasRunning \in [Containers -> BOOLEAN]
    /\ st \in [Containers -> {"running", "stopped", "absent"}]
    /\ image \in [Containers -> Versions]
    /\ attached \in [Containers -> BOOLEAN]
    /\ tag \in [Specs -> Versions]
    /\ err \in [Containers -> BOOLEAN]
    /\ result \in [Containers -> Results]
    /\ vetoed \in [Containers -> BOOLEAN]
    /\ retagged \in [Containers -> BOOLEAN]
    /\ available \in [Containers -> BOOLEAN]
    /\ pc \in Labels
    /\ pos \in 0..(Len(plan.order) + 1)
    /\ todo \in SUBSET Containers
    /\ status \in {"none", "PREPARING", "UPDATING", "DONE"}
    /\ pc \in Replacing \cup {"awaitStart"} => pos \in 1..Len(plan.order)
    /\ pc \in {"update", "finish"} => pos > 0
    /\ pc = "stop" => pos <= Len(plan.order)

(* At every moment, so at every point where the process may be killed, a   *)
(* container that is missing from the host is the one being replaced right *)
(* now, or one already reported "failed" (removal and re-creation, 258-392 *)
(* of update_actions_executor.py).                                         *)
OnlyCurrentMissing ==
    \A c \in Containers :
        st[c] = "absent" => \/ result[c] = "failed"
                            \/ pc \in Replacing /\ c = Current

(* "updated": Container successfully recreated with the new image          *)
(* (README, result options).  The same holds of every updatable container  *)
(* whose update_available flag the run has cleared.                        *)
RunsLatest(c) ==
    result[c] = "updated" \/ (c \in plan.toUpdate /\ ~available[c])
        => image[c] = Latest

(* The same, of the containers that share their image spec with no other   *)
(* updatable container of the plan: nobody else moves their tag between    *)
(* the pull and the creation.                                              *)
SharesSpec(c) == \E d \in plan.toUpdate \ {c} : spec[d] = spec[c]

UnsharedUpdatedRunsLatest ==
    \A c \in Containers : ~SharesSpec(c) => RunsLatest(c)

(* The same, when the call that points the spec back at the old image was  *)
(* answered: a roll-back restores the image whatever step failed before.   *)
RetaggedRollBackRunsOld ==
    \A c \in Containers :
        result[c] = "rolled_back" /\ retagged[c] => image[c] = oldImage[c]

(* Affected containers are stopped and started, never recreated; the rest  *)
(* of the host, even when the order lists it, is not touched at all.       *)
BystandersUntouched ==
    \A c \in Containers \ plan.toUpdate :
        /\ st[c] # "absent" /\ image[c] = oldImage[c] /\ attached[c]
        /\ c \notin plan.affected => (st[c] = "running") = wasRunning[c]
        /\ st[c] = "running" => wasRunning[c]

(* While a container is being replaced, every involved container placed    *)
(* after it that was running is down, unless stopping it went wrong (error *)
(* or hook): nothing runs against a dependency that is half replaced.      *)
DependentsDown ==
    pc \in Replacing =>
        \A j \in (pos + 1)..Len(plan.order) :
            LET d == plan.order[j]
            IN  MustStop(d) /\ ~err[d] => st[d] = "stopped"

(* A failing pre_update or pre_stop hook aborts that container's update -  *)
(* the container is left running as-is (README, hooks).                    *)
VetoedStaysUp ==
    \A c \in Containers :
        vetoed[c] => /\ st[c] = "running" /\ attached[c]
                     /\ image[c] = oldImage[c] /\ result[c] = "none"

(* The two reasons a recreated container may lack some of its networks: a  *)
(* command failed, or the container was not running, is left as soon as it *)
(* is created, and its commands are never run.                             *)
MayMissNetworks(c) ==
    c \in Linked /\ (err[c] \/ (result[c] = "updated" /\ ~wasRunning[c]))

(* When the walk is over, what the run reports about a container and what  *)
(* is on the host agree: without a result the old image is still there,    *)
(* with all its networks, and a container that was running runs, or an     *)
(* error was recorded; "updated" runs again if it ran before; only         *)
(* "failed", which never comes without an error, may be missing; and a     *)
(* recreated container has all its networks save for the reasons above.    *)
ReportMatchesHost ==
    pc \in {"finish", "done"} =>
        \A c \in Containers :
            /\ result[c] = "none" =>
                  /\ image[c] = oldImage[c] /\ attached[c]
                  /\ wasRunning[c] /\ ~err[c] => st[c] = "running"
            /\ result[c] = "updated" => (st[c] = "running") = wasRunning[c]
            /\ result[c] # "failed" => st[c] # "absent"
            /\ result[c] \in {"updated", "rolled_back"} =>
                  attached[c] \/ MayMissNetworks(c)
            /\ result[c] = "failed" => err[c]

(* Once the record says that the plan is being executed, the coroutine     *)
(* comes to its end, and then every updatable container has a result or an *)
(* error: no "continue" loses its place in the order.                      *)
EveryUpdatableSettled ==
    status = "UPDATING" ~>
        /\ pc \in Ended
        /\ \A c \in plan.toUpdate : result[c] # "none" \/ err[c]
-----------------------------------------------------------------------------
(* The inductive invariant, one part per question.                         *)
(*                                                                         *)
(* Who is being worked on, and who has been: a result is only given at the *)
(* container's own place in the order, once.                               *)
Passed(c) == \E j \in 1..Len(plan.order) :
                 plan.order[j] = c /\ (j < pos \/ (j = pos /\ pc = "awaitOld"))

Placed ==
    /\ pc \in Replacing => Current \in plan.toUpdate
    /\ pc = "awaitStart" => Restarts(Current) /\ wasRunning[Current]
    /\ pc = "awaitOld" => result[Current] = "rolled_back"
    /\ pc \in {"idle", "prepare", "stop", "refused"} =>
          \A c \in Containers : result[c] = "none"
    /\ \A c \in Containers : result[c] # "none" => Passed(c)

(* Where the code has the container in hand, the container exists.         *)
Present ==
    /\ pc \in {"detach", "remove", "startNew", "awaitNew", "startOld",
               "awaitOld", "awaitStart"} => st[Current] # "absent"
    /\ OnlyCurrentMissing

(* From its pull until its own roll-back, the spec of a container that can *)
(* be updated points to the pulled image, if nobody else moves it.         *)
Prepared ==
    /\ todo \subseteq plan.toUpdate
    /\ pc \in {"detach", "remove", "create"} => ~err[Current]
    /\ pc \notin {"idle", "prepare", "refused", "raised"} => todo = {}

NewImageHeld(c) ==
    /\ c \in plan.toUpdate \ todo /\ ~err[c] /\ result[c] = "none"
       /\ ~(pc \in {"recreate", "startOld"} /\ c = Current)
       => tag[spec[c]] = Latest
    /\ pc \in {"startNew", "awaitNew"} /\ c = Current => image[c] = Latest
    /\ result[c] = "updated" => image[c] = Latest

TagsHeld ==
    /\ Prepared
    /\ \A c \in Containers : ~SharesSpec(c) => NewImageHeld(c)
    /\ \A c \in plan.toUpdate : ~available[c] => result[c] = "updated"

(* From the answered tag call to the result, the old image is in hand.     *)
OldImageHeld(c) ==
    /\ pc = "recreate" /\ c = Current /\ retagged[c] =>
          tag[spec[c]] = oldImage[c]
    /\ pc = "startOld" /\ c = Current /\ retagged[c] => image[c] = oldImage[c]
    /\ result[c] = "rolled_back" /\ retagged[c] => image[c] = oldImage[c]

(* A veto is an error, falls on a container nobody has touched yet, and    *)
(* keeps the container out of every hand.                                  *)
Untouched(c) ==
    ~vetoed[c] /\ attached[c] /\ image[c] = oldImage[c]
               /\ (wasRunning[c] => st[c] = "running")

VetoHeld ==
    /\ \A c \in Containers : vetoed[c] => err[c]
    /\ pc \in Replacing \cup {"awaitStart"} => ~vetoed[Current]
    /\ pc \in {"idle", "prepare"} => \A c \in Containers : Untouched(c)
    /\ pc = "stop" => \A j \in 1..pos : Untouched(plan.order[j])
    /\ VetoedStaysUp

(* What the backward walk has stopped stays stopped until the forward walk *)
(* gets there.                                                             *)
IsDown(d) == MustStop(d) /\ ~err[d] => st[d] = "stopped"

StillDown ==
    \A j \in 1..Len(plan.order) :
        \/ pc \in {"stop", "awaitStart"} \cup Replacing /\ j > pos
        \/ pc = "update" /\ j >= pos
        => IsDown(plan.order[j])

(* What the report will say of a container and what the host runs agree as *)
(* soon as the walk has passed it, and are not disturbed any more.         *)
Behind(c) == \E j \in 1..Len(plan.order) : plan.order[j] = c /\ j < pos

ReportHeld ==
    /\ pc \in {"finish", "done"} => pos > Len(plan.order)
    /\ pc \in {"startNew", "awaitNew"} => wasRunning[Current]
    /\ pc \in {"awaitStart", "awaitNew"} => st[Current] = "running"
    /\ pc \in {"startNew", "startOld"} => attached[Current] \/ Current \in Linked
    /\ pc \in {"awaitNew", "awaitOld"} =>
          attached[Current] \/ (Current \in Linked /\ err[Current])
    /\ \A c \in Containers :
          /\ result[c] = "none" /\ ~(pc \in Replacing /\ c = Current) =>
                image[c] = oldImage[c] /\ attached[c]
          /\ /\ result[c] = "none" /\ wasRunning[c] /\ ~err[c] /\ Behind(c)
             /\ pc \in Replacing \cup {"update", "awaitStart", "finish", "done"}
             => st[c] = "running"
          /\ result[c] = "updated" => (st[c] = "running") = wasRunning[c]
          /\ result[c] \in {"updated", "rolled_back"} =>
                attached[c] \/ MayMissNetworks(c)
          /\ result[c] = "failed" => err[c]

IInv == /\ Placed /\ Present /\ TagsHeld
        /\ \A c \in Containers : OldImageHeld(c)
        /\ BystandersUntouched /\ VetoHeld /\ StillDown /\ ReportHeld
-----------------------------------------------------------------------------
(* What a run answers for when it is not alone on the host.                *)
(*                                                                         *)
(* The name it may have removed and not created again.                     *)
Vacant == IF pc \in {"create", "cleanup", "tagOld", "recreate"} THEN {Current} ELSE {}

(* It has an error or a roll-back to show for the container.               *)
Settled(c) == err[c] \/ result[c] \in {"rolled_back", "failed"}

(* It has stopped the container, or may have, and is still to start it.    *)
Owed(c) ==
    \/ /\ pc \in {"startNew", "awaitNew", "teardown", "cleanup", "tagOld", "recreate",
                  "startOld"}
       /\ c = Current
    \/ /\ MustStop(c)
       /\ \E j \in 1..Len(plan.order) :
             /\ plan.order[j] = c
             /\ \/ pc \in {"stop", "awaitStart"} \cup Replacing /\ j > pos
                \/ pc \in {"update", "detach", "remove", "create"} /\ j >= pos
=============================================================================
