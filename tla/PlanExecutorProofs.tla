------------------------- MODULE PlanExecutorProofs -------------------------
(***************************************************************************)
(* Theorems about PlanExecutor for any number of containers, any plan that *)
(* satisfies IsPlan and any assignment of image specs: its invariants, and *)
(* that it implements HostUpdate.                                          *)
(***************************************************************************)
EXTENDS HostUpdateRefinement, TLAPS

(* What IsPlan says of the plan at hand.                                   *)
LEMMA PlanFacts ==
    ASSUME plan \in Plans
    PROVE  /\ plan.toUpdate \subseteq Containers
           /\ plan.affected \subseteq Containers
           /\ plan.order \in Seq(Containers)
           /\ Len(plan.order) \in Nat
           /\ \A i \in 1..Len(plan.order) : plan.order[i] \in Containers
           /\ \A i, j \in 1..Len(plan.order) :
                 plan.order[i] = plan.order[j] => i = j
           /\ plan.toUpdate \cap plan.affected = {}
  BY PlanAssumption DEF IsPlan

(* Tearing a container down, wherever it is given up, touches nothing but   *)
(* that container.                                                         *)
LEMMA TearDownLocal ==
    ASSUME TypeOK, NEW c \in Containers, NEW done \in BOOLEAN,
           TearDown(c, done)
    PROVE  /\ st' \in [Containers -> {"running", "stopped", "absent"}]
           /\ attached' \in [Containers -> BOOLEAN]
           /\ \A d \in Containers \ {c} :
                 st'[d] = st[d] /\ attached'[d] = attached[d]
           /\ done => st'[c] = "absent"
  BY DEF TypeOK, TearDown

(* What starting a recreated container may do: the host and the errors of  *)
(* the container alone change, and the networks only become more.          *)
LEMMA StartEffect ==
    ASSUME TypeOK, StartNew \/ StartOld
    PROVE  /\ pos \in 1..Len(plan.order) /\ Current \in Containers
           /\ UNCHANGED <<job, image, tag, vetoed, retagged, available, todo, status>>
           /\ st' \in [Containers -> {"running", "stopped", "absent"}]
           /\ attached' \in [Containers -> BOOLEAN]
           /\ err' \in [Containers -> BOOLEAN]
           /\ \A d \in Containers \ {Current} :
                 st'[d] = st[d] /\ attached'[d] = attached[d] /\ err'[d] = err[d]
           /\ err[Current] => err'[Current]
           /\ attached[Current] => attached'[Current]
           /\ st'[Current] \in {st[Current], "running"}
           /\ st[Current] = "absent" => st'[Current] = "absent"
<1> USE DEF TypeOK
<1>1. pc \in {"startNew", "startOld"} /\ pos \in 1..Len(plan.order)
  BY DEF StartNew, StartOld, Replacing
<1>2. Current \in Containers
  BY <1>1, PlanFacts DEF Current
<1>3. UNCHANGED <<job, image, tag, vetoed, retagged, available, todo, status>>
  BY DEF StartNew, StartOld, Goto, RollBackFails, NextContainer
<1>4. Started(Current) \/ UNCHANGED st
  BY DEF StartNew, StartOld, MayStart
<1>5. attached' = attached \/ attached' = [attached EXCEPT ![Current] = TRUE]
  BY DEF StartNew, StartOld, RunsCommands
<1>6. Fails(Current) \/ \E bad \in BOOLEAN : FailsIf(Current, bad)
  <2>1. CASE StartNew
    BY <2>1 DEF StartNew, RunsCommands
  <2>2. ASSUME NEW failed \in BOOLEAN, NEW hookFailed \in BOOLEAN,
               FailsIf(Current, failed \/ hookFailed)
        PROVE  \E bad \in BOOLEAN : FailsIf(Current, bad)
    <3>1. (failed \/ hookFailed) \in BOOLEAN
      OBVIOUS
    <3>2. QED
      BY <2>2, <3>1
  <2>3. CASE StartOld
    BY <2>2, <2>3 DEF StartOld, RollBackFails
  <2>4. QED
    BY <2>1, <2>3
<1>7. /\ err' \in [Containers -> BOOLEAN]
      /\ \A d \in Containers \ {Current} : err'[d] = err[d]
      /\ err[Current] => err'[Current]
  BY <1>2, <1>6 DEF Fails, FailsIf
<1>8. QED
  BY <1>1, <1>2, <1>3, <1>4, <1>5, <1>7 DEF Started

(* No step changes a type, and none makes the walk run off the order.      *)
LEMMA TypeStep ==
    ASSUME TypeOK, [Next]_vars
    PROVE  TypeOK'
<1> USE PlanFacts, LatestAssumption
    DEF TypeOK, Results, Labels, Replacing, Ended, job, host, items,
        Finished, Goto, NextContainer, Fails, MayFail,
        HooksMayFail, FailsIf, Returns, Answers, Started, MayStart,
        Outcomes
<1>0. pos \in 1..Len(plan.order) => Current \in Containers
  BY DEF Current
<1>1. CASE UNCHANGED vars
  BY <1>1 DEF vars, control
<1>2. CASE Refuse
  BY <1>2 DEF Refuse
<1>3. CASE Begin
  BY <1>3 DEF Begin
<1>4. ASSUME NEW c \in Containers, Prepare(c) PROVE TypeOK'
  BY <1>4 DEF Prepare
<1>5. CASE BeginStopping
  BY <1>5 DEF BeginStopping
<1>6. CASE SkipStop
  BY <1>0, <1>6 DEF SkipStop
<1>7. CASE HookVetoesStop
  BY <1>0, <1>7 DEF HookVetoesStop
<1>8. CASE StopContainer
  BY <1>0, <1>8 DEF StopContainer
<1>9. CASE BeginUpdating
  BY <1>9 DEF BeginUpdating
<1>10. CASE SkipUpdate
  BY <1>0, <1>10 DEF SkipUpdate
<1>11. CASE RestartFails
  BY <1>0, <1>11 DEF RestartFails
<1>12. CASE FindRunning
  BY <1>0, <1>12 DEF FindRunning
<1>13. CASE Restart
  BY <1>0, <1>13 DEF Restart
<1>14. CASE AwaitRestarted
  <2>1. Current \in Containers
    BY <1>0, <1>14 DEF AwaitRestarted
  <2>2. st' \in [Containers -> {"running", "stopped", "absent"}]
    BY <2>1, <1>14 DEF AwaitRestarted, MayExit
  <2>3. err' \in [Containers -> BOOLEAN]
    BY <2>1, <1>14 DEF AwaitRestarted, MayExit
  <2>. QED
    BY <2>2, <2>3, <1>14 DEF AwaitRestarted
<1>15. CASE BeginReplacing
  BY <1>0, <1>15 DEF BeginReplacing
<1>16. CASE Detach
  <2>0. Current \in Containers
    BY <1>0, <1>16 DEF Detach
  <2>1. attached' \in [Containers -> BOOLEAN]
    BY <2>0, <1>16 DEF Detach, MayDetach
  <2>2. err' \in [Containers -> BOOLEAN]
    BY <2>0, <1>16 DEF Detach, MayDetach
  <2>. QED
    BY <2>1, <2>2, <1>0, <1>16 DEF Detach
<1>17. CASE Remove
  BY <1>0, <1>17 DEF Remove
<1>18. CASE CreateNew
  <2>0. Current \in Containers
    BY <1>0, <1>18 DEF CreateNew
  <2>1. st' \in [Containers -> {"running", "stopped", "absent"}]
    BY <2>0, <1>18 DEF CreateNew, Created
  <2>2. image' \in [Containers -> Versions]
    BY <2>0, <1>18 DEF CreateNew, Created
  <2>3. attached' \in [Containers -> BOOLEAN]
    BY <2>0, <1>18 DEF CreateNew, Created
  <2>4. err' \in [Containers -> BOOLEAN]
    BY <2>0, <1>18 DEF CreateNew, Created
  <2>5. result' \in [Containers -> Results]
    BY <2>0, <1>18 DEF CreateNew, Created
  <2>. QED
    BY <2>1, <2>2, <2>3, <2>4, <2>5, <1>0, <1>18 DEF CreateNew
<1>19. CASE StartNew
  <2>0. Current \in Containers
    BY <1>0, <1>19 DEF StartNew, RunsCommands
  <2>1. st' \in [Containers -> {"running", "stopped", "absent"}]
    BY <1>19, StartEffect
  <2>2. err' \in [Containers -> BOOLEAN] /\ attached' \in [Containers -> BOOLEAN]
    BY <1>19, StartEffect
  <2>3. /\ UNCHANGED <<job, image, tag, result, vetoed, retagged, available>>
        /\ pc' \in {"awaitNew", "cleanup"} /\ UNCHANGED <<pos, todo, status>>
    BY <1>19 DEF StartNew
  <2>. QED
    BY <2>0, <2>1, <2>2, <2>3, <1>19 DEF StartNew
<1>20. CASE AwaitNew
  <2>0. Current \in Containers
    BY <1>0, <1>20 DEF AwaitNew
  <2>1. st' \in [Containers -> {"running", "stopped", "absent"}]
    BY <2>0, <1>20 DEF AwaitNew, MayExit
  <2>2. err' \in [Containers -> BOOLEAN]
    BY <2>0, <1>20 DEF AwaitNew, MayExit
  <2>3. result' \in [Containers -> Results]
    BY <2>0, <1>20 DEF AwaitNew, MayExit
  <2>. QED
    BY <2>1, <2>2, <2>3, <1>0, <1>20 DEF AwaitNew
<1>21. CASE TearDownUnhealthy
  <2>0. Current \in Containers
    BY <1>0, <1>21 DEF TearDownUnhealthy
  <2>1. st' \in [Containers -> {"running", "stopped", "absent"}]
    BY <2>0, <1>21, TearDownLocal DEF TearDownUnhealthy
  <2>2. attached' \in [Containers -> BOOLEAN]
    BY <2>0, <1>21, TearDownLocal DEF TearDownUnhealthy
  <2>3. err' \in [Containers -> BOOLEAN]
    BY <2>0, <1>21 DEF TearDownUnhealthy
  <2>4. pc' \in {"tagOld", "cleanup"} /\ UNCHANGED <<pos, todo, status>>
    BY <1>21 DEF TearDownUnhealthy
  <2>. QED
    BY <2>1, <2>2, <2>3, <2>4, <1>0, <1>21 DEF TearDownUnhealthy
<1>22. CASE CleanUp
  <2>0. Current \in Containers
    BY <1>0, <1>22 DEF CleanUp
  <2>1. st' \in [Containers -> {"running", "stopped", "absent"}]
    BY <2>0, <1>22, TearDownLocal DEF CleanUp
  <2>2. attached' \in [Containers -> BOOLEAN]
    BY <2>0, <1>22, TearDownLocal DEF CleanUp
  <2>. QED
    BY <2>1, <2>2, <1>0, <1>22 DEF CleanUp
<1>23. CASE TagOld
  BY <1>0, <1>23 DEF TagOld
<1>24. CASE Recreate
  <2>0. Current \in Containers
    BY <1>0, <1>24 DEF Recreate
  <2>1. st' \in [Containers -> {"running", "stopped", "absent"}]
    BY <2>0, <1>24 DEF Recreate, Created
  <2>2. image' \in [Containers -> Versions]
    BY <2>0, <1>24 DEF Recreate, Created
  <2>3. attached' \in [Containers -> BOOLEAN]
    BY <2>0, <1>24 DEF Recreate, Created
  <2>4. err' \in [Containers -> BOOLEAN]
    BY <2>0, <1>24 DEF Recreate, RollBackFails
  <2>5. result' \in [Containers -> Results]
    BY <2>0, <1>24 DEF Recreate, RollBackFails
  <2>. QED
    BY <2>1, <2>2, <2>3, <2>4, <2>5, <1>0, <1>24 DEF Recreate, RollBackFails
<1>25. CASE StartOld
  <2>0. Current \in Containers
    BY <1>0, <1>25 DEF StartOld
  <2>1. st' \in [Containers -> {"running", "stopped", "absent"}]
    BY <1>25, StartEffect
  <2>2. err' \in [Containers -> BOOLEAN] /\ attached' \in [Containers -> BOOLEAN]
    BY <1>25, StartEffect
  <2>3. result' \in [Containers -> Results]
    BY <2>0, <1>25 DEF StartOld, RollBackFails
  <2>4. /\ UNCHANGED <<job, image, tag, vetoed, retagged, available, todo, status>>
        /\ \/ pc' = "awaitOld" /\ pos' = pos
           \/ pc' = "update" /\ pos' = pos + 1
    BY <1>25 DEF StartOld, RollBackFails
  <2>. QED
    BY <2>0, <2>1, <2>2, <2>3, <2>4, <1>25 DEF StartOld
<1>26. CASE AwaitOld
  <2>0. Current \in Containers
    BY <1>0, <1>26 DEF AwaitOld
  <2>1. st' \in [Containers -> {"running", "stopped", "absent"}]
    BY <2>0, <1>26 DEF AwaitOld, MayExit, RollBackFails
  <2>2. err' \in [Containers -> BOOLEAN]
    BY <2>0, <1>26 DEF AwaitOld, MayExit, RollBackFails
  <2>3. result' \in [Containers -> Results]
    BY <2>0, <1>26 DEF AwaitOld, MayExit, RollBackFails
  <2>. QED
    BY <2>1, <2>2, <2>3, <1>0, <1>26 DEF AwaitOld, RollBackFails
<1>27. CASE EndUpdating
  BY <1>27 DEF EndUpdating
<1>28. CASE Finish
  BY <1>28 DEF Finish
<1>29. CASE FinishRaises
  BY <1>29 DEF FinishRaises
<1>30. CASE Terminated
  BY <1>30 DEF Terminated, vars, control
<1> QED
  BY <1>1, <1>2, <1>3, <1>4, <1>5, <1>6, <1>7, <1>8, <1>9, <1>10, <1>11,
     <1>12, <1>13, <1>14, <1>15, <1>16, <1>17, <1>18, <1>19, <1>20, <1>21,
     <1>22, <1>23, <1>24, <1>25, <1>26, <1>27, <1>28, <1>29, <1>30 DEF Next

(* Every variable keeps its type, and the walk never runs off the order.   *)
THEOREM TypeCorrect == Spec => []TypeOK
<1>1. Init => TypeOK
  BY PlanFacts DEF Init, TypeOK, Results, Labels, Replacing, Ended
<1>2. QED
  BY <1>1, TypeStep, PTL DEF Spec
-----------------------------------------------------------------------------
(* Each part of the inductive invariant is kept by every step.             *)
(*                                                                         *)
(* The container whose turn it is has no result yet.                       *)
LEMMA NotPassed ==
    ASSUME TypeOK, Placed, pos \in 1..Len(plan.order), pc # "awaitOld"
    PROVE  result[Current] = "none"
  BY PlanFacts DEF TypeOK, Placed, Passed, Current

(* A step moves the walk by one place at most, and gives a result only to  *)
(* the container in hand.                                                  *)
LEMMA PlacedStep ==
    ASSUME TypeOK, Placed, [Next]_vars
    PROVE  Placed'
<1> USE PlanFacts
    DEF TypeOK, Current, Replacing, Results, job, host, items, Finished, Goto,
          NextContainer, Fails, MayFail,
          HooksMayFail, FailsIf, Returns, Answers, Started, MayStart,
          CanUpdate, Placed,
          Passed, Restarts
<1>0. pos \in 1..Len(plan.order) => Current \in Containers
  OBVIOUS
<1>1. CASE UNCHANGED vars
  BY <1>1 DEF vars, control
<1>2. CASE Refuse \/ Begin \/ BeginStopping \/ BeginUpdating
  BY <1>0, <1>2 DEF Refuse, Begin, BeginStopping, BeginUpdating
<1>3. CASE SkipStop \/ HookVetoesStop \/ StopContainer
  BY <1>0, <1>3 DEF SkipStop, HookVetoesStop, StopContainer
<1>4. ASSUME NEW c \in Containers, Prepare(c) PROVE Placed'
  BY <1>0, <1>4 DEF Prepare
<1>5. CASE SkipUpdate
  BY <1>0, <1>5 DEF SkipUpdate
<1>6. CASE FindRunning
  BY <1>0, <1>6 DEF FindRunning
<1>7. CASE RestartFails
  BY <1>0, <1>7 DEF RestartFails
<1>8. CASE Restart
  <2>1. /\ pc = "update" /\ pc' = "awaitStart"
        /\ UNCHANGED <<plan, wasRunning, result, err, pos>>
        /\ Restarts(Current) /\ wasRunning[Current]
    BY <1>8 DEF Restart
  <2>2. QED
    BY <1>0, <2>1
<1>20. CASE AwaitRestarted
  <2>1. /\ pc = "awaitStart" /\ pc' = "update"
        /\ UNCHANGED <<plan, wasRunning, result>> /\ pos' = pos + 1
    BY <1>20 DEF AwaitRestarted
  <2>2. QED
    BY <1>0, <2>1
<1>9. CASE BeginReplacing \/ EndUpdating
  BY <1>0, <1>9 DEF BeginReplacing, EndUpdating
<1>10. CASE Detach \/ Remove \/ StartNew
  <2>1. /\ pc \in Replacing /\ pc' \in Replacing /\ pc' # "awaitOld"
        /\ pc # "awaitOld" /\ UNCHANGED <<plan, result, pos>>
    BY <1>10 DEF Detach, Remove, StartNew
  <2>2. QED
    BY <2>1
<1>11. CASE CleanUp
  BY <1>0, <1>11 DEF CleanUp
<1>12. CASE TagOld
  BY <1>0, <1>12 DEF TagOld
<1>13. CASE TearDownUnhealthy
  <2>1. pc = "teardown" /\ pc' \in {"tagOld", "cleanup"}
    BY <1>13 DEF TearDownUnhealthy
  <2>2. UNCHANGED <<job, pos, result>>
    BY <1>13 DEF TearDownUnhealthy
  <2>. QED
    BY <2>1, <2>2
<1>14. CASE CreateNew
  BY <1>0, <1>14 DEF CreateNew, Created
<1>15. CASE AwaitNew
  <2>1. pos \in 1..Len(plan.order) /\ UNCHANGED job
    BY <1>15 DEF AwaitNew
  <2>2. CASE Returns(Current, "updated") /\ NextContainer
    BY <1>0, <2>1, <2>2, <1>15 DEF AwaitNew
  <2>3. CASE pc' \in {"teardown", "cleanup"} /\ UNCHANGED <<result, pos>>
    BY <1>0, <2>1, <2>3, <1>15 DEF AwaitNew
  <2>. QED
    BY <2>2, <2>3, <1>15 DEF AwaitNew
<1>16. CASE Recreate
  BY <1>0, <1>16 DEF Recreate, Created, RollBackFails
<1>17. CASE StartOld
  BY <1>0, <1>17 DEF StartOld, RollBackFails, RunsCommands
<1>18. CASE AwaitOld
  BY <1>0, <1>18 DEF AwaitOld, RollBackFails, MayExit
<1>19. CASE Finish \/ FinishRaises \/ Terminated
  BY <1>0, <1>19 DEF Finish, FinishRaises, Terminated, vars, control
<1> QED
  BY <1>1, <1>2, <1>3, <1>4, <1>5, <1>6, <1>7, <1>8, <1>9, <1>10, <1>11,
     <1>12, <1>13, <1>14, <1>15, <1>16, <1>17, <1>18, <1>19, <1>20
  DEF Next

(* The container in hand exists wherever the code goes on using it, and no *)
(* other container disappears.                                             *)
LEMMA PresentStep ==
    ASSUME TypeOK, Placed, Present, [Next]_vars
    PROVE  Present'
<1> USE PlanFacts
    DEF TypeOK, Current, Replacing, Results, job, host, items, Finished, Goto,
          NextContainer, Fails, MayFail,
          HooksMayFail, FailsIf, Returns, Answers, Started, MayStart,
          CanUpdate, Placed,
          Passed, Restarts, Present, OnlyCurrentMissing
<1>0. pos \in 1..Len(plan.order) => Current \in Containers
  OBVIOUS
<1>1. CASE UNCHANGED vars
  BY <1>1 DEF vars, control
<1>2. CASE Refuse \/ Begin \/ BeginStopping \/ BeginUpdating
  BY <1>0, <1>2 DEF Refuse, Begin, BeginStopping, BeginUpdating
<1>3. CASE SkipStop \/ HookVetoesStop
  BY <1>0, <1>3 DEF SkipStop, HookVetoesStop
<1>4. CASE StopContainer
  BY <1>0, <1>4 DEF StopContainer
<1>5. ASSUME NEW c \in Containers, Prepare(c) PROVE Present'
  BY <1>0, <1>5 DEF Prepare
<1>6. CASE SkipUpdate \/ RestartFails \/ FindRunning
  BY <1>0, <1>6 DEF SkipUpdate, RestartFails, FindRunning
<1>7. CASE Restart \/ AwaitRestarted
  BY <1>0, <1>7 DEF Restart, AwaitRestarted, MayExit
<1>8. CASE BeginReplacing
  <2>1. pos \in 1..Len(plan.order) /\ result[Current] = "none"
    BY <1>0, <1>8, NotPassed DEF BeginReplacing
  <2>. QED
    BY <2>1, <1>8 DEF BeginReplacing
<1>9. CASE EndUpdating
  BY <1>0, <1>9 DEF EndUpdating
<1>10. CASE Detach
  BY <1>0, <1>10 DEF Detach, MayDetach
<1>11. CASE Remove
  BY <1>0, <1>11 DEF Remove
<1>12. CASE StartNew \/ TagOld
  BY <1>0, <1>12 DEF StartNew, TagOld
<1>13. CASE TearDownUnhealthy
  <2>1. pc = "teardown" /\ pc' \in {"tagOld", "cleanup"}
    BY <1>13 DEF TearDownUnhealthy
  <2>2. UNCHANGED <<job, pos, result>>
    BY <1>13 DEF TearDownUnhealthy
  <2>3. \A d \in Containers \ {Current} : st'[d] = st[d]
    BY <1>0, <1>13, TearDownLocal DEF TearDownUnhealthy
  <2>. QED
    BY <1>0, <2>1, <2>2, <2>3
<1>14. CASE CleanUp
  <2>1. pc = "cleanup" /\ pc' = "tagOld" /\ UNCHANGED <<job, pos, result>>
    BY <1>14 DEF CleanUp
  <2>2. \A d \in Containers \ {Current} : st'[d] = st[d]
    BY <1>0, <1>14, TearDownLocal DEF CleanUp
  <2>. QED
    BY <1>0, <2>1, <2>2
<1>15. CASE CreateNew
  BY <1>0, <1>15 DEF CreateNew, Created
<1>16. CASE AwaitNew
  <2>1. pc = "awaitNew" /\ UNCHANGED job /\ Current \in Containers
    BY <1>0, <1>16 DEF AwaitNew
  <2>2. CASE Returns(Current, "updated") /\ NextContainer /\ UNCHANGED st
    BY <2>1, <2>2
  <2>3. CASE MayExit(Current) /\ pos' = pos
             /\ pc' \in {"teardown", "cleanup"} /\ UNCHANGED result
    BY <2>1, <2>3 DEF MayExit
  <2>. QED
    BY <1>16, <2>2, <2>3 DEF AwaitNew
<1>17. CASE Recreate
  <2>1. pc = "recreate" /\ UNCHANGED job /\ Current \in Containers
    BY <1>0, <1>17 DEF Recreate
  <2>2. CASE Created(Current) /\ Goto("startOld") /\ UNCHANGED result
    BY <2>1, <2>2 DEF Created
  <2>3. CASE st' \in {st, [st EXCEPT ![Current] = "stopped"]} /\ RollBackFails
    BY <2>1, <2>3 DEF RollBackFails
  <2>. QED
    BY <2>2, <2>3, <1>17 DEF Recreate, Created
<1>18. CASE StartOld
  <2>1. pc = "startOld" /\ UNCHANGED job /\ Current \in Containers
    BY <1>0, <1>18 DEF StartOld
  <2>2. st' \in {st, [st EXCEPT ![Current] = "running"]}
    BY <1>18 DEF StartOld
  <2>3. CASE Goto("awaitOld") /\ Returns(Current, "rolled_back")
    BY <2>1, <2>2, <2>3
  <2>4. CASE RollBackFails
    BY <2>1, <2>2, <2>4 DEF RollBackFails
  <2>. QED
    BY <2>3, <2>4, <1>18 DEF StartOld
<1>19. CASE AwaitOld
  <2>1. pc = "awaitOld" /\ UNCHANGED job /\ Current \in Containers
    BY <1>0, <1>19 DEF AwaitOld
  <2>2. st' \in {st, [st EXCEPT ![Current] = "stopped"]}
    BY <1>19 DEF AwaitOld, MayExit
  <2>3. CASE NextContainer /\ UNCHANGED result
    BY <2>1, <2>2, <2>3
  <2>4. CASE RollBackFails
    BY <2>1, <2>2, <2>4 DEF RollBackFails
  <2>. QED
    BY <2>3, <2>4, <1>19 DEF AwaitOld
<1>20. CASE Finish \/ FinishRaises \/ Terminated
  BY <1>0, <1>20 DEF Finish, FinishRaises, Terminated, vars, control
<1> QED
  BY <1>1, <1>2, <1>3, <1>4, <1>5, <1>6, <1>7, <1>8, <1>9, <1>10, <1>11,
     <1>12, <1>13, <1>14, <1>15, <1>16, <1>17, <1>18, <1>19, <1>20
  DEF Next

(* What the walk does, it does to updatable containers, and stops and      *)
(* starts to affected ones.                                                *)
LEMMA BystandersStep ==
    ASSUME TypeOK, Placed, BystandersUntouched, [Next]_vars
    PROVE  BystandersUntouched'
<1> USE PlanFacts
    DEF TypeOK, Current, Replacing, Results, job, host, items, Finished, Goto,
          NextContainer, Fails, MayFail,
          HooksMayFail, FailsIf, Returns, Answers, Started, MayStart,
          CanUpdate, Placed,
          Restarts, BystandersUntouched, MustStop, Involved
<1>0. pos \in 1..Len(plan.order) => Current \in Containers
  OBVIOUS
<1>1. CASE UNCHANGED vars
  BY <1>1 DEF vars, control
<1>2. CASE Refuse \/ Begin \/ BeginStopping \/ BeginUpdating
  BY <1>0, <1>2 DEF Refuse, Begin, BeginStopping, BeginUpdating
<1>3. CASE SkipStop \/ HookVetoesStop
  BY <1>0, <1>3 DEF SkipStop, HookVetoesStop
<1>4. CASE StopContainer
  BY <1>0, <1>4 DEF StopContainer
<1>5. ASSUME NEW c \in Containers, Prepare(c) PROVE BystandersUntouched'
  BY <1>0, <1>5 DEF Prepare
<1>6. CASE SkipUpdate \/ FindRunning
  BY <1>0, <1>6 DEF SkipUpdate, FindRunning
<1>7. CASE RestartFails
  BY <1>0, <1>7 DEF RestartFails
<1>8. CASE Restart
  BY <1>0, <1>8 DEF Restart
<1>9. CASE AwaitRestarted
  BY <1>0, <1>9 DEF AwaitRestarted, MayExit
<1>10. CASE BeginReplacing \/ EndUpdating
  BY <1>0, <1>10 DEF BeginReplacing, EndUpdating
<1>11. CASE Detach
  BY <1>0, <1>11 DEF Detach, MayDetach
<1>12. CASE Remove
  BY <1>0, <1>12 DEF Remove
<1>13. CASE TagOld
  BY <1>0, <1>13 DEF TagOld
<1>22. CASE StartNew
  <2>1. pc = "startNew" /\ pc' \in {"awaitNew", "cleanup"} /\ UNCHANGED pos
    BY <1>22 DEF StartNew
  <2>. QED
    BY <2>1, <1>22, StartEffect
<1>14. CASE TearDownUnhealthy
  <2>1. pc = "teardown" /\ pc' \in {"tagOld", "cleanup"}
    BY <1>14 DEF TearDownUnhealthy
  <2>2. UNCHANGED <<job, pos, image>>
    BY <1>14 DEF TearDownUnhealthy
  <2>3. \A d \in Containers \ {Current} :
            st'[d] = st[d] /\ attached'[d] = attached[d]
    BY <1>0, <1>14, TearDownLocal DEF TearDownUnhealthy
  <2>. QED
    BY <1>0, <2>1, <2>2, <2>3
<1>15. CASE CleanUp
  <2>1. pc = "cleanup" /\ pc' = "tagOld" /\ UNCHANGED <<job, pos, image>>
    BY <1>15 DEF CleanUp
  <2>2. \A d \in Containers \ {Current} :
            st'[d] = st[d] /\ attached'[d] = attached[d]
    BY <1>0, <1>15, TearDownLocal DEF CleanUp
  <2>. QED
    BY <1>0, <2>1, <2>2
<1>16. CASE CreateNew
  BY <1>0, <1>16 DEF CreateNew, Created
<1>17. CASE AwaitNew
  BY <1>0, <1>17 DEF AwaitNew, MayExit
<1>18. CASE Recreate
  BY <1>0, <1>18 DEF Recreate, Created, RollBackFails
<1>19. CASE StartOld
  BY <1>0, <1>19 DEF StartOld, RollBackFails, RunsCommands
<1>20. CASE AwaitOld
  BY <1>0, <1>20 DEF AwaitOld, RollBackFails, MayExit
<1>21. CASE Finish \/ FinishRaises \/ Terminated
  BY <1>0, <1>21 DEF Finish, FinishRaises, Terminated, vars, control
<1> QED
  BY <1>1, <1>2, <1>3, <1>4, <1>5, <1>6, <1>7, <1>8, <1>9, <1>10, <1>11,
     <1>12, <1>13, <1>14, <1>15, <1>16, <1>17, <1>18, <1>19, <1>20, <1>21,
     <1>22
  DEF Next

(* Every container of the plan is prepared before the first is stopped.    *)
LEMMA PreparedStep ==
    ASSUME TypeOK, Placed, Prepared, [Next]_vars
    PROVE  Prepared'
<1> USE PlanFacts
    DEF TypeOK, Current, Replacing, job, host, items, Finished, Goto,
        NextContainer, Prepared, CanUpdate
<1>1. CASE UNCHANGED vars
  BY <1>1 DEF vars, control
<1>2. CASE Refuse \/ Begin \/ BeginStopping \/ BeginUpdating
  BY <1>2 DEF Refuse, Begin, BeginStopping, BeginUpdating
<1>3. CASE SkipStop \/ HookVetoesStop \/ StopContainer
  BY <1>3 DEF SkipStop, HookVetoesStop, StopContainer
<1>4. ASSUME NEW d \in Containers, Prepare(d) PROVE Prepared'
  BY <1>4 DEF Prepare
<1>5. CASE SkipUpdate \/ FindRunning \/ RestartFails \/ Restart \/ AwaitRestarted
  BY <1>5 DEF SkipUpdate, FindRunning, RestartFails, Restart, AwaitRestarted
<1>6. CASE BeginReplacing \/ EndUpdating
  BY <1>6 DEF BeginReplacing, EndUpdating
<1>7. CASE Detach \/ Remove
  BY <1>7 DEF Detach, Remove
<1>8. CASE CreateNew \/ StartNew \/ AwaitNew
  BY <1>8 DEF CreateNew, StartNew, AwaitNew
<1>9. CASE TearDownUnhealthy \/ CleanUp \/ TagOld
  BY <1>9 DEF TearDownUnhealthy, CleanUp, TagOld
<1>10. CASE Recreate \/ StartOld \/ AwaitOld
  BY <1>10 DEF Recreate, StartOld, AwaitOld, RollBackFails
<1>11. CASE Finish \/ FinishRaises \/ Terminated
  BY <1>11 DEF Finish, FinishRaises, Terminated, vars, control
<1> QED
  BY <1>1, <1>2, <1>3, <1>4, <1>5, <1>6, <1>7, <1>8, <1>9, <1>10, <1>11
  DEF Next

(* Only a container's own roll-back takes its unshared spec away from the  *)
(* pulled image.                                                           *)
LEMMA NewImageStep ==
    ASSUME TypeOK, Placed, Prepared, NEW c \in Containers, ~SharesSpec(c),
           NewImageHeld(c), [Next]_vars
    PROVE  NewImageHeld(c)'
<1> USE PlanFacts, LatestAssumption
    DEF TypeOK, Current, Replacing, Results, job, host, items, Finished, Goto,
          NextContainer, Fails, MayFail,
          HooksMayFail, FailsIf, Returns, Answers, Started, MayStart,
          CanUpdate,
          Prepared, NewImageHeld, SharesSpec, Outcomes, Placed
<1>0. pos \in 1..Len(plan.order) => Current \in Containers
  OBVIOUS
<1>1. CASE UNCHANGED vars
  BY <1>1 DEF vars, control
<1>2. CASE Refuse \/ Begin
  BY <1>0, <1>2 DEF Refuse, Begin
<1>3. CASE BeginStopping \/ BeginUpdating
  BY <1>0, <1>3 DEF BeginStopping, BeginUpdating
<1>4. CASE SkipStop
  BY <1>0, <1>4 DEF SkipStop
<1>5. CASE HookVetoesStop
  BY <1>0, <1>5 DEF HookVetoesStop
<1>6. CASE StopContainer
  BY <1>0, <1>6 DEF StopContainer
<1>7. ASSUME NEW d \in Containers, Prepare(d) PROVE NewImageHeld(c)'
  <2>1. /\ pc = "prepare" /\ todo' = todo \ {d} /\ d \in plan.toUpdate
        /\ UNCHANGED <<pc, plan, spec, image, result>>
    BY <1>7 DEF Prepare
  <2>2. PICK inspected \in BOOLEAN, configured \in BOOLEAN, pull \in Outcomes :
            /\ err' = [err EXCEPT ![d] =
                          @ \/ (~inspected \/ ~configured \/ pull # "ok")]
            /\ tag' = IF pull = "error" THEN tag
                      ELSE [tag EXCEPT ![spec[d]] = Latest]
    BY <1>7 DEF Prepare
  <2>3. pull # "ok" => err'[d]
    BY <2>2
  <2>4. \A e \in Containers \ {d} : err'[e] = err[e]
    BY <1>7 DEF Prepare
  <2>5. d # c => spec[d] # spec[c]
    BY <2>1
  <2>6. spec[c] \in Specs /\ spec[d] \in Specs
    OBVIOUS
  <2>7. d # c => tag'[spec[c]] = tag[spec[c]]
    BY <2>2, <2>5, <2>6
  <2>8. ~err'[d] => tag'[spec[d]] = Latest
    BY <2>2, <2>3, <2>6
  <2>9. CASE d = c
    BY <2>1, <2>8, <2>9
  <2>10. CASE d # c
    BY <2>1, <2>4, <2>7, <2>10
  <2>. QED
    BY <2>9, <2>10
<1>8. CASE SkipUpdate \/ FindRunning
  BY <1>0, <1>8 DEF SkipUpdate, FindRunning
<1>9. CASE RestartFails
  BY <1>0, <1>9 DEF RestartFails
<1>10. CASE Restart
  BY <1>0, <1>10 DEF Restart
<1>11. CASE AwaitRestarted
  BY <1>0, <1>11 DEF AwaitRestarted, MayExit
<1>12. CASE BeginReplacing \/ EndUpdating
  BY <1>0, <1>12 DEF BeginReplacing, EndUpdating
<1>13. CASE Detach
  BY <1>0, <1>13 DEF Detach, MayDetach
<1>14. CASE Remove
  BY <1>0, <1>14 DEF Remove
<1>15. CASE CreateNew
  <2>1. result[Current] = "none"
    BY <1>0, <1>15, NotPassed DEF CreateNew
  <2>. QED
    <3>1. /\ pc = "create" /\ UNCHANGED <<job, todo, tag, available>>
          /\ pos \in 1..Len(plan.order)
      BY <1>15 DEF CreateNew
    <3>2. \A d \in Containers \ {Current} : image'[d] = image[d]
      BY <1>0, <1>15 DEF CreateNew, Created
    <3>3. Created(Current) /\ c = Current => image'[Current] = Latest
      BY <1>0, <2>1, <3>1 DEF Created
    <3>4. CASE /\ Created(Current) /\ UNCHANGED <<err, result>>
               /\ Goto("startNew")
      BY <1>0, <2>1, <3>1, <3>2, <3>3, <3>4
    <3>5. CASE /\ Created(Current) /\ UNCHANGED err
               /\ NextContainer /\ Returns(Current, "updated")
      BY <1>0, <2>1, <3>1, <3>2, <3>3, <3>5
    <3>6. CASE Fails(Current) /\ Goto("cleanup") /\ UNCHANGED result
      BY <1>0, <2>1, <3>1, <3>2, <3>6
    <3>. QED
      BY <3>4, <3>5, <3>6, <1>15 DEF CreateNew
<1>16. CASE StartNew
  BY <1>0, <1>16 DEF StartNew, RunsCommands
<1>17. CASE AwaitNew
  <2>1. pc = "awaitNew" /\ UNCHANGED <<job, todo, image, tag, available>>
    BY <1>17 DEF AwaitNew, Goto, NextContainer
  <2>2. CASE /\ Returns(Current, "updated") /\ MayFail(Current)
             /\ NextContainer
    BY <1>0, <2>1, <2>2
  <2>3. CASE /\ Goto("teardown") \/ Goto("cleanup")
             /\ MayFail(Current) /\ UNCHANGED result
    BY <1>0, <2>1, <2>3
  <2>. QED
    BY <2>2, <2>3, <1>17 DEF AwaitNew
<1>18. CASE TearDownUnhealthy
  <2>1. pc = "teardown" /\ pc' \in {"tagOld", "cleanup"}
    BY <1>18 DEF TearDownUnhealthy
  <2>2. UNCHANGED <<job, todo, pos, image, tag, result, available>>
    BY <1>18 DEF TearDownUnhealthy
  <2>3. MayFail(Current)
    BY <1>18 DEF TearDownUnhealthy
  <2>. QED
    BY <1>0, <2>1, <2>2, <2>3
<1>19. CASE CleanUp
  <2>1. pc = "cleanup" /\ pc' = "tagOld"
    BY <1>19 DEF CleanUp
  <2>2. UNCHANGED <<job, todo, pos, image, tag, items, available>>
    BY <1>19 DEF CleanUp
  <2>. QED
    BY <1>0, <2>1, <2>2
<1>20. CASE TagOld
  <2>1. result[Current] = "none"
    BY <1>0, <1>20, NotPassed DEF TagOld
  <2>. QED
    BY <1>0, <2>1, <1>20 DEF TagOld
<1>21. CASE Recreate
  <2>1. result[Current] = "none"
    BY <1>0, <1>21, NotPassed DEF Recreate
  <2>. QED
    <3>1. pc = "recreate" /\ UNCHANGED <<job, todo, tag, available>>
      BY <1>21 DEF Recreate, RollBackFails
    <3>2. \A d \in Containers \ {Current} : image'[d] = image[d]
      BY <1>0, <1>21 DEF Recreate, Created
    <3>3. CASE Goto("startOld") /\ UNCHANGED <<err, result>>
      BY <1>0, <2>1, <3>1, <3>2, <3>3
    <3>4. CASE RollBackFails
      BY <1>0, <2>1, <3>1, <3>2, <3>4 DEF RollBackFails
    <3>. QED
      BY <3>3, <3>4, <1>21 DEF Recreate
<1>22. CASE StartOld
  <2>1. result[Current] = "none"
    BY <1>0, <1>22, NotPassed DEF StartOld
  <2>. QED
    BY <1>0, <2>1, <1>22 DEF StartOld, RollBackFails, RunsCommands
<1>23. CASE AwaitOld
  <2>1. pc = "awaitOld" /\ pc' = "update" /\ UNCHANGED <<job, todo>>
    BY <1>23 DEF AwaitOld, RollBackFails
  <2>2. UNCHANGED <<image, tag, available>>
    BY <1>23 DEF AwaitOld
  <2>3. CASE UNCHANGED <<err, result>>
    BY <1>0, <2>1, <2>2, <2>3
  <2>4. CASE RollBackFails
    BY <1>0, <2>1, <2>2, <2>4 DEF RollBackFails
  <2>. QED
    BY <2>3, <2>4, <1>23 DEF AwaitOld
<1>24. CASE Finish
  BY <1>0, <1>24 DEF Finish
<1>25. CASE FinishRaises \/ Terminated
  BY <1>0, <1>25 DEF FinishRaises, Terminated, vars, control
<1> QED
  BY <1>1, <1>2, <1>3, <1>4, <1>5, <1>6, <1>7, <1>8, <1>9, <1>10, <1>11,
     <1>12, <1>13, <1>14, <1>15, <1>16, <1>17, <1>18, <1>19, <1>20, <1>21,
     <1>22, <1>23, <1>24, <1>25
  DEF Next

(* What a run has reported stands: errors are not taken back, and of the   *)
(* results only "rolled_back" may still turn into "failed".  A run is      *)
(* about the containers and specs it was given.                            *)
LEMMA ReportsStand ==
    ASSUME TypeOK, Placed, [Next]_vars
    PROVE  /\ UNCHANGED <<job, plan, spec, oldImage, wasRunning>>
           /\ \A c \in Containers :
                 /\ err[c] => err'[c]
                 /\ result[c] \in {"updated", "failed"} =>
                       result'[c] = result[c]
                 /\ result[c] = "rolled_back" =>
                       result'[c] \in {"rolled_back", "failed"}
<1> USE PlanFacts
    DEF TypeOK, Replacing, job, host, items, Goto, NextContainer, Fails,
        MayFail, HooksMayFail, FailsIf, Returns
<1>0. pos \in 1..Len(plan.order) => Current \in Containers
  BY DEF Current
<1>1. CASE UNCHANGED vars
  BY <1>1 DEF vars
<1>2. CASE Refuse \/ Begin \/ BeginStopping \/ BeginUpdating
  BY <1>2 DEF Refuse, Begin, BeginStopping, BeginUpdating
<1>3. CASE SkipStop \/ HookVetoesStop \/ StopContainer
  BY <1>0, <1>3 DEF SkipStop, HookVetoesStop, StopContainer
<1>4. ASSUME NEW d \in Containers, Prepare(d)
      PROVE  /\ UNCHANGED <<job, result>>
             /\ \A c \in Containers : err[c] => err'[c]
  BY <1>4 DEF Prepare
<1>5. CASE SkipUpdate \/ FindRunning \/ RestartFails \/ Restart \/ AwaitRestarted
  BY <1>0, <1>5 DEF SkipUpdate, FindRunning, RestartFails, Restart, AwaitRestarted
<1>6. CASE BeginReplacing \/ EndUpdating
  BY <1>6 DEF BeginReplacing, EndUpdating
<1>7. CASE Detach \/ Remove
  BY <1>0, <1>7 DEF Detach, Remove
<1>8. CASE CreateNew
  <2>1. result[Current] = "none"
    BY <1>0, <1>8, NotPassed DEF CreateNew
  <2>. QED
    BY <1>0, <2>1, <1>8 DEF CreateNew
<1>9. CASE StartNew
  BY <1>0, <1>9 DEF StartNew, RunsCommands
<1>10. CASE AwaitNew
  <2>1. result[Current] = "none"
    BY <1>0, <1>10, NotPassed DEF AwaitNew
  <2>. QED
    BY <1>0, <2>1, <1>10 DEF AwaitNew
<1>11. CASE TearDownUnhealthy \/ CleanUp \/ TagOld
  <2>1. UNCHANGED <<job, result>>
    BY <1>11 DEF TearDownUnhealthy, CleanUp, TagOld
  <2>2. \A c \in Containers : err[c] => err'[c]
    BY <1>0, <1>11 DEF TearDownUnhealthy, CleanUp, TagOld
  <2>. QED
    BY <2>1, <2>2
<1>12. CASE Recreate
  <2>1. result[Current] = "none"
    BY <1>0, <1>12, NotPassed DEF Recreate
  <2>. QED
    BY <1>0, <2>1, <1>12 DEF Recreate, RollBackFails
<1>13. CASE StartOld
  <2>1. result[Current] = "none"
    BY <1>0, <1>13, NotPassed DEF StartOld
  <2>. QED
    BY <1>0, <2>1, <1>13 DEF StartOld, RollBackFails, RunsCommands
<1>14. CASE AwaitOld
  <2>1. result[Current] = "rolled_back"
    BY <1>14 DEF AwaitOld, Placed
  <2>. QED
    BY <1>0, <2>1, <1>14 DEF AwaitOld, RollBackFails
<1>15. CASE Finish \/ FinishRaises \/ Terminated
  BY <1>15 DEF Finish, FinishRaises, Terminated, vars
<1> QED
  BY <1>1, <1>2, <1>3, <1>4, <1>5, <1>6, <1>7, <1>8, <1>9, <1>10, <1>11,
     <1>12, <1>13, <1>14, <1>15
  DEF Next

(* The flags of the database follow the results.                           *)
LEMMA TagsStep ==
    ASSUME TypeOK, Placed, TagsHeld, [Next]_vars
    PROVE  TagsHeld'
<1>1. UNCHANGED <<plan, spec>>
  BY ReportsStand
<1>2. \A c \in Containers : ~SharesSpec(c)' => NewImageHeld(c)'
  BY <1>1, NewImageStep DEF TagsHeld, SharesSpec
<1>3. \A c \in plan.toUpdate : ~available'[c] => result'[c] = "updated"
  <2>1. CASE UNCHANGED available
    BY <2>1, ReportsStand, PlanFacts DEF TagsHeld, TypeOK
  <2>2. CASE Finish
    BY <2>2, PlanFacts DEF Finish, TagsHeld, TypeOK, items
  <2>3. QED
    BY <2>1, <2>2
    DEF Next, Refuse, Begin, Prepare, BeginStopping, SkipStop, HookVetoesStop,
        StopContainer, BeginUpdating, SkipUpdate, RestartFails, FindRunning,
        Restart, AwaitRestarted, BeginReplacing, Detach, Remove, CreateNew,
        StartNew, AwaitNew, TearDownUnhealthy, CleanUp, TagOld, Recreate,
        StartOld, AwaitOld, EndUpdating, FinishRaises, Terminated, vars
<1>4. QED
  BY <1>1, <1>2, <1>3, PreparedStep DEF TagsHeld

(* The roll-back of a container goes from the tag to the creation without  *)
(* another container coming in between.                                    *)
LEMMA OldImageStep ==
    ASSUME TypeOK, Placed, NEW c \in Containers, OldImageHeld(c),
           [Next]_vars
    PROVE  OldImageHeld(c)'
<1> USE PlanFacts
    DEF TypeOK, Current, Replacing, Results, job, host, items, Finished, Goto,
          NextContainer, Fails, MayFail,
          HooksMayFail, FailsIf, Returns, Answers, Started, MayStart,
          CanUpdate,
          OldImageHeld, Outcomes, Placed
<1>0. pos \in 1..Len(plan.order) => Current \in Containers
  OBVIOUS
<1>1. CASE UNCHANGED vars
  BY <1>1 DEF vars, control
<1>2. CASE Refuse \/ Begin \/ BeginStopping \/ BeginUpdating
  BY <1>0, <1>2 DEF Refuse, Begin, BeginStopping, BeginUpdating
<1>3. CASE SkipStop \/ HookVetoesStop \/ StopContainer
  BY <1>0, <1>3 DEF SkipStop, HookVetoesStop, StopContainer
<1>4. ASSUME NEW d \in Containers, Prepare(d) PROVE OldImageHeld(c)'
  BY <1>0, <1>4 DEF Prepare
<1>5. CASE SkipUpdate
  BY <1>0, <1>5 DEF SkipUpdate
<1>6. CASE FindRunning
  BY <1>0, <1>6 DEF FindRunning
<1>7. CASE RestartFails
  BY <1>0, <1>7 DEF RestartFails
<1>8. CASE Restart \/ AwaitRestarted
  BY <1>0, <1>8 DEF Restart, AwaitRestarted, MayExit
<1>9. CASE BeginReplacing \/ EndUpdating
  BY <1>0, <1>9 DEF BeginReplacing, EndUpdating
<1>10. CASE Detach \/ Remove
  BY <1>0, <1>10 DEF Detach, MayDetach, Remove
<1>11. CASE CreateNew
  <2>1. result[Current] = "none"
    BY <1>0, <1>11, NotPassed DEF CreateNew
  <2>. QED
    BY <1>0, <2>1, <1>11 DEF CreateNew, Created
<1>12. CASE StartNew
  BY <1>0, <1>12 DEF StartNew, RunsCommands
<1>13. CASE AwaitNew
  BY <1>0, <1>13 DEF AwaitNew, MayExit
<1>14. CASE TearDownUnhealthy
  <2>1. pc = "teardown" /\ pc' \in {"tagOld", "cleanup"}
    BY <1>14 DEF TearDownUnhealthy
  <2>2. UNCHANGED <<job, pos, image, tag, result, retagged>>
    BY <1>14 DEF TearDownUnhealthy
  <2>3. MayFail(Current)
    BY <1>14 DEF TearDownUnhealthy
  <2>. QED
    BY <1>0, <2>1, <2>2, <2>3
<1>15. CASE CleanUp
  <2>1. pc = "cleanup" /\ pc' = "tagOld"
    BY <1>15 DEF CleanUp
  <2>2. UNCHANGED <<job, pos, image, tag, items>>
    BY <1>15 DEF CleanUp
  <2>. QED
    BY <1>0, <2>1, <2>2
<1>16. CASE TagOld
  <2>1. result[Current] = "none" /\ pc' = "recreate"
    BY <1>0, <1>16, NotPassed DEF TagOld
  <2>2. UNCHANGED <<job, pos, image, result>>
    BY <1>16 DEF TagOld
  <2>3. retagged'[Current] => tag'[spec[Current]] = oldImage[Current]
    <3>1. spec[Current] \in Specs /\ oldImage[Current] \in Versions
      BY <1>0, <1>16 DEF TagOld
    <3>2. PICK o \in Outcomes :
              /\ tag' = IF o = "error" THEN tag
                        ELSE [tag EXCEPT ![spec[Current]] = oldImage[Current]]
              /\ retagged' = [retagged EXCEPT ![Current] = (o = "ok")]
      BY <1>16 DEF TagOld
    <3>3. pos \in 1..Len(plan.order)
      BY <1>16 DEF TagOld
    <3>4. retagged'[Current] = (o = "ok")
      BY <1>0, <3>2, <3>3
    <3>5. retagged'[Current] => o # "error"
      BY <3>4
    <3>. QED
      BY <3>1, <3>2, <3>5
  <2>4. \A d \in Containers \ {Current} : retagged'[d] = retagged[d]
    BY <1>0, <1>16 DEF TagOld
  <2>. QED
    BY <1>0, <2>1, <2>2, <2>3, <2>4
<1>17. CASE Recreate
  BY <1>0, <1>17 DEF Recreate, Created, RollBackFails
<1>18. CASE StartOld
  BY <1>0, <1>18 DEF StartOld, RollBackFails, RunsCommands
<1>19. CASE AwaitOld
  BY <1>0, <1>19 DEF AwaitOld, RollBackFails, MayExit
<1>20. CASE Finish \/ FinishRaises \/ Terminated
  BY <1>0, <1>20 DEF Finish, FinishRaises, Terminated, vars, control
<1> QED
  BY <1>1, <1>2, <1>3, <1>4, <1>5, <1>6, <1>7, <1>8, <1>9, <1>10, <1>11,
     <1>12, <1>13, <1>14, <1>15, <1>16, <1>17, <1>18, <1>19, <1>20
  DEF Next

(* A vetoed container is never in hand afterwards.                         *)
LEMMA VetoStep ==
    ASSUME TypeOK, Placed, VetoHeld, [Next]_vars
    PROVE  VetoHeld'
<1> USE PlanFacts
    DEF TypeOK, Current, Replacing, Results, job, host, items, Finished, Goto,
          NextContainer, Fails, MayFail,
          HooksMayFail, FailsIf, Returns, Answers, Started, MayStart,
          CanUpdate, Placed,
          Untouched, VetoHeld, VetoedStaysUp, MustStop
<1>0. pos \in 1..Len(plan.order) => Current \in Containers
  OBVIOUS
<1>1. CASE UNCHANGED vars
  BY <1>1 DEF vars, control
<1>2. CASE Refuse \/ Begin
  BY <1>0, <1>2 DEF Refuse, Begin
<1>3. CASE BeginStopping
  BY <1>0, <1>3 DEF BeginStopping
<1>4. CASE BeginUpdating
  BY <1>0, <1>4 DEF BeginUpdating
<1>5. CASE SkipStop
  BY <1>0, <1>5 DEF SkipStop
<1>6. CASE HookVetoesStop
  BY <1>0, <1>6 DEF HookVetoesStop
<1>7. CASE StopContainer
  BY <1>0, <1>7 DEF StopContainer
<1>8. ASSUME NEW c \in Containers, Prepare(c) PROVE VetoHeld'
  BY <1>0, <1>8 DEF Prepare
<1>9. CASE SkipUpdate \/ FindRunning
  BY <1>0, <1>9 DEF SkipUpdate, FindRunning
<1>10. CASE RestartFails
  BY <1>0, <1>10 DEF RestartFails
<1>11. CASE Restart
  BY <1>0, <1>11 DEF Restart
<1>12. CASE AwaitRestarted
  BY <1>0, <1>12 DEF AwaitRestarted, MayExit
<1>13. CASE BeginReplacing \/ EndUpdating
  BY <1>0, <1>13 DEF BeginReplacing, EndUpdating
<1>14. CASE Detach
  <2>1. pc = "detach" /\ pc' \in {"remove", "cleanup"}
    BY <1>14 DEF Detach
  <2>2. UNCHANGED <<job, pos, st, image, result, vetoed>>
    BY <1>14 DEF Detach
  <2>3. \A d \in Containers : err[d] => err'[d]
    BY <1>0, <1>14 DEF Detach
  <2>4. \A d \in Containers \ {Current} : attached'[d] = attached[d]
    BY <1>0, <1>14 DEF Detach, MayDetach
  <2>. QED
    BY <1>0, <2>1, <2>2, <2>3, <2>4
<1>15. CASE Remove
  BY <1>0, <1>15 DEF Remove
<1>16. CASE CreateNew
  BY <1>0, <1>16 DEF CreateNew, Created
<1>17. CASE StartNew
  BY <1>0, <1>17 DEF StartNew, RunsCommands
<1>18. CASE AwaitNew
  <2>1. /\ pc = "awaitNew" /\ pc' \in {"update", "teardown", "cleanup"}
        /\ UNCHANGED <<job, image, attached, vetoed>>
        /\ pos \in 1..Len(plan.order) /\ pos' \in {pos, pos + 1}
        /\ pc' # "update" => pos' = pos
    BY <1>18 DEF AwaitNew
  <2>2. \A d \in Containers : err[d] => err'[d]
    <3>1. Fails(Current) \/ UNCHANGED err
      BY <1>18 DEF AwaitNew
    <3>2. QED
      BY <1>0, <2>1, <3>1
  <2>3. \A d \in Containers \ {Current} :
           st'[d] = st[d] /\ result'[d] = result[d]
    BY <1>0, <2>1, <1>18 DEF AwaitNew, MayExit
  <2>4. QED
    BY <1>0, <2>1, <2>2, <2>3
<1>19. CASE TearDownUnhealthy
  <2>1. pc = "teardown" /\ pc' \in {"tagOld", "cleanup"}
    BY <1>19 DEF TearDownUnhealthy
  <2>2. UNCHANGED <<job, pos, image, result, vetoed>>
    BY <1>19 DEF TearDownUnhealthy
  <2>3. MayFail(Current)
    BY <1>19 DEF TearDownUnhealthy
  <2>4. \A d \in Containers \ {Current} : 
        st'[d] = st[d] /\ attached'[d] = attached[d]
    BY <1>0, <1>19, TearDownLocal DEF TearDownUnhealthy
  <2>. QED
    BY <1>0, <2>1, <2>2, <2>3, <2>4
<1>20. CASE CleanUp
  <2>1. pc = "cleanup" /\ pc' = "tagOld"
    BY <1>20 DEF CleanUp
  <2>2. UNCHANGED <<job, pos, image, items>>
    BY <1>20 DEF CleanUp
  <2>3. \A d \in Containers \ {Current} : 
        st'[d] = st[d] /\ attached'[d] = attached[d]
    BY <1>0, <1>20, TearDownLocal DEF CleanUp
  <2>. QED
    BY <1>0, <2>1, <2>2, <2>3
<1>21. CASE TagOld
  BY <1>0, <1>21 DEF TagOld
<1>22. CASE Recreate
  BY <1>0, <1>22 DEF Recreate, Created, RollBackFails
<1>23. CASE StartOld
  <2>1. /\ pc = "startOld"
        /\ \/ pc' = "awaitOld" /\ pos' = pos
           \/ pc' = "update" /\ pos' = pos + 1
        /\ \A d \in Containers \ {Current} : result'[d] = result[d]
    BY <1>0, <1>23 DEF StartOld, RollBackFails
  <2>2. /\ pos \in 1..Len(plan.order) /\ UNCHANGED <<job, image, vetoed>>
        /\ \A d \in Containers : err[d] => err'[d]
        /\ \A d \in Containers \ {Current} :
              st'[d] = st[d] /\ attached'[d] = attached[d]
    BY <1>23, StartEffect
  <2>3. ~vetoed[Current]
    BY <2>1
  <2>. QED
    BY <1>0, <2>1, <2>2, <2>3
<1>24. CASE AwaitOld
  BY <1>0, <1>24 DEF AwaitOld, RollBackFails, MayExit
<1>25. CASE Finish \/ FinishRaises \/ Terminated
  <2>1. pc' \in Ended /\ UNCHANGED <<job, host, items, pos>>
    BY <1>25 DEF Finish, FinishRaises, Terminated, vars, control, Ended
  <2>. QED
    BY <2>1 DEF Ended
<1> QED
  BY <1>1, <1>2, <1>3, <1>4, <1>5, <1>6, <1>7, <1>8, <1>9, <1>10, <1>11,
     <1>12, <1>13, <1>14, <1>15, <1>16, <1>17, <1>18, <1>19, <1>20, <1>21,
     <1>22, <1>23, <1>24, <1>25
  DEF Next

(* The two walks run through the same order in opposite directions, so a   *)
(* container ahead of the forward walk is as the backward walk left it.    *)
LEMMA StillDownStep ==
    ASSUME TypeOK, Placed, StillDown, [Next]_vars
    PROVE  StillDown'
<1> USE PlanFacts
    DEF TypeOK, Current, Replacing, Results, job, host, items, Finished, Goto,
          NextContainer, Fails, MayFail,
          HooksMayFail, FailsIf, Returns, Answers, Started, MayStart,
          CanUpdate,
          StillDown, IsDown, MustStop, Involved
<1>0. pos \in 1..Len(plan.order) => Current \in Containers
  OBVIOUS
<1>1. CASE UNCHANGED vars
  BY <1>1 DEF vars, control
<1>2. CASE Refuse \/ Begin
  BY <1>0, <1>2 DEF Refuse, Begin
<1>3. CASE BeginStopping
  BY <1>0, <1>3 DEF BeginStopping
<1>4. CASE BeginUpdating
  BY <1>0, <1>4 DEF BeginUpdating
<1>5. CASE SkipStop
  BY <1>0, <1>5 DEF SkipStop
<1>6. CASE HookVetoesStop
  <2>1. /\ pc = "stop" /\ pc' = "stop"
        /\ pos \in 1..Len(plan.order) /\ pos' = pos - 1
    BY <1>6 DEF HookVetoesStop
  <2>2. UNCHANGED <<job, st>> /\ err'[Current]
    BY <1>0, <2>1, <1>6 DEF HookVetoesStop
  <2>3. \A d \in Containers : err[d] => err'[d]
    BY <1>0, <2>1, <1>6 DEF HookVetoesStop
  <2>. QED
    BY <1>0, <2>1, <2>2, <2>3
<1>7. CASE StopContainer
  <2>1. /\ pc = "stop" /\ pc' = "stop" /\ UNCHANGED job
        /\ pos \in 1..Len(plan.order) /\ pos' = pos - 1
    BY <1>7 DEF StopContainer
  <2>2. \A d \in Containers \ {Current} : st'[d] = st[d] /\ err'[d] = err[d]
    <3>1. st' = st \/ st' = [st EXCEPT ![Current] = "stopped"]
      BY <1>7 DEF StopContainer
    <3>2. \E bad \in BOOLEAN : FailsIf(Current, bad)
      BY <1>7 DEF StopContainer
    <3>3. QED
      BY <1>0, <2>1, <3>1, <3>2
  <2>3. err'[Current] \/ st'[Current] = "stopped"
    <3>1. PICK stop \in Answers(Current), inspected \in BOOLEAN :
             /\ st' = IF stop = "error" THEN st
                      ELSE [st EXCEPT ![Current] = "stopped"]
             /\ FailsIf(Current, stop # "ok" \/ ~inspected)
      BY <1>7 DEF StopContainer
    <3>2. CASE stop = "ok"
      BY <1>0, <2>1, <3>1, <3>2
    <3>3. CASE stop # "ok"
      <4>1. (stop # "ok" \/ ~inspected) = TRUE
        BY <3>3
      <4>2. FailsIf(Current, TRUE)
        BY <3>1, <4>1
      <4>3. QED
        BY <1>0, <2>1, <4>2
    <3>4. QED
      BY <3>2, <3>3
  <2>4. \A j \in 1..Len(plan.order) :
           j # pos => plan.order[j] \in Containers \ {Current}
    BY <2>1
  <2>5. QED
    BY <1>0, <2>1, <2>2, <2>3, <2>4
<1>8. ASSUME NEW c \in Containers, Prepare(c) PROVE StillDown'
  BY <1>0, <1>8 DEF Prepare
<1>9. CASE SkipUpdate \/ FindRunning
  BY <1>0, <1>9 DEF SkipUpdate, FindRunning
<1>10. CASE RestartFails
  <2>1. /\ pos \in 1..Len(plan.order) /\ pos' = pos + 1
        /\ pc = "update" /\ pc' = "update" /\ UNCHANGED job
    BY <1>10 DEF RestartFails
  <2>2. \A d \in Containers \ {Current} : st'[d] = st[d] /\ err'[d] = err[d]
    <3>1. MayStart(Current) /\ Fails(Current)
      BY <1>10 DEF RestartFails
    <3>2. QED
      BY <1>0, <2>1, <3>1
  <2>3. \A j \in 1..Len(plan.order) :
           j # pos => plan.order[j] \in Containers \ {Current}
    BY <2>1
  <2>4. QED
    BY <1>0, <2>1, <2>2, <2>3
<1>11. CASE Restart
  <2>1. /\ pc = "update" /\ pc' = "awaitStart" /\ UNCHANGED <<job, pos, err>>
        /\ pos \in 1..Len(plan.order)
    BY <1>11 DEF Restart
  <2>2. \A d \in Containers \ {Current} : st'[d] = st[d]
    BY <1>0, <1>11 DEF Restart
  <2>. QED
    BY <1>0, <2>1, <2>2
<1>12. CASE AwaitRestarted
  BY <1>0, <1>12 DEF AwaitRestarted, MayExit
<1>13. CASE BeginReplacing \/ EndUpdating
  BY <1>0, <1>13 DEF BeginReplacing, EndUpdating
<1>14. CASE Detach
  BY <1>0, <1>14 DEF Detach, MayDetach
<1>15. CASE Remove
  BY <1>0, <1>15 DEF Remove
<1>16. CASE CreateNew
  BY <1>0, <1>16 DEF CreateNew, Created
<1>17. CASE StartNew
  BY <1>0, <1>17 DEF StartNew, RunsCommands
<1>18. CASE AwaitNew
  BY <1>0, <1>18 DEF AwaitNew, MayExit
<1>19. CASE TearDownUnhealthy
  <2>1. pc = "teardown" /\ pc' \in {"tagOld", "cleanup"}
    BY <1>19 DEF TearDownUnhealthy
  <2>2. UNCHANGED <<job, pos, image, result, vetoed>>
    BY <1>19 DEF TearDownUnhealthy
  <2>3. MayFail(Current)
    BY <1>19 DEF TearDownUnhealthy
  <2>4. \A d \in Containers \ {Current} : 
        st'[d] = st[d] /\ attached'[d] = attached[d]
    BY <1>0, <1>19, TearDownLocal DEF TearDownUnhealthy
  <2>. QED
    BY <1>0, <2>1, <2>2, <2>3, <2>4
<1>20. CASE CleanUp
  <2>1. pc = "cleanup" /\ pc' = "tagOld"
    BY <1>20 DEF CleanUp
  <2>2. UNCHANGED <<job, pos, image, items>>
    BY <1>20 DEF CleanUp
  <2>3. \A d \in Containers \ {Current} : 
        st'[d] = st[d] /\ attached'[d] = attached[d]
    BY <1>0, <1>20, TearDownLocal DEF CleanUp
  <2>. QED
    BY <1>0, <2>1, <2>2, <2>3
<1>21. CASE TagOld
  <2>1. /\ pc = "tagOld" /\ pc' = "recreate" /\ UNCHANGED <<job, pos, st>>
        /\ pos \in 1..Len(plan.order)
    BY <1>21 DEF TagOld
  <2>2. \A d \in Containers \ {Current} : err'[d] = err[d]
    BY <1>0, <1>21 DEF TagOld
  <2>. QED
    BY <1>0, <2>1, <2>2
<1>22. CASE Recreate
  BY <1>0, <1>22 DEF Recreate, Created, RollBackFails
<1>23. CASE StartOld
  BY <1>0, <1>23 DEF StartOld, RollBackFails, RunsCommands
<1>24. CASE AwaitOld
  BY <1>0, <1>24 DEF AwaitOld, RollBackFails, MayExit
<1>25. CASE Finish \/ FinishRaises \/ Terminated
  BY <1>0, <1>25 DEF Finish, FinishRaises, Terminated, vars, control
<1> QED
  BY <1>1, <1>2, <1>3, <1>4, <1>5, <1>6, <1>7, <1>8, <1>9, <1>10, <1>11,
     <1>12, <1>13, <1>14, <1>15, <1>16, <1>17, <1>18, <1>19, <1>20, <1>21,
     <1>22, <1>23, <1>24, <1>25
  DEF Next

(* A container that is not in hand and gets nothing done to it keeps what  *)
(* its report relies on; the walk only ever does something to one.         *)
LEMMA ReportStep ==
    ASSUME TypeOK, TypeOK', Placed, Present, BystandersUntouched, ReportHeld,
           [Next]_vars
    PROVE  ReportHeld'
<1> USE PlanFacts
    DEF TypeOK, Current, Replacing, Results, job, host, items, Finished, Goto,
        NextContainer, Fails, MayFail, HooksMayFail, FailsIf, Returns,
        Answers, Started, MayStart, CanUpdate, Placed, Passed, Restarts,
        ReportHeld, Behind, MayMissNetworks
<1>0. pos \in 1..Len(plan.order) => Current \in Containers
  OBVIOUS
<1>1. CASE UNCHANGED vars
  BY <1>1 DEF vars, control
<1>2. CASE Refuse \/ Begin \/ BeginStopping \/ BeginUpdating
  BY <1>0, <1>2 DEF Refuse, Begin, BeginStopping, BeginUpdating
<1>3. CASE SkipStop \/ HookVetoesStop
  BY <1>0, <1>3 DEF SkipStop, HookVetoesStop
<1>4. CASE StopContainer
  BY <1>0, <1>4 DEF StopContainer
<1>5. ASSUME NEW c \in Containers, Prepare(c) PROVE ReportHeld'
  BY <1>0, <1>5 DEF Prepare
<1>6. CASE SkipUpdate
  BY <1>0, <1>6 DEF SkipUpdate, BystandersUntouched, Involved
<1>7. CASE FindRunning
  BY <1>0, <1>7 DEF FindRunning
<1>8. CASE RestartFails
  BY <1>0, <1>8 DEF RestartFails
<1>9. CASE Restart
  BY <1>0, <1>9 DEF Restart
<1>10. CASE AwaitRestarted
  BY <1>0, <1>10 DEF AwaitRestarted, MayExit
<1>11. CASE BeginReplacing
  BY <1>0, <1>11 DEF BeginReplacing
<1>12. CASE EndUpdating
  BY <1>0, <1>12 DEF EndUpdating
<1>13. CASE Detach
  BY <1>0, <1>13 DEF Detach, MayDetach
<1>14. CASE Remove
  BY <1>0, <1>14 DEF Remove
<1>15. CASE CreateNew
  BY <1>0, <1>15 DEF CreateNew, Created
<1>16. CASE StartNew
  BY <1>0, <1>16 DEF StartNew, RunsCommands
<1>17. CASE AwaitNew
  BY <1>0, <1>17 DEF AwaitNew, MayExit
<1>18. CASE TearDownUnhealthy \/ CleanUp
  <2>1. /\ pc \in {"teardown", "cleanup"} /\ pc' \in {"tagOld", "cleanup"}
        /\ UNCHANGED <<plan, oldImage, wasRunning, image, result, pos>>
    BY <1>18 DEF TearDownUnhealthy, CleanUp
  <2>2. Current \in Containers /\ result[Current] = "none"
    BY <1>0, <2>1, NotPassed
  <2>3. \A d \in Containers \ {Current} :
           st'[d] = st[d] /\ attached'[d] = attached[d]
    BY <1>18, <2>2, TearDownLocal DEF TearDownUnhealthy, CleanUp
  <2>4. \A d \in Containers : err[d] => err'[d]
    <3>1. Fails(Current) \/ UNCHANGED err
      BY <1>18 DEF TearDownUnhealthy, CleanUp
    <3>2. QED
      BY <2>2, <3>1
  <2>5. ~Behind(Current)
    BY <1>0, <2>1
  <2>6. Current' = Current
    BY <2>1
  <2>7. \A d \in Containers : Behind(d)' = Behind(d)
    BY <2>1
  <2>8. QED
    <3> HIDE DEF Behind, Current
    <3>1. QED
      BY <2>1, <2>2, <2>3, <2>4, <2>5, <2>6, <2>7
<1>19. CASE TagOld
  BY <1>0, <1>19 DEF TagOld
<1>20. CASE Recreate
  BY <1>0, <1>20 DEF Recreate, Created, RollBackFails
<1>21. CASE StartOld
  BY <1>0, <1>21 DEF StartOld, RollBackFails, RunsCommands
<1>22. CASE AwaitOld
  BY <1>0, <1>22 DEF AwaitOld, RollBackFails, MayExit
<1>23. CASE Finish \/ FinishRaises \/ Terminated
  BY <1>0, <1>23 DEF Finish, FinishRaises, Terminated, vars, control
<1>24. QED
  BY <1>1, <1>2, <1>3, <1>4, <1>5, <1>6, <1>7, <1>8, <1>9, <1>10, <1>11,
     <1>12, <1>13, <1>14, <1>15, <1>16, <1>17, <1>18, <1>19, <1>20, <1>21,
     <1>22, <1>23
  DEF Next

-----------------------------------------------------------------------------
(* The inductive invariant holds at the start and is kept by every step.   *)
LEMMA InitIInv == Init => IInv
<1> SUFFICES ASSUME Init PROVE IInv
  OBVIOUS
<1> USE PlanFacts DEF Init, Replacing
<1>1. Placed
  BY DEF Placed
<1>2. Present
  BY DEF Present, OnlyCurrentMissing
<1>3. TagsHeld
  BY DEF TagsHeld, Prepared, NewImageHeld
<1>4. \A c \in Containers : OldImageHeld(c)
  BY DEF OldImageHeld
<1>5. BystandersUntouched
  BY DEF BystandersUntouched
<1>6. VetoHeld
  BY DEF VetoHeld, Untouched, VetoedStaysUp
<1>7. StillDown
  BY DEF StillDown
<1>8. ReportHeld
  BY DEF ReportHeld
<1>9. QED
  BY <1>1, <1>2, <1>3, <1>4, <1>5, <1>6, <1>7, <1>8 DEF IInv

(* Each part is kept by the lemma of its own.                              *)
LEMMA NextIInv == TypeOK /\ TypeOK' /\ IInv /\ [Next]_vars => IInv'
  BY PlacedStep, PresentStep, TagsStep, OldImageStep, BystandersStep, VetoStep,
     StillDownStep, ReportStep DEF IInv

(* The parts of the invariant hold together in every reachable state.      *)
THEOREM Invariance == Spec => []IInv
<1>1. Init => IInv
  BY InitIInv
<1>2. TypeOK /\ TypeOK' /\ IInv /\ [Next]_vars => IInv'
  BY NextIInv
<1>3. QED
  BY <1>1, <1>2, TypeCorrect, PTL DEF Spec

(* Wherever the process dies, at most the container being replaced is      *)
(* missing without having been reported.                                   *)
THEOREM NothingLostUnreported == Spec => []OnlyCurrentMissing
<1>1. IInv => OnlyCurrentMissing
  BY DEF IInv, Present
<1>2. QED
  BY <1>1, Invariance, PTL

(* "updated" means the new image for every container that shares its image *)
(* spec with no other updatable container.                                 *)
THEOREM UpdatedIsNew == Spec => []UnsharedUpdatedRunsLatest
<1>1. IInv => UnsharedUpdatedRunsLatest
  BY DEF IInv, TagsHeld, NewImageHeld, RunsLatest, UnsharedUpdatedRunsLatest
<1>2. QED
  BY <1>1, Invariance, PTL

(* "rolled_back" means the old image, provided docker acknowledged the tag.*)
THEOREM RolledBackIsOld == Spec => []RetaggedRollBackRunsOld
<1>1. IInv => RetaggedRollBackRunsOld
  BY DEF IInv, OldImageHeld, RetaggedRollBackRunsOld
<1>2. QED
  BY <1>1, Invariance, PTL

(* Containers outside the plan are not touched, affected ones never        *)
(* recreated.                                                              *)
THEOREM BystandersSafe == Spec => []BystandersUntouched
<1>1. IInv => BystandersUntouched
  BY DEF IInv
<1>2. QED
  BY <1>1, Invariance, PTL

(* A failing pre hook leaves its container running as it was.              *)
THEOREM VetoIsFinal == Spec => []VetoedStaysUp
<1>1. IInv => VetoedStaysUp
  BY DEF IInv, VetoHeld
<1>2. QED
  BY <1>1, Invariance, PTL

(* No container placed later in the order runs while an earlier one is     *)
(* being replaced, unless stopping it failed.                              *)
THEOREM DependentsStayDown == Spec => []DependentsDown
<1>1. TypeOK /\ IInv => DependentsDown
  <2> SUFFICES ASSUME TypeOK, StillDown, pc \in Replacing,
                      NEW j \in (pos + 1)..Len(plan.order)
               PROVE  IsDown(plan.order[j])
    BY DEF IInv, DependentsDown, IsDown
  <2>1. j \in 1..Len(plan.order) /\ j > pos
    BY PlanFacts DEF TypeOK
  <2>2. QED
    BY <2>1 DEF StillDown
<1>2. QED
  BY <1>1, Invariance, TypeCorrect, PTL

(* At the end of a walk the report and the host agree on every container.  *)
THEOREM ReportAgrees == Spec => []ReportMatchesHost
<1>1. TypeOK /\ IInv => ReportMatchesHost
  <2> SUFFICES ASSUME TypeOK, IInv, pc \in {"finish", "done"},
                      NEW c \in Containers
               PROVE  /\ result[c] = "none" =>
                             /\ image[c] = oldImage[c] /\ attached[c]
                             /\ wasRunning[c] /\ ~err[c] => st[c] = "running"
                      /\ result[c] = "updated" =>
                             (st[c] = "running") = wasRunning[c]
                      /\ result[c] # "failed" => st[c] # "absent"
                      /\ result[c] \in {"updated", "rolled_back"} =>
                             attached[c] \/ MayMissNetworks(c)
                      /\ result[c] = "failed" => err[c]
    BY DEF ReportMatchesHost
  <2>1. ReportHeld /\ OnlyCurrentMissing /\ BystandersUntouched
    BY DEF IInv, Present
  <2>2. pc \notin Replacing
    BY DEF Replacing
  <2>3. c \in Involved(plan) => Behind(c)
    <3>1. pos > Len(plan.order)
      BY <2>1 DEF ReportHeld
    <3>2. c \in Involved(plan) =>
             \E j \in 1..Len(plan.order) : plan.order[j] = c
      BY PlanAssumption DEF TypeOK, IsPlan
    <3>3. QED
      BY <3>1, <3>2, PlanFacts DEF Behind, TypeOK
  <2>4. c \notin Involved(plan) => (st[c] = "running") = wasRunning[c]
    BY <2>1 DEF BystandersUntouched, Involved
  <2>5. result[c] # "failed" => st[c] # "absent"
    BY <2>1, <2>2 DEF ReportHeld, OnlyCurrentMissing, TypeOK, Results
  <2>6. result[c] = "none" /\ wasRunning[c] /\ ~err[c] => st[c] = "running"
    BY <2>1, <2>3, <2>4 DEF ReportHeld
  <2>7. QED
    BY <2>1, <2>2, <2>5, <2>6 DEF ReportHeld
<1>2. QED
  BY <1>1, Invariance, TypeCorrect, PTL

-----------------------------------------------------------------------------
(* What a step of the run does to a host it does not have to itself.  None *)
(* of these facts needs more of the host than its type.                    *)
(*                                                                         *)
(* It moves the images of updatable containers and the tags of their specs *)
(* only.                                                                   *)
LEMMA MovesOwnImages ==
    ASSUME TypeOK, Placed, Prepared, [Next]_vars
    PROVE  /\ \A c \in Containers \ plan.toUpdate : image'[c] = image[c]
           /\ \A s \in Specs :
                 (\A d \in plan.toUpdate : spec[d] # s) => tag'[s] = tag[s]
<1> USE PlanFacts
    DEF TypeOK, Replacing, job, host, items, Placed, Prepared, Created
<1>0. pos \in 1..Len(plan.order) => Current \in Containers
  BY DEF Current
<1>1. CASE UNCHANGED vars
  BY <1>1 DEF vars
<1>2. CASE Refuse \/ Begin \/ BeginStopping \/ BeginUpdating
  BY <1>2 DEF Refuse, Begin, BeginStopping, BeginUpdating
<1>3. CASE SkipStop \/ HookVetoesStop \/ StopContainer
  BY <1>3 DEF SkipStop, HookVetoesStop, StopContainer
<1>4. ASSUME NEW d \in Containers, Prepare(d)
      PROVE  /\ UNCHANGED image /\ d \in plan.toUpdate
             /\ \A s \in Specs \ {spec[d]} : tag'[s] = tag[s]
  BY <1>4 DEF Prepare
<1>5. CASE SkipUpdate \/ FindRunning \/ RestartFails \/ Restart \/ AwaitRestarted
  BY <1>5 DEF SkipUpdate, FindRunning, RestartFails, Restart, AwaitRestarted
<1>6. CASE BeginReplacing \/ EndUpdating
  BY <1>6 DEF BeginReplacing, EndUpdating
<1>7. CASE Detach \/ Remove \/ StartNew
  BY <1>7 DEF Detach, Remove, StartNew
<1>8. CASE CreateNew
  BY <1>0, <1>8 DEF CreateNew
<1>9. CASE AwaitNew
  BY <1>9 DEF AwaitNew
<1>10. CASE TearDownUnhealthy \/ CleanUp
  BY <1>10 DEF TearDownUnhealthy, CleanUp
<1>11. CASE TagOld
  BY <1>0, <1>11 DEF TagOld
<1>12. CASE Recreate
  BY <1>0, <1>12 DEF Recreate
<1>13. CASE StartOld \/ AwaitOld
  BY <1>13 DEF StartOld, AwaitOld
<1>14. CASE Finish \/ FinishRaises \/ Terminated
  BY <1>14 DEF Finish, FinishRaises, Terminated, vars
<1> QED
  BY <1>1, <1>2, <1>3, <1>4, <1>5, <1>6, <1>7, <1>8, <1>9, <1>10, <1>11,
     <1>12, <1>13, <1>14
  DEF Next

(* It removes one name, keeps it in hand until it is created again, and    *)
(* lets go of a name that is still free only with the result "failed".     *)
LEMMA VacantStep ==
    ASSUME TypeOK, [Next]_vars, NEW c \in Containers, st'[c] = "absent"
    PROVE  /\ st[c] = "absent" \/ c \in Vacant'
           /\ c \in Vacant => c \in Vacant' \/ result'[c] = "failed"
<1> USE PlanFacts
    DEF TypeOK, Replacing, job, host, items, Goto, NextContainer, Fails,
        Returns, Started, MayStart, Vacant, Current
<1>0. pos \in 1..Len(plan.order) => Current \in Containers
  OBVIOUS
<1>1. CASE UNCHANGED vars
  BY <1>1 DEF vars, control
<1>2. CASE Refuse \/ Begin \/ BeginStopping \/ BeginUpdating
  BY <1>2 DEF Refuse, Begin, BeginStopping, BeginUpdating
<1>3. CASE SkipStop \/ HookVetoesStop \/ StopContainer
  BY <1>0, <1>3 DEF SkipStop, HookVetoesStop, StopContainer
<1>4. ASSUME NEW d \in Containers, Prepare(d)
      PROVE  UNCHANGED <<st, pc>> /\ pc = "prepare"
  BY <1>4 DEF Prepare
<1>5. CASE SkipUpdate \/ FindRunning \/ RestartFails \/ Restart
  BY <1>0, <1>5 DEF SkipUpdate, FindRunning, RestartFails, Restart
<1>6. CASE AwaitRestarted
  BY <1>0, <1>6 DEF AwaitRestarted, MayExit
<1>7. CASE BeginReplacing \/ EndUpdating
  BY <1>7 DEF BeginReplacing, EndUpdating
<1>8. CASE Detach \/ Remove
  BY <1>0, <1>8 DEF Detach, Remove
<1>9. CASE CreateNew
  BY <1>0, <1>9 DEF CreateNew, Created
<1>10. CASE StartNew
  BY <1>0, <1>10 DEF StartNew, RunsCommands
<1>11. CASE AwaitNew
  BY <1>0, <1>11 DEF AwaitNew, MayExit
<1>12. CASE TearDownUnhealthy \/ CleanUp
  <2>1. /\ pc \in {"teardown", "cleanup"} /\ pc' \in {"tagOld", "cleanup"}
        /\ UNCHANGED <<plan, pos>>
    BY <1>12 DEF TearDownUnhealthy, CleanUp
  <2>2. \A d \in Containers \ {Current} : st'[d] = st[d]
    BY <1>0, <1>12, TearDownLocal DEF TearDownUnhealthy, CleanUp
  <2>3. QED
    BY <1>0, <2>1, <2>2
<1>13. CASE TagOld
  BY <1>0, <1>13 DEF TagOld
<1>14. CASE Recreate
  BY <1>0, <1>14 DEF Recreate, Created, RollBackFails
<1>15. CASE StartOld
  BY <1>0, <1>15 DEF StartOld, RollBackFails, RunsCommands
<1>16. CASE AwaitOld
  BY <1>0, <1>16 DEF AwaitOld, RollBackFails, MayExit
<1>17. CASE Finish \/ FinishRaises \/ Terminated
  BY <1>17 DEF Finish, FinishRaises, Terminated, vars, control
<1> QED
  BY <1>1, <1>2, <1>3, <1>4, <1>5, <1>6, <1>7, <1>8, <1>9, <1>10, <1>11,
     <1>12, <1>13, <1>14, <1>15, <1>16, <1>17
  DEF Next

(* It stops a container that it is going to start again, and forgets a     *)
(* container that is down only with an error or a roll-back to show.       *)
LEMMA DebtStep ==
    ASSUME TypeOK, Placed, [Next]_vars, NEW c \in Containers,
           st'[c] # "running", st[c] = "running" \/ Owed(c)
    PROVE  Owed(c)' \/ Settled(c)'
<1> USE PlanFacts
    DEF TypeOK, Replacing, job, host, items, Goto, NextContainer, Fails,
        FailsIf, MayFail, HooksMayFail, Returns, Started, MayStart, Settled,
        Owed, Current, MustStop
<1>0. pos \in 1..Len(plan.order) => Current \in Containers
  OBVIOUS
<1>1. CASE UNCHANGED vars
  BY <1>1 DEF vars, control
<1>2. CASE Refuse \/ Begin
  BY <1>2 DEF Refuse, Begin
<1>3. CASE BeginStopping \/ BeginUpdating
  BY <1>3 DEF BeginStopping, BeginUpdating
<1>4. CASE SkipStop
  BY <1>0, <1>4 DEF SkipStop
<1>5. CASE HookVetoesStop
  BY <1>0, <1>5 DEF HookVetoesStop
<1>6. CASE StopContainer
  BY <1>0, <1>6 DEF StopContainer
<1>7. ASSUME NEW d \in Containers, Prepare(d)
      PROVE  UNCHANGED <<st, pc>> /\ pc = "prepare"
  BY <1>7 DEF Prepare
<1>8. CASE SkipUpdate
  BY <1>0, <1>8 DEF SkipUpdate, Restarts
<1>9. CASE FindRunning
  BY <1>0, <1>9 DEF FindRunning
<1>10. CASE RestartFails
  BY <1>0, <1>10 DEF RestartFails
<1>11. CASE Restart
  BY <1>0, <1>11 DEF Restart
<1>12. CASE AwaitRestarted
  BY <1>0, <1>12 DEF AwaitRestarted, MayExit
<1>13. CASE BeginReplacing
  BY <1>0, <1>13 DEF BeginReplacing
<1>14. CASE EndUpdating
  BY <1>0, <1>14 DEF EndUpdating, Finished
<1>15. CASE Detach
  BY <1>0, <1>15 DEF Detach
<1>16. CASE Remove
  BY <1>0, <1>16 DEF Remove
<1>17. CASE CreateNew
  BY <1>0, <1>17 DEF CreateNew, Created
<1>18. CASE StartNew
  BY <1>0, <1>18 DEF StartNew, RunsCommands
<1>19. CASE AwaitNew
  BY <1>0, <1>19 DEF AwaitNew, MayExit
<1>20. CASE TearDownUnhealthy \/ CleanUp
  <2>1. /\ pc \in {"teardown", "cleanup"} /\ pc' \in {"tagOld", "cleanup"}
        /\ UNCHANGED <<plan, pos, wasRunning>>
    BY <1>20 DEF TearDownUnhealthy, CleanUp
  <2>2. \A d \in Containers \ {Current} : st'[d] = st[d]
    BY <1>0, <1>20, TearDownLocal DEF TearDownUnhealthy, CleanUp
  <2>3. QED
    BY <1>0, <2>1, <2>2
<1>21. CASE TagOld
  BY <1>0, <1>21 DEF TagOld
<1>22. CASE Recreate
  BY <1>0, <1>22 DEF Recreate, Created, RollBackFails
<1>23. CASE StartOld
  BY <1>0, <1>23 DEF StartOld, RollBackFails, RunsCommands
<1>24. CASE AwaitOld
  BY <1>0, <1>24 DEF AwaitOld, RollBackFails, MayExit, Placed
<1>25. CASE Finish \/ FinishRaises \/ Terminated
  BY <1>25 DEF Finish, FinishRaises, Terminated, vars, control
<1> QED
  BY <1>1, <1>2, <1>3, <1>4, <1>5, <1>6, <1>7, <1>8, <1>9, <1>10, <1>11,
     <1>12, <1>13, <1>14, <1>15, <1>16, <1>17, <1>18, <1>19, <1>20, <1>21,
     <1>22, <1>23, <1>24, <1>25
  DEF Next

-----------------------------------------------------------------------------
(* The refinement: every step of the executor is a step of HostUpdate or   *)
(* changes nothing HostUpdate speaks of.                                   *)

(* The executor starts where HostUpdate starts.                            *)
LEMMA InitRefines == Init => Promised!Init
  BY DEF Init, Promised!Init, InHand, Outcome, Phase, Replacing

(* While the walk is inside a replacement, a step that stays inside it and *)
(* keeps the result is work on the container in hand.                      *)
LEMMA StaysInHand ==
    ASSUME TypeOK, TypeOK', pc \in Replacing, pc' \in Replacing,
           UNCHANGED <<plan, pos>>,
           \A d \in Containers \ {Current} :
               /\ st'[d] = st[d] /\ image'[d] = image[d]
               /\ result'[d] = result[d]
    PROVE  Promised!Work(Current)
<1>1. Current \in Containers /\ Current' = Current
  BY PlanFacts DEF TypeOK, Current
<1>2. InHand = {Current} /\ UNCHANGED <<InHand, Phase>>
  BY <1>1 DEF InHand, Phase, Replacing, Ended
<1>3. UNCHANGED Outcome
  BY <1>1, <1>2 DEF Outcome
<1>4. Promised!Reshape(Current)
  <2>1. st' = [st EXCEPT ![Current] = st'[Current]]
    BY <1>1 DEF TypeOK
  <2>2. image' = [image EXCEPT ![Current] = image'[Current]]
    BY <1>1 DEF TypeOK
  <2>3. st'[Current] \in Promised!States /\ image'[Current] \in Versions
    BY <1>1 DEF TypeOK, Promised!States
  <2>. QED
    BY <2>1, <2>2, <2>3 DEF Promised!Reshape
<1>5. QED
  BY <1>2, <1>3, <1>4 DEF Promised!Work

(* A step that leaves the replacement for the next name of the order, with *)
(* a result that matches what is on the host, puts the container down.     *)
LEMMA PutsDown ==
    ASSUME TypeOK, TypeOK', pc \in Replacing, pc' = "update",
           UNCHANGED plan,
           \A d \in Containers \ {Current} :
               /\ st'[d] = st[d] /\ image'[d] = image[d]
               /\ result'[d] = result[d],
           result'[Current] # "none",
           result'[Current] # "failed" => st'[Current] # "absent"
    PROVE  Promised!Settle(Current)
<1>1. Current \in Containers
  BY PlanFacts DEF TypeOK, Current
<1>2. InHand = {Current} /\ InHand' = {} /\ UNCHANGED Phase
  BY DEF InHand, Phase, Replacing, Ended
<1>3. /\ result'[Current] \in Promised!Reported
      /\ Outcome' = [Outcome EXCEPT ![Current] = result'[Current]]
  BY <1>1, <1>2 DEF Outcome, TypeOK, Results, Promised!Reported
<1>4. Promised!Reshape(Current)
  <2>1. st' = [st EXCEPT ![Current] = st'[Current]]
    BY <1>1 DEF TypeOK
  <2>2. image' = [image EXCEPT ![Current] = image'[Current]]
    BY <1>1 DEF TypeOK
  <2>3. st'[Current] \in Promised!States /\ image'[Current] \in Versions
    BY <1>1 DEF TypeOK, Promised!States
  <2>. QED
    BY <2>1, <2>2, <2>3 DEF Promised!Reshape
<1>5. QED
  BY <1>2, <1>3, <1>4 DEF Promised!Settle

(* Outside a replacement a step that moves the walk without touching the   *)
(* host or the results is a stutter, or the end of a phase.                *)
LEMMA MovesOn ==
    ASSUME TypeOK, TypeOK', pc \notin Replacing, pc' \notin Replacing,
           UNCHANGED <<plan, st, image, result>>,
           \/ Phase' = Phase
           \/ Phase = "stopping"
           \/ Phase = "replacing" /\ Phase' = "over"
    PROVE  Promised!Advance \/ UNCHANGED Promised!vars
<1>1. InHand = {} /\ InHand' = {}
  BY DEF InHand
<1>2. UNCHANGED Outcome
  BY <1>1 DEF Outcome
<1>3. CASE Phase' = Phase
  BY <1>1, <1>2, <1>3 DEF Promised!vars
<1>4. CASE Phase' # Phase
  BY <1>1, <1>2, <1>4 DEF Promised!Advance, Phase
<1>5. QED
  BY <1>3, <1>4

(* Starting a container again, or its exit while it is waited for.         *)
LEMMA ComesBack ==
    ASSUME TypeOK, TypeOK', Present,
           pc \notin Replacing, pc' \notin Replacing,
           Phase = "replacing", Phase' = "replacing",
           Current \in Involved(plan), result[Current] = "none",
           st' \in {st, [st EXCEPT ![Current] = "running"],
                     [st EXCEPT ![Current] = "stopped"]},
           UNCHANGED <<plan, image, result>>
    PROVE  Promised!Resume(Current) \/ UNCHANGED Promised!vars
<1>1. InHand = {} /\ InHand' = {}
  BY DEF InHand
<1>2. UNCHANGED Outcome /\ Outcome = result
  BY <1>1 DEF Outcome, TypeOK
<1>3. Current \in Containers /\ st[Current] # "absent"
  BY PlanFacts DEF TypeOK, Present, OnlyCurrentMissing, Involved
<1>4. CASE UNCHANGED st
  BY <1>1, <1>2, <1>4 DEF Promised!vars
<1>5. CASE \E s \in {"running", "stopped"} : st' = [st EXCEPT ![Current] = s]
  BY <1>1, <1>2, <1>3, <1>5
  DEF Promised!Resume, Promised!Involved, Involved
<1>6. QED
  BY <1>4, <1>5

(* Every step of the executor is a step HostUpdate allows, or none.        *)
LEMMA NextRefines ==
    ASSUME TypeOK, TypeOK', IInv, [Next]_vars
    PROVE  [Promised!Next]_(Promised!vars)
<1> USE PlanFacts
    DEF job, host, items, Finished, Goto, NextContainer, Fails, MayFail,
        HooksMayFail, FailsIf, Returns, Answers, Started, MayStart, Restarts
<1>0. Placed /\ Present
  BY DEF IInv
<1>a. pos \in 1..Len(plan.order) => Current \in Containers
  BY DEF TypeOK, Current
<1>b. ASSUME Promised!Advance \/ UNCHANGED Promised!vars
      PROVE  [Promised!Next]_(Promised!vars)
  BY <1>b DEF Promised!Next
<1>c. ASSUME pc \in Replacing, Promised!Work(Current)
      PROVE  [Promised!Next]_(Promised!vars)
  BY <1>a, <1>c DEF Promised!Next, TypeOK
<1>d. ASSUME pc \in Replacing, Promised!Settle(Current)
      PROVE  [Promised!Next]_(Promised!vars)
  BY <1>a, <1>d DEF Promised!Next, TypeOK
<1>e. ASSUME pos \in 1..Len(plan.order),
             Promised!Resume(Current) \/ UNCHANGED Promised!vars
      PROVE  [Promised!Next]_(Promised!vars)
  BY <1>a, <1>e DEF Promised!Next
<1>1. CASE UNCHANGED vars
  BY <1>1 DEF vars, control, Promised!vars, InHand, Outcome, Phase, Current
<1>2. CASE Refuse
  BY <1>b, <1>2, MovesOn DEF Refuse, Phase, Replacing, Ended
<1>3. CASE Begin
  BY <1>b, <1>3, MovesOn DEF Begin, Phase, Replacing, Ended
<1>4. ASSUME NEW c \in Containers, Prepare(c)
      PROVE  [Promised!Next]_(Promised!vars)
  BY <1>b, <1>4, MovesOn DEF Prepare, Phase, Replacing
<1>5. CASE BeginStopping
  BY <1>b, <1>5, MovesOn DEF BeginStopping, Phase, Replacing
<1>6. CASE SkipStop \/ HookVetoesStop
  BY <1>b, <1>6, MovesOn DEF SkipStop, HookVetoesStop, Phase, Replacing
<1>7. CASE StopContainer
  <2>1. Current \in Containers /\ Current \in Involved(plan)
    BY <1>a, <1>7 DEF StopContainer, MustStop, TypeOK
  <2>2. UNCHANGED <<plan, image, result, pc>> /\ pc = "stop"
    BY <1>7 DEF StopContainer
  <2>3. InHand = {} /\ InHand' = {} /\ UNCHANGED Outcome
    BY <2>2 DEF InHand, Outcome, Replacing
  <2>4. Phase = "stopping" /\ UNCHANGED Phase
    BY <2>2 DEF Phase
  <2>5. st' = st \/ st' = [st EXCEPT ![Current] = "stopped"]
    BY <1>7 DEF StopContainer
  <2>6. CASE st' = st
    BY <2>2, <2>3, <2>4, <2>6 DEF Promised!vars
  <2>7. CASE st' = [st EXCEPT ![Current] = "stopped"]
    BY <2>1, <2>2, <2>3, <2>4, <2>7
    DEF Promised!Stop, Promised!Next, Promised!Involved, Involved
  <2>8. QED
    BY <2>5, <2>6, <2>7
<1>8. CASE BeginUpdating
  BY <1>b, <1>8, MovesOn DEF BeginUpdating, Phase, Replacing
<1>9. CASE SkipUpdate \/ FindRunning
  BY <1>b, <1>9, MovesOn DEF SkipUpdate, FindRunning, Phase, Replacing
<1>10. CASE RestartFails \/ Restart
  <2>1. pos \in 1..Len(plan.order) /\ pc = "update"
    BY <1>10 DEF RestartFails, Restart, TypeOK
  <2>2. result[Current] = "none"
    BY <1>0, <2>1, NotPassed
  <2>3. Current \in Involved(plan)
    BY <1>10 DEF RestartFails, Restart, Involved
  <2>4. /\ pc' \in {"update", "awaitStart"}
        /\ UNCHANGED <<plan, image, result>>
        /\ st' \in {st, [st EXCEPT ![Current] = "running"]}
    BY <1>10 DEF RestartFails, Restart
  <2>5. QED
    BY <1>0, <1>e, <2>1, <2>2, <2>3, <2>4, ComesBack DEF Phase, Replacing, Ended
<1>11. CASE AwaitRestarted
  <2>1. pos \in 1..Len(plan.order) /\ pc = "awaitStart" /\ pc' = "update"
    BY <1>11 DEF AwaitRestarted, TypeOK
  <2>2. result[Current] = "none"
    BY <1>0, <2>1, NotPassed
  <2>3. Current \in Involved(plan)
    BY <1>0, <2>1 DEF Placed, Involved
  <2>4. /\ UNCHANGED <<plan, image, result>>
        /\ st' \in {st, [st EXCEPT ![Current] = "stopped"]}
    BY <1>11 DEF AwaitRestarted, MayExit
  <2>5. QED
    BY <1>0, <1>e, <2>1, <2>2, <2>3, <2>4, ComesBack DEF Phase, Replacing, Ended
<1>12. CASE BeginReplacing
  <2>1. /\ pos \in 1..Len(plan.order) /\ Current \in plan.toUpdate
        /\ pc = "update" /\ pc' = "detach"
        /\ UNCHANGED <<plan, st, image, result, pos>>
    BY <1>12 DEF BeginReplacing, TypeOK
  <2>2. result[Current] = "none" /\ Current' = Current
    BY <1>0, <2>1, NotPassed DEF Current
  <2>3. InHand = {} /\ InHand' = {Current}
    BY <2>1, <2>2 DEF InHand, Replacing
  <2>4. UNCHANGED Outcome /\ Outcome = result
    BY <2>1, <2>2, <2>3 DEF Outcome, TypeOK
  <2>5. Phase = "replacing" /\ UNCHANGED Phase
    BY <2>1 DEF Phase, Replacing, Ended
  <2>6. QED
    BY <1>a, <2>1, <2>2, <2>3, <2>4, <2>5 DEF Promised!PickUp, Promised!Next
<1>13. CASE Detach \/ Remove \/ StartNew \/ TagOld
  BY <1>a, <1>c, <1>13, StaysInHand
  DEF Detach, MayDetach, Remove, StartNew, TagOld, Replacing, TypeOK
<1>14. CASE CreateNew
  <2>1. /\ Current \in Containers /\ pc \in Replacing /\ UNCHANGED plan
        /\ \A d \in Containers \ {Current} :
              /\ st'[d] = st[d] /\ image'[d] = image[d]
              /\ result'[d] = result[d]
    BY <1>a, <1>14 DEF CreateNew, Created, TypeOK, Replacing
  <2>2. CASE pc' \in {"startNew", "cleanup"}
    BY <1>c, <1>14, <2>1, <2>2, StaysInHand DEF CreateNew, Replacing
  <2>3. CASE pc' = "update"
    <3>1. result'[Current] = "updated" /\ st'[Current] = "stopped"
      BY <1>14, <2>1, <2>3 DEF CreateNew, Created, TypeOK
    <3>2. QED
      BY <1>d, <2>1, <2>3, <3>1, PutsDown
  <2>4. QED
    BY <1>14, <2>2, <2>3 DEF CreateNew
<1>15. CASE AwaitNew
  <2>1. /\ Current \in Containers /\ pc \in Replacing /\ UNCHANGED plan
        /\ pc = "awaitNew" /\ UNCHANGED image
    BY <1>a, <1>15 DEF AwaitNew, TypeOK, Replacing
  <2>2. CASE pc' \in {"teardown", "cleanup"} /\ UNCHANGED pos
             /\ MayExit(Current) /\ UNCHANGED result
    BY <1>c, <2>1, <2>2, StaysInHand DEF MayExit, Replacing, TypeOK
  <2>3. CASE NextContainer /\ Returns(Current, "updated") /\ UNCHANGED st
    <3>1. result'[Current] = "updated" /\ st'[Current] # "absent"
      BY <1>0, <2>1, <2>3 DEF Present, TypeOK
    <3>2. QED
      BY <1>d, <2>1, <2>3, <3>1, PutsDown DEF TypeOK
  <2>4. QED
    BY <1>15, <2>2, <2>3 DEF AwaitNew
<1>16. CASE TearDownUnhealthy \/ CleanUp
  <2>1. /\ Current \in Containers /\ pc \in Replacing /\ UNCHANGED plan
        /\ UNCHANGED <<image, result, pos>> /\ pc' \in {"tagOld", "cleanup"}
    BY <1>a, <1>16 DEF TearDownUnhealthy, CleanUp, TypeOK, Replacing
  <2>2. \A d \in Containers \ {Current} : st'[d] = st[d]
    BY <1>16, <2>1, TearDownLocal DEF TearDownUnhealthy, CleanUp
  <2>3. QED
    BY <1>c, <2>1, <2>2, StaysInHand DEF Replacing
<1>17. CASE Recreate
  <2>1. /\ Current \in Containers /\ pc \in Replacing /\ UNCHANGED plan
        /\ \A d \in Containers \ {Current} :
              /\ st'[d] = st[d] /\ image'[d] = image[d]
              /\ result'[d] = result[d]
    BY <1>a, <1>17 DEF Recreate, Created, RollBackFails, TypeOK, Replacing
  <2>2. CASE pc' = "startOld"
    BY <1>c, <1>17, <2>1, <2>2, StaysInHand
    DEF Recreate, RollBackFails, Replacing
  <2>3. CASE RollBackFails
    BY <1>d, <2>1, <2>3, PutsDown DEF RollBackFails, TypeOK
  <2>4. QED
    BY <1>17, <2>2, <2>3 DEF Recreate
<1>18. CASE StartOld
  <2>1. /\ Current \in Containers /\ pc \in Replacing /\ UNCHANGED plan
        /\ \A d \in Containers \ {Current} :
              /\ st'[d] = st[d] /\ image'[d] = image[d]
              /\ result'[d] = result[d]
    BY <1>a, <1>18 DEF StartOld, RollBackFails, TypeOK, Replacing
  <2>2. CASE pc' = "awaitOld"
    BY <1>c, <1>18, <2>1, <2>2, StaysInHand
    DEF StartOld, RollBackFails, Replacing
  <2>3. CASE RollBackFails
    BY <1>d, <2>1, <2>3, PutsDown DEF RollBackFails, TypeOK
  <2>4. QED
    BY <1>18, <2>2, <2>3 DEF StartOld
<1>19. CASE AwaitOld
  <2>1. /\ Current \in Containers /\ pc \in Replacing /\ UNCHANGED plan
        /\ pc = "awaitOld" /\ pc' = "update" /\ UNCHANGED image
        /\ MayExit(Current)
        /\ \/ UNCHANGED result
           \/ Returns(Current, "failed")
    BY <1>a, <1>19 DEF AwaitOld, RollBackFails, TypeOK, Replacing
  <2>2. result[Current] = "rolled_back" /\ st[Current] # "absent"
    BY <1>0, <2>1 DEF Placed, Present
  <2>3. \A d \in Containers \ {Current} :
           st'[d] = st[d] /\ result'[d] = result[d]
    BY <2>1 DEF MayExit, TypeOK
  <2>4. /\ st'[Current] # "absent"
        /\ result'[Current] \in {"rolled_back", "failed"}
    BY <2>1, <2>2 DEF MayExit, TypeOK
  <2>5. QED
    BY <1>d, <2>1, <2>3, <2>4, PutsDown
<1>20. CASE EndUpdating
  BY <1>b, <1>20, MovesOn DEF EndUpdating, Phase, Replacing, Ended
<1>21. CASE Finish \/ FinishRaises
  BY <1>b, <1>21, MovesOn DEF Finish, FinishRaises, Phase, Replacing, Ended
<1>22. CASE Terminated
  BY <1>1, <1>22 DEF Terminated
<1>23. QED
  BY <1>1, <1>2, <1>3, <1>4, <1>5, <1>6, <1>7, <1>8, <1>9, <1>10, <1>11,
     <1>12, <1>13, <1>14, <1>15, <1>16, <1>17, <1>18, <1>19, <1>20, <1>21,
     <1>22
  DEF Next

(* The executor implements what HostUpdate promises of every step: one     *)
(* container in hand at a time, outcomes that are final, and nothing       *)
(* touched but what is in hand or being stopped or started.                *)
THEOREM ExecutorKeepsPromise == Spec => ImplementsHostUpdate
<1>1. Init => Promised!Init
  BY InitRefines
<1>2. TypeOK /\ TypeOK' /\ IInv /\ [Next]_vars =>
         [Promised!Next]_(Promised!vars)
  BY NextRefines
<1>3. QED
  BY <1>1, <1>2, TypeCorrect, Invariance, PTL
  DEF Spec, ImplementsHostUpdate, Promised!Spec
=============================================================================
