--------------------------- MODULE SharedHostProofs ---------------------------
(***************************************************************************)
(* Theorems about SharedHost for any number of containers, any plans of    *)
(* the two runs and any number of commands and prunes.  What a step of one *)
(* run does to the host is proved once, in PlanExecutorProofs, of a host   *)
(* about which only its type is known; the two instances of that module    *)
(* below are the two runs.                                                 *)
(***************************************************************************)
EXTENDS SharedHost, TLAPS

One == INSTANCE PlanExecutorProofs
    WITH Plans <- FirstPlans, plan <- plan1, oldImage <- oldImage1, wasRunning <- wasRunning1,
         err <- err1, result <- result1, vetoed <- vetoed1,
         retagged <- retagged1, pc <- pc1, pos <- pos1, todo <- todo1,
         status <- status1

Two == INSTANCE PlanExecutorProofs
    WITH Plans <- SecondPlans, plan <- plan2, oldImage <- oldImage2, wasRunning <- wasRunning2,
         err <- err2, result <- result2, vetoed <- vetoed2,
         retagged <- retagged2, pc <- pc2, pos <- pos2, todo <- todo2,
         status <- status2

-----------------------------------------------------------------------------
(* The first run of SharedHost, reached through PlanExecutor, and the one   *)
(* of the lemmas, reached through PlanExecutorProofs, are the same.         *)
FirstIsOne ==
    /\ First!TypeOK <=> One!TypeOK
    /\ First!Placed <=> One!Placed
    /\ First!Prepared <=> One!Prepared
    /\ First!Vacant = One!Vacant
    /\ \A c \in Containers :
          /\ First!Settled(c) <=> One!Settled(c)
          /\ First!Owed(c) <=> One!Owed(c)
          /\ First!SharesSpec(c) <=> One!SharesSpec(c)
          /\ First!NewImageHeld(c) <=> One!NewImageHeld(c)
          /\ First!OldImageHeld(c) <=> One!OldImageHeld(c)

LEMMA FirstAgrees == FirstIsOne /\ FirstIsOne'
<1>1. FirstIsOne
  <2>1. First!TypeOK <=> One!TypeOK
    BY DEF First!TypeOK, One!TypeOK, First!Labels, One!Labels,
           First!Replacing, One!Replacing, First!Ended, One!Ended,
           First!Results, One!Results
  <2>2. First!Placed <=> One!Placed
    BY DEF First!Placed, One!Placed, First!Replacing, One!Replacing,
           First!Current, One!Current, First!Restarts, One!Restarts,
           First!CanUpdate, One!CanUpdate, First!Passed, One!Passed
  <2>3. First!Prepared <=> One!Prepared
    BY DEF First!Prepared, One!Prepared, First!Current, One!Current
  <2>4. First!Vacant = One!Vacant
    BY DEF First!Vacant, One!Vacant, First!Current, One!Current
  <2>5. ASSUME NEW c \in Containers
        PROVE  /\ First!Settled(c) <=> One!Settled(c)
               /\ First!Owed(c) <=> One!Owed(c)
               /\ First!SharesSpec(c) <=> One!SharesSpec(c)
               /\ First!NewImageHeld(c) <=> One!NewImageHeld(c)
               /\ First!OldImageHeld(c) <=> One!OldImageHeld(c)
    BY DEF First!Settled, One!Settled, First!Owed, One!Owed, First!Current,
           One!Current, First!MustStop, One!MustStop, First!Involved,
           One!Involved, First!Replacing, One!Replacing, First!SharesSpec,
           One!SharesSpec, First!NewImageHeld, One!NewImageHeld,
           First!OldImageHeld, One!OldImageHeld
  <2>. QED
    BY <2>1, <2>2, <2>3, <2>4, <2>5 DEF FirstIsOne
<1>2. FirstIsOne'
  BY <1>1, PTL
<1>. QED
  BY <1>1, <1>2

(* So are their steps.                                                     *)
LEMMA FirstNextIsOne == First!Next <=> One!Next
  BY DEF First!Next, One!Next,
         First!Refuse, One!Refuse, First!Begin, One!Begin, First!Prepare,
         One!Prepare, First!BeginStopping, One!BeginStopping, First!SkipStop,
         One!SkipStop, First!HookVetoesStop, One!HookVetoesStop,
         First!StopContainer, One!StopContainer, First!BeginUpdating,
         One!BeginUpdating, First!SkipUpdate, One!SkipUpdate,
         First!RestartFails, One!RestartFails, First!FindRunning,
         One!FindRunning, First!Restart, One!Restart, First!AwaitRestarted,
         One!AwaitRestarted, First!BeginReplacing, One!BeginReplacing,
         First!Detach, One!Detach, First!Remove, One!Remove, First!CreateNew,
         One!CreateNew, First!StartNew, One!StartNew, First!AwaitNew,
         One!AwaitNew, First!TearDownUnhealthy, One!TearDownUnhealthy,
         First!CleanUp, One!CleanUp, First!TagOld, One!TagOld, First!Recreate,
         One!Recreate, First!StartOld, One!StartOld, First!AwaitOld,
         One!AwaitOld, First!EndUpdating, One!EndUpdating, First!Finish,
         One!Finish, First!FinishRaises, One!FinishRaises, First!Terminated,
         One!Terminated, First!job, One!job, First!host, One!host,
         First!items, One!items, First!control, One!control, First!vars,
         One!vars, First!Current, One!Current, First!Finished, One!Finished,
         First!CanUpdate, One!CanUpdate, First!Goto, One!Goto,
         First!NextContainer, One!NextContainer, First!Fails, One!Fails,
         First!MayFail, One!MayFail, First!HooksMayFail, One!HooksMayFail,
         First!FailsIf, One!FailsIf, First!Returns, One!Returns,
         First!Answers, One!Answers, First!Outcomes, One!Outcomes,
         First!Started, One!Started, First!MayStart, One!MayStart,
         First!Involved, One!Involved, First!MustStop, One!MustStop,
         First!Restarts, One!Restarts, First!MayExit, One!MayExit,
         First!MayDetach, One!MayDetach, First!Created, One!Created,
         First!RunsCommands, One!RunsCommands,
         First!TearDown, One!TearDown, First!RollBackFails, One!RollBackFails,
         First!Replacing, One!Replacing, First!Ended, One!Ended

(* What a step of the first run keeps and does, whoever else is at work.   *)
LEMMA FirstStep ==
    ASSUME First!TypeOK, First!Placed, First!Prepared, First!Next
    PROVE  /\ First!TypeOK' /\ First!Placed' /\ First!Prepared'
           /\ UNCHANGED <<spec, plan1, oldImage1, wasRunning1>>
           /\ \A s \in Specs :
                 (\A d \in plan1.toUpdate : spec[d] # s) => tag'[s] = tag[s]
           /\ \A c \in Containers :
                 /\ c \notin plan1.toUpdate => image'[c] = image[c]
                 /\ result1[c] = "failed" => result1'[c] = "failed"
                 /\ st'[c] = "absent" =>
                       /\ st[c] = "absent" \/ c \in First!Vacant'
                       /\ c \in First!Vacant =>
                             c \in First!Vacant' \/ result1'[c] = "failed"
                 /\ First!Settled(c) => First!Settled(c)'
                 /\ st'[c] # "running" /\ (st[c] = "running" \/ First!Owed(c)) =>
                       First!Owed(c)' \/ First!Settled(c)'
                 /\ ~First!SharesSpec(c) /\ First!NewImageHeld(c) =>
                       First!NewImageHeld(c)'
                 /\ First!OldImageHeld(c) => First!OldImageHeld(c)'
<1>1. One!TypeOK /\ One!Placed /\ One!Prepared /\ [One!Next]_(One!vars)
  BY FirstAgrees, FirstNextIsOne DEF FirstIsOne
<1>2. /\ \A p \in FirstPlans : One!IsPlan(p)
      /\ Latest \in Versions
      /\ Hooked \subseteq Containers /\ Linked \subseteq Containers
  BY PlansAssumption, LatestAssumption, HookedAssumption, LinkedAssumption
  DEF IsPlan, Involved, One!IsPlan, One!Involved
<1>3. One!TypeOK' /\ One!Placed' /\ One!Prepared'
  BY <1>1, <1>2, One!TypeStep, One!PlacedStep, One!PreparedStep
<1>4. /\ UNCHANGED <<spec, plan1, oldImage1, wasRunning1>>
      /\ \A c \in Containers :
            /\ result1[c] = "failed" => result1'[c] = "failed"
            /\ One!Settled(c) => One!Settled(c)'
  BY <1>1, <1>2, One!ReportsStand DEF One!Settled
<1>5. /\ \A s \in Specs :
            (\A d \in plan1.toUpdate : spec[d] # s) => tag'[s] = tag[s]
      /\ \A c \in Containers :
            c \notin plan1.toUpdate => image'[c] = image[c]
  BY <1>1, <1>2, One!MovesOwnImages
<1>6. ASSUME NEW c \in Containers, st'[c] = "absent"
      PROVE  /\ st[c] = "absent" \/ c \in One!Vacant'
             /\ c \in One!Vacant => c \in One!Vacant' \/ result1'[c] = "failed"
  BY <1>1, <1>2, <1>6, One!VacantStep
<1>7. ASSUME NEW c \in Containers, st'[c] # "running",
             st[c] = "running" \/ One!Owed(c)
      PROVE  One!Owed(c)' \/ One!Settled(c)'
  BY <1>1, <1>2, <1>7, One!DebtStep
<1>8. ASSUME NEW c \in Containers, ~One!SharesSpec(c), One!NewImageHeld(c)
      PROVE  One!NewImageHeld(c)'
  BY <1>1, <1>2, <1>8, One!NewImageStep
<1>9. ASSUME NEW c \in Containers, One!OldImageHeld(c)
      PROVE  One!OldImageHeld(c)'
  BY <1>1, <1>2, <1>9, One!OldImageStep
<1>. QED
  BY <1>3, <1>4, <1>5, <1>6, <1>7, <1>8, <1>9, FirstAgrees DEF FirstIsOne

(* The same of the second run.                                             *)
SecondIsTwo ==
    /\ Second!TypeOK <=> Two!TypeOK
    /\ Second!Placed <=> Two!Placed
    /\ Second!Prepared <=> Two!Prepared
    /\ Second!Vacant = Two!Vacant
    /\ \A c \in Containers :
          /\ Second!Settled(c) <=> Two!Settled(c)
          /\ Second!Owed(c) <=> Two!Owed(c)
          /\ Second!SharesSpec(c) <=> Two!SharesSpec(c)
          /\ Second!NewImageHeld(c) <=> Two!NewImageHeld(c)
          /\ Second!OldImageHeld(c) <=> Two!OldImageHeld(c)

LEMMA SecondAgrees == SecondIsTwo /\ SecondIsTwo'
<1>1. SecondIsTwo
  <2>1. Second!TypeOK <=> Two!TypeOK
    BY DEF Second!TypeOK, Two!TypeOK, Second!Labels, Two!Labels,
           Second!Replacing, Two!Replacing, Second!Ended, Two!Ended,
           Second!Results, Two!Results
  <2>2. Second!Placed <=> Two!Placed
    BY DEF Second!Placed, Two!Placed, Second!Replacing, Two!Replacing,
           Second!Current, Two!Current, Second!Restarts, Two!Restarts,
           Second!CanUpdate, Two!CanUpdate, Second!Passed, Two!Passed
  <2>3. Second!Prepared <=> Two!Prepared
    BY DEF Second!Prepared, Two!Prepared, Second!Current, Two!Current
  <2>4. Second!Vacant = Two!Vacant
    BY DEF Second!Vacant, Two!Vacant, Second!Current, Two!Current
  <2>5. ASSUME NEW c \in Containers
        PROVE  /\ Second!Settled(c) <=> Two!Settled(c)
               /\ Second!Owed(c) <=> Two!Owed(c)
               /\ Second!SharesSpec(c) <=> Two!SharesSpec(c)
               /\ Second!NewImageHeld(c) <=> Two!NewImageHeld(c)
               /\ Second!OldImageHeld(c) <=> Two!OldImageHeld(c)
    BY DEF Second!Settled, Two!Settled, Second!Owed, Two!Owed, Second!Current,
           Two!Current, Second!MustStop, Two!MustStop, Second!Involved,
           Two!Involved, Second!Replacing, Two!Replacing, Second!SharesSpec,
           Two!SharesSpec, Second!NewImageHeld, Two!NewImageHeld,
           Second!OldImageHeld, Two!OldImageHeld
  <2>. QED
    BY <2>1, <2>2, <2>3, <2>4, <2>5 DEF SecondIsTwo
<1>2. SecondIsTwo'
  BY <1>1, PTL
<1>. QED
  BY <1>1, <1>2

(* And of its steps.                                                       *)
LEMMA SecondNextIsTwo == Second!Next <=> Two!Next
  BY DEF Second!Next, Two!Next,
         Second!Refuse, Two!Refuse, Second!Begin, Two!Begin, Second!Prepare,
         Two!Prepare, Second!BeginStopping, Two!BeginStopping,
         Second!SkipStop, Two!SkipStop, Second!HookVetoesStop,
         Two!HookVetoesStop, Second!StopContainer, Two!StopContainer,
         Second!BeginUpdating, Two!BeginUpdating, Second!SkipUpdate,
         Two!SkipUpdate, Second!RestartFails, Two!RestartFails,
         Second!FindRunning, Two!FindRunning, Second!Restart, Two!Restart,
         Second!AwaitRestarted, Two!AwaitRestarted, Second!BeginReplacing,
         Two!BeginReplacing, Second!Detach, Two!Detach, Second!Remove,
         Two!Remove, Second!CreateNew, Two!CreateNew, Second!StartNew,
         Two!StartNew, Second!AwaitNew, Two!AwaitNew,
         Second!TearDownUnhealthy, Two!TearDownUnhealthy, Second!CleanUp,
         Two!CleanUp, Second!TagOld, Two!TagOld, Second!Recreate,
         Two!Recreate, Second!StartOld, Two!StartOld, Second!AwaitOld,
         Two!AwaitOld, Second!EndUpdating, Two!EndUpdating, Second!Finish,
         Two!Finish, Second!FinishRaises, Two!FinishRaises, Second!Terminated,
         Two!Terminated, Second!job, Two!job, Second!host, Two!host,
         Second!items, Two!items, Second!control, Two!control, Second!vars,
         Two!vars, Second!Current, Two!Current, Second!Finished, Two!Finished,
         Second!CanUpdate, Two!CanUpdate, Second!Goto, Two!Goto,
         Second!NextContainer, Two!NextContainer, Second!Fails, Two!Fails,
         Second!MayFail, Two!MayFail, Second!HooksMayFail, Two!HooksMayFail,
         Second!FailsIf, Two!FailsIf, Second!Returns, Two!Returns,
         Second!Answers, Two!Answers, Second!Outcomes, Two!Outcomes,
         Second!Started, Two!Started, Second!MayStart, Two!MayStart,
         Second!Involved, Two!Involved, Second!MustStop, Two!MustStop,
         Second!Restarts, Two!Restarts, Second!MayExit, Two!MayExit,
         Second!MayDetach, Two!MayDetach, Second!Created, Two!Created,
         Second!RunsCommands, Two!RunsCommands,
         Second!TearDown, Two!TearDown, Second!RollBackFails,
         Two!RollBackFails, Second!Replacing, Two!Replacing, Second!Ended,
         Two!Ended

(* What a step of the second run keeps and does.                           *)
LEMMA SecondStep ==
    ASSUME Second!TypeOK, Second!Placed, Second!Prepared, Second!Next
    PROVE  /\ Second!TypeOK' /\ Second!Placed' /\ Second!Prepared'
           /\ UNCHANGED <<spec, plan2, oldImage2, wasRunning2>>
           /\ \A s \in Specs :
                 (\A d \in plan2.toUpdate : spec[d] # s) => tag'[s] = tag[s]
           /\ \A c \in Containers :
                 /\ c \notin plan2.toUpdate => image'[c] = image[c]
                 /\ result2[c] = "failed" => result2'[c] = "failed"
                 /\ st'[c] = "absent" =>
                       /\ st[c] = "absent" \/ c \in Second!Vacant'
                       /\ c \in Second!Vacant =>
                             c \in Second!Vacant' \/ result2'[c] = "failed"
                 /\ Second!Settled(c) => Second!Settled(c)'
                 /\ st'[c] # "running" /\ (st[c] = "running" \/ Second!Owed(c)) =>
                       Second!Owed(c)' \/ Second!Settled(c)'
                 /\ ~Second!SharesSpec(c) /\ Second!NewImageHeld(c) =>
                       Second!NewImageHeld(c)'
                 /\ Second!OldImageHeld(c) => Second!OldImageHeld(c)'
<1>1. Two!TypeOK /\ Two!Placed /\ Two!Prepared /\ [Two!Next]_(Two!vars)
  BY SecondAgrees, SecondNextIsTwo DEF SecondIsTwo
<1>2. /\ \A p \in SecondPlans : Two!IsPlan(p)
      /\ Latest \in Versions
      /\ Hooked \subseteq Containers /\ Linked \subseteq Containers
  BY PlansAssumption, LatestAssumption, HookedAssumption, LinkedAssumption
  DEF IsPlan, Involved, Two!IsPlan, Two!Involved
<1>3. Two!TypeOK' /\ Two!Placed' /\ Two!Prepared'
  BY <1>1, <1>2, Two!TypeStep, Two!PlacedStep, Two!PreparedStep
<1>4. /\ UNCHANGED <<spec, plan2, oldImage2, wasRunning2>>
      /\ \A c \in Containers :
            /\ result2[c] = "failed" => result2'[c] = "failed"
            /\ Two!Settled(c) => Two!Settled(c)'
  BY <1>1, <1>2, Two!ReportsStand DEF Two!Settled
<1>5. /\ \A s \in Specs :
            (\A d \in plan2.toUpdate : spec[d] # s) => tag'[s] = tag[s]
      /\ \A c \in Containers :
            c \notin plan2.toUpdate => image'[c] = image[c]
  BY <1>1, <1>2, Two!MovesOwnImages
<1>6. ASSUME NEW c \in Containers, st'[c] = "absent"
      PROVE  /\ st[c] = "absent" \/ c \in Two!Vacant'
             /\ c \in Two!Vacant => c \in Two!Vacant' \/ result2'[c] = "failed"
  BY <1>1, <1>2, <1>6, Two!VacantStep
<1>7. ASSUME NEW c \in Containers, st'[c] # "running",
             st[c] = "running" \/ Two!Owed(c)
      PROVE  Two!Owed(c)' \/ Two!Settled(c)'
  BY <1>1, <1>2, <1>7, Two!DebtStep
<1>8. ASSUME NEW c \in Containers, ~Two!SharesSpec(c), Two!NewImageHeld(c)
      PROVE  Two!NewImageHeld(c)'
  BY <1>1, <1>2, <1>8, Two!NewImageStep
<1>9. ASSUME NEW c \in Containers, Two!OldImageHeld(c)
      PROVE  Two!OldImageHeld(c)'
  BY <1>1, <1>2, <1>9, Two!OldImageStep
<1>. QED
  BY <1>3, <1>4, <1>5, <1>6, <1>7, <1>8, <1>9, SecondAgrees DEF SecondIsTwo

-----------------------------------------------------------------------------
(* While the others are at work, what a run is about does not change, nor   *)
(* does what it knows of an image and a tag that nobody else moves.         *)
LEMMA FirstWaits ==
    ASSUME UNCHANGED run1
    PROVE  /\ First!Placed' = First!Placed /\ First!Prepared' = First!Prepared
           /\ First!Vacant' = First!Vacant
           /\ \A c \in Containers :
                 First!Settled(c)' = First!Settled(c) /\ First!Owed(c)' = First!Owed(c)
<1> USE DEF run1, First!Current
<1>1. First!Placed' = First!Placed
  BY DEF First!Placed, First!Restarts, First!CanUpdate, First!Passed
<1>2. First!Prepared' = First!Prepared
  BY DEF First!Prepared
<1>3. First!Vacant' = First!Vacant
  BY DEF First!Vacant
<1>4. ASSUME NEW c \in Containers
      PROVE  First!Settled(c)' = First!Settled(c) /\ First!Owed(c)' = First!Owed(c)
  BY DEF First!Settled, First!Owed, First!MustStop
<1>. QED
  BY <1>1, <1>2, <1>3, <1>4

LEMMA FirstImagesWait ==
    ASSUME UNCHANGED <<run1, spec>>, NEW c \in Containers,
           image'[c] = image[c], tag'[spec[c]] = tag[spec[c]]
    PROVE  /\ First!NewImageHeld(c) => First!NewImageHeld(c)'
           /\ First!OldImageHeld(c) => First!OldImageHeld(c)'
  BY DEF run1, First!Current, First!NewImageHeld, First!OldImageHeld

(* The same of the second run.                                             *)
LEMMA SecondWaits ==
    ASSUME UNCHANGED run2
    PROVE  /\ Second!Placed' = Second!Placed /\ Second!Prepared' = Second!Prepared
           /\ Second!Vacant' = Second!Vacant
           /\ \A c \in Containers :
                 Second!Settled(c)' = Second!Settled(c) /\ Second!Owed(c)' = Second!Owed(c)
<1> USE DEF run2, Second!Current
<1>1. Second!Placed' = Second!Placed
  BY DEF Second!Placed, Second!Restarts, Second!CanUpdate, Second!Passed
<1>2. Second!Prepared' = Second!Prepared
  BY DEF Second!Prepared
<1>3. Second!Vacant' = Second!Vacant
  BY DEF Second!Vacant
<1>4. ASSUME NEW c \in Containers
      PROVE  Second!Settled(c)' = Second!Settled(c) /\ Second!Owed(c)' = Second!Owed(c)
  BY DEF Second!Settled, Second!Owed, Second!MustStop
<1>. QED
  BY <1>1, <1>2, <1>3, <1>4

LEMMA SecondImagesWait ==
    ASSUME UNCHANGED <<run2, spec>>, NEW c \in Containers,
           image'[c] = image[c], tag'[spec[c]] = tag[spec[c]]
    PROVE  /\ Second!NewImageHeld(c) => Second!NewImageHeld(c)'
           /\ Second!OldImageHeld(c) => Second!OldImageHeld(c)'
  BY DEF run2, Second!Current, Second!NewImageHeld, Second!OldImageHeld

-----------------------------------------------------------------------------
(* The inductive invariant.                                                *)
(*                                                                         *)
(* At the start nobody has done anything.                                  *)
LEMMA InitIInv == Init => IInv
<1> SUFFICES ASSUME Init PROVE IInv
  OBVIOUS
<1> USE DEF Init
<1>1. Latest \in Versions /\ spec \in [Containers -> Specs]
  BY LatestAssumption, SpecsAssumption
<1>2. plan1.toUpdate \subseteq Containers /\ Len(plan1.order) \in Nat
  BY PlansAssumption DEF IsPlan
<1>3. First!TypeOK
  BY <1>1, <1>2 DEF First!TypeOK, First!Results, First!Labels, First!Replacing,
              First!Ended
<1>4. First!Placed /\ First!Prepared
  BY DEF First!Placed, First!Prepared, First!Replacing
<1>5. Waiting
  BY <1>1, <1>2 DEF Waiting
<1>6. OnTheirWay
  BY <1>3, <1>4, <1>5 DEF OnTheirWay
<1>7. Vacated /\ Debts
  BY DEF Vacated, Debts
<1>8. ImagesHeld
  BY DEF ImagesHeld, EmptyPlan, First!NewImageHeld, First!OldImageHeld,
         Second!NewImageHeld, Second!OldImageHeld
<1>. QED
  BY <1>6, <1>7, <1>8 DEF IInv

(* A step of the first run.                                                *)
LEMMA FirstIInv ==
    ASSUME IInv, FirstSteps
    PROVE  IInv'
<1> USE DEF FirstSteps, others
<1>1. /\ First!TypeOK /\ First!Placed /\ First!Prepared /\ First!Next
      /\ UNCHANGED <<run2, halted, pruned, built>>
  BY DEF IInv, OnTheirWay, run2
<1>2. First!TypeOK' /\ First!Placed' /\ First!Prepared'
  BY <1>1, FirstStep
<1>3. UNCHANGED <<spec, plan1, plan2, oldImage1, wasRunning1>>
  BY <1>1, FirstStep DEF run2
<1>4. OnTheirWay'
  <2>1. CASE built
    <3>1. Second!TypeOK'
      BY <1>1, <1>2, <2>1
      DEF IInv, OnTheirWay, run2, First!TypeOK, Second!TypeOK
    <3>2. Second!Placed' /\ Second!Prepared'
      BY <1>1, <2>1, SecondWaits DEF IInv, OnTheirWay
    <3>. QED
      BY <1>1, <1>2, <2>1, <3>1, <3>2 DEF IInv, OnTheirWay
  <2>2. CASE ~built
    <3>1. Waiting'
      BY <1>1, <2>2 DEF IInv, OnTheirWay, Waiting, run2
    <3>. QED
      BY <1>1, <1>2, <2>2, <3>1 DEF IInv, OnTheirWay
  <2>. QED
    BY <2>1, <2>2
<1>5. Vacated'
  BY <1>1, FirstStep, SecondWaits DEF IInv, Vacated, run2
<1>6. Debts'
  BY <1>1, FirstStep, SecondWaits DEF IInv, Debts
<1>7. ImagesHeld'
  <2> SUFFICES ASSUME NEW c \in Containers
               PROVE  /\ OnlyUpdates(c, plan1)' /\ OnlyOneMoves(c, plan2)' =>
                            /\ First!NewImageHeld(c)'
                            /\ ~pruned' => First!OldImageHeld(c)'
                      /\ OnlyUpdates(c, plan2)' /\ OnlyOneMoves(c, plan1)' =>
                            /\ Second!NewImageHeld(c)'
                            /\ ~pruned' => Second!OldImageHeld(c)'
    BY DEF ImagesHeld
  <2>1. /\ OnlyUpdates(c, plan1)' = OnlyUpdates(c, plan1)
        /\ OnlyUpdates(c, plan2)' = OnlyUpdates(c, plan2)
        /\ OnlyOneMoves(c, plan1)' = OnlyOneMoves(c, plan1)
        /\ OnlyOneMoves(c, plan2)' = OnlyOneMoves(c, plan2)
    BY <1>3 DEF OnlyUpdates, OnlyOneMoves
  <2>2. ASSUME OnlyUpdates(c, plan1), OnlyOneMoves(c, plan2)
        PROVE  First!NewImageHeld(c)' /\ (~pruned' => First!OldImageHeld(c)')
    <3>1. ~First!SharesSpec(c)
      BY <2>2 DEF OnlyUpdates, First!SharesSpec
    <3>2. First!NewImageHeld(c) /\ (~pruned => First!OldImageHeld(c))
      BY <2>2 DEF IInv, ImagesHeld
    <3>. QED
      BY <1>1, <3>1, <3>2, FirstStep
  <2>3. ASSUME OnlyUpdates(c, plan2), OnlyOneMoves(c, plan1)
        PROVE  Second!NewImageHeld(c)' /\ (~pruned' => Second!OldImageHeld(c)')
    <3>1. Second!NewImageHeld(c) /\ (~pruned => Second!OldImageHeld(c))
      BY <2>3 DEF IInv, ImagesHeld
    <3>2. c \notin plan1.toUpdate /\ spec[c] \in Specs
      BY <1>1, <2>3 DEF OnlyOneMoves, First!TypeOK
    <3>3. image'[c] = image[c] /\ tag'[spec[c]] = tag[spec[c]]
      BY <1>1, <2>3, <3>2, FirstStep DEF OnlyOneMoves
    <3>. QED
      BY <1>1, <1>3, <3>1, <3>3, SecondImagesWait
  <2>. QED
    BY <2>1, <2>2, <2>3
<1>. QED
  BY <1>4, <1>5, <1>6, <1>7 DEF IInv

(* A step of the second run.                                               *)
LEMMA SecondIInv ==
    ASSUME IInv, SecondSteps
    PROVE  IInv'
<1> USE DEF SecondSteps, others
<1>1. /\ First!TypeOK /\ built
      /\ Second!TypeOK /\ Second!Placed /\ Second!Prepared /\ Second!Next
      /\ UNCHANGED <<run1, halted, pruned, built>>
  BY DEF IInv, OnTheirWay
<1>2. Second!TypeOK' /\ Second!Placed' /\ Second!Prepared'
  BY <1>1, SecondStep
<1>3. UNCHANGED <<spec, plan1, plan2, oldImage2, wasRunning2>>
  BY <1>1, SecondStep DEF run1
<1>4. OnTheirWay'
  <2>1. First!TypeOK'
    BY <1>1, <1>2 DEF run1, First!TypeOK, Second!TypeOK
  <2>2. First!Placed' /\ First!Prepared'
    BY <1>1, FirstWaits DEF IInv, OnTheirWay
  <2>. QED
    BY <1>1, <1>2, <2>1, <2>2 DEF IInv, OnTheirWay
<1>5. Vacated'
  BY <1>1, SecondStep, FirstWaits DEF IInv, Vacated, run1
<1>6. Debts'
  BY <1>1, SecondStep, FirstWaits DEF IInv, Debts
<1>7. ImagesHeld'
  <2> SUFFICES ASSUME NEW c \in Containers
               PROVE  /\ OnlyUpdates(c, plan1)' /\ OnlyOneMoves(c, plan2)' =>
                            /\ First!NewImageHeld(c)'
                            /\ ~pruned' => First!OldImageHeld(c)'
                      /\ OnlyUpdates(c, plan2)' /\ OnlyOneMoves(c, plan1)' =>
                            /\ Second!NewImageHeld(c)'
                            /\ ~pruned' => Second!OldImageHeld(c)'
    BY DEF ImagesHeld
  <2>1. /\ OnlyUpdates(c, plan1)' = OnlyUpdates(c, plan1)
        /\ OnlyUpdates(c, plan2)' = OnlyUpdates(c, plan2)
        /\ OnlyOneMoves(c, plan1)' = OnlyOneMoves(c, plan1)
        /\ OnlyOneMoves(c, plan2)' = OnlyOneMoves(c, plan2)
    BY <1>3 DEF OnlyUpdates, OnlyOneMoves
  <2>2. ASSUME OnlyUpdates(c, plan2), OnlyOneMoves(c, plan1)
        PROVE  Second!NewImageHeld(c)' /\ (~pruned' => Second!OldImageHeld(c)')
    <3>1. ~Second!SharesSpec(c)
      BY <2>2 DEF OnlyUpdates, Second!SharesSpec
    <3>2. Second!NewImageHeld(c) /\ (~pruned => Second!OldImageHeld(c))
      BY <2>2 DEF IInv, ImagesHeld
    <3>. QED
      BY <1>1, <3>1, <3>2, SecondStep
  <2>3. ASSUME OnlyUpdates(c, plan1), OnlyOneMoves(c, plan2)
        PROVE  First!NewImageHeld(c)' /\ (~pruned' => First!OldImageHeld(c)')
    <3>1. First!NewImageHeld(c) /\ (~pruned => First!OldImageHeld(c))
      BY <2>3 DEF IInv, ImagesHeld
    <3>2. c \notin plan2.toUpdate /\ spec[c] \in Specs
      BY <1>1, <2>3 DEF OnlyOneMoves, First!TypeOK
    <3>3. image'[c] = image[c] /\ tag'[spec[c]] = tag[spec[c]]
      BY <1>1, <2>3, <3>2, SecondStep DEF OnlyOneMoves
    <3>. QED
      BY <1>1, <1>3, <3>1, <3>3, FirstImagesWait
  <2>. QED
    BY <2>1, <2>2, <2>3
<1>. QED
  BY <1>4, <1>5, <1>6, <1>7 DEF IInv

(* The second plan starts with nothing reported, nothing in hand and no    *)
(* debts of its own: what it finds down is still the first run's.          *)
LEMMA BuildIInv ==
    ASSUME IInv, BuildSecond
    PROVE  IInv'
<1>1. /\ ~built /\ built' /\ Waiting /\ First!TypeOK
      /\ First!Placed /\ First!Prepared
      /\ halted \subseteq Containers /\ pruned \in BOOLEAN
  BY DEF IInv, OnTheirWay, BuildSecond
<1>2. /\ UNCHANGED <<run1, st, image, attached, tag, spec, available, halted,
                     pruned, err2, result2, vetoed2, retagged2, pc2, pos2,
                     status2>>
      /\ plan2' \in SecondPlans /\ todo2' = plan2'.toUpdate
      /\ oldImage2' = image
      /\ wasRunning2' = [c \in Containers |-> st[c] = "running"]
  BY DEF BuildSecond, host, others
<1>3. /\ IsPlan(plan2')
      /\ plan2'.toUpdate \subseteq Containers /\ Len(plan2'.order) \in Nat
  <2>1. IsPlan(plan2')
    BY <1>2, PlansAssumption
  <2>2. QED
    BY <2>1 DEF IsPlan
<1>4. OnTheirWay'
  <2>1. Second!TypeOK'
    BY <1>1, <1>2, <1>3
    DEF First!TypeOK, Second!TypeOK, Waiting, Second!Results, Second!Labels,
        Second!Replacing, Second!Ended
  <2>2. Second!Placed' /\ Second!Prepared'
    BY <1>1, <1>2 DEF Waiting, Second!Placed, Second!Prepared, Second!Replacing
  <2>3. First!TypeOK'
    BY <1>1, <1>2 DEF First!TypeOK, run1
  <2>4. First!Placed' /\ First!Prepared'
    BY <1>1, <1>2, FirstWaits
  <2>. QED
    BY <1>1, <1>2, <2>1, <2>2, <2>3, <2>4 DEF OnTheirWay
<1>5. Vacated'
  <2>1. Second!Vacant = {} /\ \A c \in Containers : result2[c] = "none"
    BY <1>1 DEF Waiting, Second!Vacant
  <2>. QED
    BY <1>2, <2>1, FirstWaits DEF IInv, Vacated, run1
<1>6. Debts'
  <2>1. \A c \in Containers :
           ~Second!Owed(c) /\ (Second!Settled(c) => Second!Settled(c)')
    BY <1>1, <1>2 DEF Waiting, Second!Owed, Second!Settled, Second!Replacing
  <2>. QED
    BY <1>2, <2>1, FirstWaits DEF IInv, Debts
<1>7. ImagesHeld'
  <2> SUFFICES ASSUME NEW c \in Containers
               PROVE  /\ OnlyUpdates(c, plan1)' =>
                            /\ First!NewImageHeld(c)'
                            /\ ~pruned' => First!OldImageHeld(c)'
                      /\ Second!NewImageHeld(c)' /\ Second!OldImageHeld(c)'
    BY DEF ImagesHeld
  <2>1. Second!NewImageHeld(c)' /\ Second!OldImageHeld(c)'
    BY <1>1, <1>2 DEF Waiting, Second!NewImageHeld, Second!OldImageHeld
  <2>2. OnlyUpdates(c, plan1)' = OnlyUpdates(c, plan1)
    BY <1>2 DEF OnlyUpdates, run1
  <2>3. OnlyOneMoves(c, plan2)
    BY <1>1 DEF OnlyOneMoves, Waiting, EmptyPlan
  <2>4. OnlyUpdates(c, plan1) =>
           First!NewImageHeld(c) /\ (~pruned => First!OldImageHeld(c))
    BY <2>3 DEF IInv, ImagesHeld
  <2>5. spec[c] \in Specs
    BY <1>1 DEF First!TypeOK
  <2>6. /\ First!NewImageHeld(c) => First!NewImageHeld(c)'
        /\ First!OldImageHeld(c) => First!OldImageHeld(c)'
    BY <1>2, FirstImagesWait
  <2>. QED
    BY <1>2, <2>1, <2>2, <2>4, <2>6
<1>. QED
  BY <1>4, <1>5, <1>6, <1>7 DEF IInv

(* A user cannot make a container disappear, and answers for the one that  *)
(* he stops.                                                               *)
LEMMA ControlIInv ==
    ASSUME IInv, NEW d \in Containers, Control(d)
    PROVE  IInv'
<1>1. /\ UNCHANGED <<run1, run2, image, attached, tag, spec, available, pruned,
                     built>>
      /\ halted' \subseteq halted \cup {d} /\ halted \ {d} \subseteq halted'
  BY DEF Control, run2
<1>2. PICK s \in {"running", "stopped"} :
         /\ st' = [st EXCEPT ![d] = s]
         /\ s = "stopped" => d \in halted'
  BY DEF Control
<1>3. First!TypeOK /\ st[d] # "absent"
  BY DEF IInv, OnTheirWay, Control
<1>4. st' \in [Containers -> {"running", "stopped", "absent"}]
  BY <1>2, <1>3 DEF First!TypeOK
<1>5. \A c \in Containers \ {d} : st'[c] = st[c]
  BY <1>2, <1>3 DEF First!TypeOK
<1>6. st'[d] # "absent"
  BY <1>2, <1>3 DEF First!TypeOK
<1>7. OnTheirWay'
  <2>1. First!TypeOK'
    BY <1>1, <1>3, <1>4 DEF First!TypeOK, run1
  <2>2. built => Second!TypeOK'
    BY <1>1, <1>4 DEF IInv, OnTheirWay, Second!TypeOK, run2
  <2>3. ~built => Waiting'
    BY <1>1 DEF IInv, OnTheirWay, Waiting, run2
  <2>4. First!Placed' /\ First!Prepared'
    BY <1>1, FirstWaits DEF IInv, OnTheirWay
  <2>5. built => Second!Placed' /\ Second!Prepared'
    BY <1>1, SecondWaits DEF IInv, OnTheirWay
  <2>. QED
    BY <1>1, <2>1, <2>2, <2>3, <2>4, <2>5 DEF IInv, OnTheirWay
<1>8. Vacated'
  BY <1>1, <1>5, <1>6, FirstWaits, SecondWaits DEF IInv, Vacated, run1, run2
<1>9. Debts'
  <2>1. st'[d] # "running" => d \in halted'
    BY <1>2, <1>3 DEF First!TypeOK
  <2>. QED
    BY <1>1, <1>5, <2>1, FirstWaits, SecondWaits DEF IInv, Debts
<1>10. ImagesHeld'
  BY <1>1, FirstImagesWait, SecondImagesWait
  DEF IInv, ImagesHeld, OnlyUpdates, OnlyOneMoves, run1, run2
<1>. QED
  BY <1>7, <1>8, <1>9, <1>10 DEF IInv

(* A prune moves a tag, if at all, to the version the registry serves:     *)
(* what a run has pulled is not disturbed, what it has tagged may be.      *)
LEMMA PruneIInv ==
    ASSUME IInv, Prune
    PROVE  IInv'
<1>1. /\ UNCHANGED <<run1, run2, st, image, attached, spec, available,
                     halted, built>>
      /\ pruned' = TRUE
  BY DEF Prune, run2
<1>2. /\ tag' \in [Specs -> Versions]
      /\ \A s \in Specs : tag[s] = Latest => tag'[s] = Latest
  BY LatestAssumption DEF IInv, OnTheirWay, First!TypeOK, Prune
<1>3. OnTheirWay'
  <2>1. First!TypeOK'
    BY <1>1, <1>2 DEF IInv, OnTheirWay, First!TypeOK, run1
  <2>2. built => Second!TypeOK'
    BY <1>1, <1>2 DEF IInv, OnTheirWay, Second!TypeOK, run2
  <2>3. ~built => Waiting'
    BY <1>1 DEF IInv, OnTheirWay, Waiting, run2
  <2>4. First!Placed' /\ First!Prepared'
    BY <1>1, FirstWaits DEF IInv, OnTheirWay
  <2>5. built => Second!Placed' /\ Second!Prepared'
    BY <1>1, SecondWaits DEF IInv, OnTheirWay
  <2>. QED
    BY <1>1, <2>1, <2>2, <2>3, <2>4, <2>5 DEF IInv, OnTheirWay
<1>4. Vacated'
  BY <1>1, FirstWaits, SecondWaits DEF IInv, Vacated, run1, run2
<1>5. Debts'
  BY <1>1, FirstWaits, SecondWaits DEF IInv, Debts
<1>6. ImagesHeld'
  <2> SUFFICES ASSUME NEW c \in Containers
               PROVE  /\ OnlyUpdates(c, plan1) /\ OnlyOneMoves(c, plan2) =>
                            First!NewImageHeld(c)'
                      /\ OnlyUpdates(c, plan2) /\ OnlyOneMoves(c, plan1) =>
                            Second!NewImageHeld(c)'
    BY <1>1 DEF ImagesHeld, OnlyUpdates, OnlyOneMoves, run1, run2
  <2>1. spec[c] \in Specs
    BY DEF IInv, OnTheirWay, First!TypeOK
  <2>2. First!NewImageHeld(c) => First!NewImageHeld(c)'
    BY <1>1, <1>2, <2>1 DEF First!NewImageHeld, First!Current, run1
  <2>3. Second!NewImageHeld(c) => Second!NewImageHeld(c)'
    BY <1>1, <1>2, <2>1 DEF Second!NewImageHeld, Second!Current, run2
  <2>. QED
    BY <2>2, <2>3 DEF IInv, ImagesHeld
<1>. QED
  BY <1>3, <1>4, <1>5, <1>6 DEF IInv

(* The parts of the invariant hold together in every reachable state: each *)
(* run goes its way, and of every container, image and debt somebody on    *)
(* the host can give account.                                              *)
THEOREM InductiveInvariant == Spec => []IInv
<1>1. Init => IInv
  BY InitIInv
<1>2. IInv /\ [Next]_vars => IInv'
  <2> SUFFICES ASSUME IInv, [Next]_vars PROVE IInv'
    OBVIOUS
  <2>1. CASE UNCHANGED vars
    <3>1. UNCHANGED <<run1, run2, st, image, attached, tag, spec, available,
                      halted, pruned, built>>
      BY <2>1 DEF vars, host, others, run2
    <3>2. OnTheirWay'
      <4>1. First!TypeOK'
        BY <3>1 DEF IInv, OnTheirWay, First!TypeOK, run1
      <4>2. built => Second!TypeOK'
        BY <3>1 DEF IInv, OnTheirWay, Second!TypeOK, run2
      <4>3. ~built => Waiting'
        BY <3>1 DEF IInv, OnTheirWay, Waiting, run2
      <4>. QED
        BY <3>1, <4>1, <4>2, <4>3, FirstWaits, SecondWaits
        DEF IInv, OnTheirWay
    <3>3. Vacated' /\ Debts'
      BY <3>1, FirstWaits, SecondWaits DEF IInv, Vacated, Debts, run1, run2
    <3>4. ImagesHeld'
      BY <3>1, FirstImagesWait, SecondImagesWait
      DEF IInv, ImagesHeld, OnlyUpdates, OnlyOneMoves, run1, run2
    <3>. QED
      BY <3>2, <3>3, <3>4 DEF IInv
  <2>. QED
    BY <2>1, FirstIInv, SecondIInv, BuildIInv, ControlIInv, PruneIInv DEF Next
<1>. QED
  BY <1>1, <1>2, PTL DEF Spec

(* Both runs and the host keep their types, whatever the interleaving.     *)
THEOREM TypeCorrect == Spec => []TypeOK
<1>1. Init => TypeOK
  <2> SUFFICES ASSUME Init PROVE TypeOK
    OBVIOUS
  <2>1. First!TypeOK /\ ~built
    BY InitIInv DEF IInv, OnTheirWay, Init
  <2>2. kept \in [Specs -> SUBSET Versions]
    BY DEF Init
  <2>3. halted \subseteq Containers /\ pruned \in BOOLEAN
    BY DEF Init
  <2>4. commands \in 0..MaxCommands
    BY MaxCommandsAssumption DEF Init
  <2>. QED
    BY <2>1, <2>2, <2>3, <2>4 DEF TypeOK
<1>2. TypeOK /\ IInv' /\ [Next]_vars => TypeOK'
  <2> SUFFICES ASSUME TypeOK, IInv', [Next]_vars PROVE TypeOK'
    OBVIOUS
  <2>1. /\ First!TypeOK' /\ (built' => Second!TypeOK')
        /\ halted' \subseteq Containers /\ pruned' \in BOOLEAN
    BY DEF IInv, OnTheirWay
  <2>2. tag' \in [Specs -> Versions]
    BY <2>1 DEF First!TypeOK
  <2>3. kept' \in [Specs -> SUBSET Versions]
    <3>1. CASE FirstSteps \/ SecondSteps
      BY <2>2, <3>1 DEF FirstSteps, SecondSteps, StoresImages, TypeOK
    <3>2. CASE Prune
      BY <3>2 DEF Prune, TypeOK
    <3>3. CASE UNCHANGED kept
      BY <3>3 DEF TypeOK
    <3>. QED
      BY <3>1, <3>2, <3>3 DEF Next, BuildSecond, Control, vars, host
  <2>4. commands' \in 0..MaxCommands
    BY MaxCommandsAssumption
    DEF TypeOK, Next, FirstSteps, SecondSteps, BuildSecond, Prune, Control,
        vars, others
  <2>. QED
    BY <2>1, <2>3, <2>4 DEF TypeOK
<1>. QED
  BY <1>1, <1>2, InductiveInvariant, PTL DEF Spec

-----------------------------------------------------------------------------
(* Whoever interferes with whom, a missing container is being replaced at  *)
(* this moment, or one of the runs has reported it "failed".               *)
THEOREM MissingAccounted == Spec => []MissingIsAccounted
<1>1. IInv => MissingIsAccounted
  BY DEF IInv, Vacated, MissingIsAccounted, InHand, First!Vacant, Second!Vacant,
         First!Replacing, Second!Replacing, First!Current, Second!Current
<1>. QED
  BY <1>1, InductiveInvariant, PTL

(* When both runs are over no container is down unless a user stopped it   *)
(* or one of the runs has an error or a roll-back to show for it.          *)
THEOREM DebtsArePaid == Spec => []NothingLeftDown
<1>1. IInv => NothingLeftDown
  <2> SUFFICES ASSUME Debts, Over, NEW c \in Containers, st[c] # "running"
               PROVE  \/ err1[c] \/ err2[c] \/ c \in halted
                      \/ {result1[c], result2[c]}
                            \cap {"rolled_back", "failed"} # {}
    BY DEF IInv, NothingLeftDown
  <2>1. ~First!Owed(c) /\ ~Second!Owed(c)
    BY DEF Over, First!Owed, Second!Owed, First!Ended, Second!Ended,
           First!Replacing, Second!Replacing
  <2>2. c \in halted \/ First!Settled(c) \/ Second!Settled(c)
    BY <2>1 DEF Debts
  <2>. QED
    BY <2>2 DEF First!Settled, Second!Settled
<1>. QED
  BY <1>1, InductiveInvariant, PTL

(* The reported image is the one that runs, whatever the other run, a user *)
(* and the pruning do, when nobody else moves the spec.                    *)
THEOREM ReportedImages == Spec => []ImagesAsReported
<1>1. IInv => ImagesAsReported
  BY DEF IInv, ImagesHeld, ImagesAsReported, First!NewImageHeld,
         First!OldImageHeld, Second!NewImageHeld, Second!OldImageHeld
<1>. QED
  BY <1>1, InductiveInvariant, PTL
=============================================================================
