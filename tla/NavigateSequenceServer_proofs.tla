--------------------- MODULE NavigateSequenceServer_proofs ---------------------
(***************************************************************************)
(* Proofs about the action server: ServerInv is inductive.  A step belongs *)
(* to one goal: every proof of a step shows the invariants of that goal's  *)
(* thread and leaves the rest to GoalStep and QuietStep.                   *)
(***************************************************************************)
EXTENDS NavigateSequenceServer, TLAPS

\* Two abbreviations that every proof looks through.
USE DEF NoStraggler, sharedVars

ThreadState(g) ==
    <<pc[g], mode[g], index[g], failed[g], nav[g], nav_at[g], straggler[g], visited[g],
      success[g], goal_state[g]>>

LEMMA Lengths ==
    MaxGoals \in Nat \ {0} /\ \A g \in Goal : NumGoals[g] \in 1..MaxGoals
  BY NavigateSequenceAssumption

\* What the success of a goal means.
SuccessInv(g) ==
    success[g] =>
        /\ g \notin misled => \A w \in WaypointOf(g) : visited[g][w] # "no"
        /\ mode[g] # "follower" => \A w \in WaypointOf(g) : visited[g][w] = "reached"

LEMMA SuccessSplit ==
    SuccessSkipsNothing /\ StepwiseSuccessMeansAllReached <=> \A g \in Goal : SuccessInv(g)
  BY DEF SuccessSkipsNothing, StepwiseSuccessMeansAllReached, SuccessMeansReached, SuccessInv

GoalInv(g) == ThreadInv(g) /\ WaypointInv(g) /\ SuccessInv(g)

LEMMA ServerInvSplit ==
    LET parts == /\ ServerTypeOK /\ ActiveWhileExecuting /\ OneExecution /\ RestartIndexInv
                 /\ \A g \in Goal : GoalInv(g)
    IN  (ServerInv <=> parts) /\ (ServerInv' <=> parts')
<1>1. SuccessSkipsNothing' /\ StepwiseSuccessMeansAllReached'
          <=> \A g \in Goal : SuccessInv(g)'
  BY DEF SuccessSkipsNothing, StepwiseSuccessMeansAllReached, SuccessMeansReached, SuccessInv
<1> QED
  BY <1>1, SuccessSplit DEF ServerInv, GoalInv

\* A goal whose own state does not change keeps its invariants.
LEMMA OtherGoal ==
    ASSUME NEW h \in Goal, UNCHANGED ThreadState(h), misled \subseteq misled', GoalInv(h)
    PROVE  GoalInv(h)' /\ (Executing(h)' <=> Executing(h))
  BY DEF ThreadState, GoalInv, ThreadInv, WaypointInv, SuccessInv, UnderWay, AtNav2, Executing,
         NoStraggler

\* A step of the one goal that is executed.
LEMMA GoalStep ==
    ASSUME ServerInv, NEW g \in Goal, Executing(g),
           ServerTypeOK', GoalInv(g)',
           \A h \in Goal \ {g} : UNCHANGED ThreadState(h),
           RestartInv(g)', misled \subseteq misled',
           (alive => (active <=> Executing(g) /\ pc[g] # "begin"))'
    PROVE  ServerInv'
<1>1. \A h \in Goal \ {g} : GoalInv(h)' /\ ~Executing(h)'
  BY OtherGoal, ServerInvSplit DEF OneExecution
<1>2. OneExecution'
  BY <1>1 DEF OneExecution
<1>3. RestartIndexInv'
  <2>1. \A h \in Goal \ {g} : pc'[h] = pc[h] /\ pc[h] # "select"
    BY ServerInvSplit DEF OneExecution, Executing, ThreadState
  <2> QED
    BY <1>1, <2>1 DEF RestartIndexInv, RestartInv
<1>4. ActiveWhileExecuting'
  BY <1>1 DEF ActiveWhileExecuting
<1> QED
  BY <1>1, <1>2, <1>3, <1>4, ServerInvSplit

\* A step that moves no thread.
LEMMA QuietStep ==
    ASSUME ServerInv, ServerTypeOK', NEW g \in Goal, GoalInv(g)',
           \A h \in Goal \ {g} : UNCHANGED ThreadState(h),
           UNCHANGED <<alive, active, pc, mode, sharedVars>>,
           \A w \in Waypoint : visited[g][w] # "no" => visited'[g][w] # "no"
    PROVE  ServerInv'
<1>1. \A h \in Goal \ {g} : GoalInv(h)'
  BY OtherGoal, ServerInvSplit DEF sharedVars
<1>2. OneExecution' /\ ActiveWhileExecuting'
  BY ServerInvSplit DEF OneExecution, ActiveWhileExecuting, Executing
<1>3. RestartIndexInv'
  <2> SUFFICES ASSUME NEW h \in Goal PROVE RestartInv(h)'
    BY DEF RestartIndexInv
  <2>1. RestartInv(h) /\ ServerTypeOK
    BY ServerInvSplit DEF RestartIndexInv
  <2>2. \A w \in Waypoint : visited[h][w] # "no" => visited'[h][w] # "no"
    BY DEF ThreadState
  <2>3. current_goal_index \in 0..MaxGoals - 1 /\ MaxGoals \in Nat
    BY <2>1, Lengths DEF ServerTypeOK
  <2> QED
    BY <2>1, <2>2, <2>3 DEF RestartInv, Executing, sharedVars, Waypoint
<1> QED
  BY <1>1, <1>2, <1>3, ServerInvSplit

-----------------------------------------------------------------------------
(* The callbacks, and Nav2: no thread moves.                                *)

LEMMA HandleGoalStep ==
    ASSUME ServerInv, NEW g \in Goal, HandleGoal(g), \A h \in Goal : ~Executing(h)
    PROVE  ServerInv'
<1>1. ServerTypeOK'
  BY ServerInvSplit DEF HandleGoal, ServerTypeOK, GoalState, PC, atomics, sharedVars, navVars
<1>2. CASE active
  <2>1. GoalInv(g)'
    BY <1>2, ServerInvSplit
       DEF HandleGoal, GoalInv, ThreadInv, WaypointInv, SuccessInv, UnderWay, AtNav2, navVars,
           ServerTypeOK
  <2> QED
    BY <1>1, <1>2, <2>1, QuietStep
       DEF HandleGoal, ThreadState, ServerInv, ServerTypeOK, atomics, navVars
<1>3. CASE ~active
  <2>1. pc[g] = "idle" /\ GoalInv(g)
    BY ServerInvSplit DEF HandleGoal, GoalInv, ThreadInv
  <2>2. GoalInv(g)' /\ pc'[g] = "begin"
    BY <1>3, <2>1, ServerInvSplit
       DEF HandleGoal, GoalInv, ThreadInv, WaypointInv, SuccessInv, UnderWay, AtNav2, navVars,
           ServerTypeOK
  <2>3. \A h \in Goal \ {g} : UNCHANGED ThreadState(h)
    BY <1>3 DEF HandleGoal, ThreadState, ServerInv, ServerTypeOK, navVars
  <2>4. \A h \in Goal \ {g} : GoalInv(h)' /\ ~Executing(h)'
    BY <2>3, OtherGoal, ServerInvSplit DEF HandleGoal
  <2>5. OneExecution'
    BY <2>4 DEF OneExecution
  <2>6. RestartIndexInv'
    <3>1. \A h \in Goal : pc'[h] # "select"
      BY <1>3, <2>2, <2>4, ServerInvSplit DEF HandleGoal, Executing, ServerTypeOK
    <3> QED
      BY <1>3, <2>1, <2>2, <2>4, <3>1 DEF RestartIndexInv, RestartInv, HandleGoal, GoalInv, ThreadInv
  <2>7. ActiveWhileExecuting'
    BY <1>3, <2>2, <2>4 DEF ActiveWhileExecuting, HandleGoal, atomics
  <2> QED
    BY <1>1, <2>2, <2>4, <2>5, <2>6, <2>7, ServerInvSplit
<1> QED
  BY <1>2, <1>3

LEMMA ControlStep == ServerInv /\ ControlService => ServerInv'
<1> SUFFICES ASSUME ServerInv, ControlService PROVE ServerInv'
  OBVIOUS
<1> USE DEF ControlService, CancelMissionService, SetPaused, goalVars, sharedVars, threadVars, navVars
<1>1. ServerTypeOK'
  BY ServerInvSplit DEF ServerTypeOK
<1>2. \A g \in Goal : GoalInv(g)' /\ (Executing(g)' <=> Executing(g))
  BY OtherGoal, ServerInvSplit DEF ThreadState
<1>3. OneExecution' /\ ActiveWhileExecuting' /\ RestartIndexInv'
  BY <1>2, ServerInvSplit DEF OneExecution, ActiveWhileExecuting, RestartIndexInv, RestartInv
<1> QED
  BY <1>1, <1>2, <1>3, ServerInvSplit

LEMMA CancelStep ==
    ASSUME ServerInv, NEW g \in Goal, CancelGoal(g) \/ MarkCanceling(g)
    PROVE  ServerInv'
<1>1. ServerTypeOK'
  BY ServerInvSplit DEF CancelGoal, MarkCanceling, ServerTypeOK, GoalState, atomics, sharedVars, threadVars, navVars
<1>2. GoalInv(g)'
  <2>1. CASE CancelGoal(g)
    <3>1. UNCHANGED ThreadState(g) /\ misled \subseteq misled'
      BY <2>1 DEF CancelGoal, ThreadState, sharedVars, threadVars, navVars
    <3> QED
      BY <3>1, OtherGoal, ServerInvSplit
  <2>2. CASE MarkCanceling(g)
    <3>1. goal_state'[g] = "UNKNOWN" => goal_state[g] = "UNKNOWN"
      BY <2>2, ServerInvSplit DEF MarkCanceling, ServerTypeOK
    <3> QED
      BY <2>2, <3>1, ServerInvSplit
         DEF MarkCanceling, threadVars, navVars,
             GoalInv, ThreadInv, WaypointInv, SuccessInv, UnderWay, AtNav2, NoStraggler
  <2> QED
    BY <2>1, <2>2
<1> QED
  BY <1>1, <1>2, QuietStep
     DEF CancelGoal, MarkCanceling, ThreadState, ServerInv, ServerTypeOK, atomics, threadVars, navVars

LEMMA NavProgressStep ==
    ASSUME ServerInv, NEW g \in Goal, NavProgress(g)
    PROVE  ServerInv'
<1> USE DEF atomics, goalVars, sharedVars, threadVars
<1>0. ServerTypeOK /\ GoalInv(g) /\ NumGoals[g] \in 1..MaxGoals /\ MaxGoals \in Nat
  BY ServerInvSplit, Lengths
<1>1. CASE NavAnswer(g) \/ NavEnd(g)
  <2>1. ServerTypeOK'
    BY <1>0, <1>1 DEF NavAnswer, NavEnd, ServerTypeOK, NavState, ActiveNav
  <2>2. GoalInv(g)'
    BY <1>0, <1>1
       DEF NavAnswer, NavEnd, ServerTypeOK, ActiveNav, LastWaypoint,
           GoalInv, ThreadInv, WaypointInv, SuccessInv, UnderWay, AtNav2
  <2> QED
    BY <1>1, <2>1, <2>2, QuietStep DEF NavAnswer, NavEnd, ThreadState, ServerInv, ServerTypeOK
<1>2. ASSUME NEW outcome \in {"reached", "missed"}, NavVisit(g, outcome)
      PROVE  ServerInv'
  <2>1. nav_at[g] \in 0..(NumGoals[g] - 1) /\ nav_at[g] + 1 \in Waypoint /\ AtNav2(g)
    BY <1>0, <1>2 DEF NavVisit, LastWaypoint, ServerTypeOK, GoalInv, ThreadInv, UnderWay, AtNav2,
                      Waypoint
  <2>2. ServerTypeOK'
    BY <1>0, <1>2, <2>1 DEF NavVisit, Visit, ServerTypeOK, NavState, ActiveNav
  <2>3. /\ nav_at'[g] = nav_at[g] + 1
        /\ nav'[g] = IF outcome = "missed" THEN "active_missed" ELSE nav[g]
        /\ \A w \in Waypoint : visited'[g][w] = IF w = nav_at[g] + 1 THEN outcome ELSE visited[g][w]
    BY <1>0, <1>2, <2>1 DEF NavVisit, Visit, ServerTypeOK
  <2>4. ThreadInv(g)' /\ SuccessInv(g)'
    BY <1>0, <1>2, <2>1, <2>3
       DEF NavVisit, ActiveNav, GoalInv, ThreadInv, SuccessInv, UnderWay, AtNav2
  <2>5. \A w \in Waypoint : visited[g][w] # "no" => visited'[g][w] # "no"
    BY <2>3
  <2>6. mode[g] # "follower" => nav_at[g] = index[g]
    BY <1>0, <1>2, <2>1 DEF NavVisit, LastWaypoint, ActiveNav, ServerTypeOK, GoalInv, WaypointInv
  <2>7. WaypointInv(g)'
    <3>0. /\ UNCHANGED <<pc, mode, index, failed>> /\ WaypointInv(g) /\ nav[g] \in ActiveNav
          /\ index[g] \in 0..MaxGoals
      BY <1>0, <1>2 DEF NavVisit, ServerTypeOK, GoalInv
    <3>1. CASE mode[g] = "follower"
      <4>1. g \notin misled =>
              /\ ~failed[g] => \A w \in 1..index[g] : visited'[g][w] # "no"
              /\ \A w \in 1..nav_at[g] + 1 : visited'[g][w] # "no"
        <5> SUFFICES ASSUME g \notin misled, NEW w \in Waypoint
                     PROVE  /\ ~failed[g] /\ w <= index[g] => visited'[g][w] # "no"
                            /\ w <= nav_at[g] + 1 => visited'[g][w] # "no"
          BY <1>0, <2>1, <3>0 DEF Waypoint
        <5>1. /\ ~failed[g] /\ w <= index[g] => visited[g][w] # "no"
              /\ w <= nav_at[g] => visited[g][w] # "no"
          BY <1>0, <2>1, <3>0, <3>1 DEF WaypointInv, Waypoint
        <5> QED
          BY <1>0, <2>1, <2>3, <2>5, <5>1 DEF Waypoint
      <4>2. NoStraggler(g)
        BY <1>2, <3>1 DEF NavVisit, FollowerFree
      <4> QED
        BY <1>0, <1>2, <2>1, <2>3, <3>0, <3>1, <4>1, <4>2
           DEF NavVisit, ActiveNav, WaypointInv, AtNav2
    <3>2. CASE mode[g] # "follower"
      <4>1. \A w \in 1..index[g] : visited'[g][w] = visited[g][w]
        BY <1>0, <2>1, <2>3, <2>6, <3>0, <3>2 DEF Waypoint
      <4> QED
        BY <2>1, <2>3, <2>6, <3>0, <3>2, <4>1 DEF ActiveNav, Waypoint, WaypointInv, UnderWay, AtNav2
    <3> QED
      BY <3>1, <3>2
  <2> QED
    BY <1>0, <1>2, <2>2, <2>4, <2>5, <2>7, QuietStep
       DEF NavVisit, Visit, ThreadState, GoalInv, ServerTypeOK
<1> QED
  BY <1>1, <1>2 DEF NavProgress

-----------------------------------------------------------------------------
(* The thread of a goal.                                                    *)

\* A cancel request leaves a straggler behind at most where Nav2's goal is.
LEMMA CancelEffect ==
    ASSUME ServerTypeOK, NEW g \in Goal, CancelNavGoal(g) \/ UNCHANGED navVars
    PROVE  /\ nav' \in [Goal -> NavState] /\ straggler' \in [Goal -> 0..MaxGoals]
           /\ UNCHANGED <<nav_at, visited>>
           /\ nav'[g] \in {nav[g], "none"}
           /\ \/ straggler'[g] = straggler[g]
              \/ mode[g] = "follower" /\ straggler'[g] = nav_at[g]
           /\ \A h \in Goal \ {g} : nav'[h] = nav[h] /\ straggler'[h] = straggler[h]
  BY DEF CancelNavGoal, navVars, ServerTypeOK, NavState

\* What the end of an execution does to its thread, in whatever way it ends.
LEMMA EndEffect ==
    ASSUME ServerTypeOK, NEW g \in Goal, ThreadInv(g), Executing(g),
           FinishCancelled(g) \/ (UNCHANGED alive /\ \E state \in Terminal : EndExecution(g, state, FALSE)),
           CancelNavGoal(g) \/ UNCHANGED navVars,
           UNCHANGED <<mode, index, failed, total_goals, misled>>,
           current_goal_index' \in 0..MaxGoals - 1
    PROVE  /\ ServerTypeOK' /\ ThreadInv(g)'
           /\ pc'[g] = "done" /\ ~success'[g] /\ (alive' => ~active')
           /\ nav_at'[g] = nav_at[g] /\ visited'[g] = visited[g]
           /\ \/ straggler'[g] = straggler[g]
              \/ mode[g] = "follower" /\ straggler'[g] = nav_at[g]
           /\ \A h \in Goal \ {g} : UNCHANGED ThreadState(h)
<1>1. /\ pc'[g] = "done" /\ success'[g] = FALSE /\ goal_state[g] # "UNKNOWN"
      /\ goal_state'[g] # "UNKNOWN"
      /\ alive' => ~active'
  BY DEF FinishCancelled, EndExecution, GoTo, goalVars, ServerTypeOK, ThreadInv, Executing, Terminal
<1>2. ServerTypeOK'
  <2>1. /\ nav' \in [Goal -> NavState] /\ straggler' \in [Goal -> 0..MaxGoals]
        /\ UNCHANGED <<nav_at, visited, mode, index, failed, total_goals, misled>>
    BY CancelEffect
  <2>2. /\ {alive', active', paused', cancelled'} \subseteq BOOLEAN
        /\ pc' \in [Goal -> PC] /\ success' \in [Goal -> BOOLEAN]
        /\ UNCHANGED canceling_goal
    BY DEF FinishCancelled, EndExecution, GoTo, goalVars, ServerTypeOK, PC
  <2>3. goal_state' \in [Goal -> GoalState]
    BY DEF FinishCancelled, EndExecution, goalVars, ServerTypeOK, GoalState, Terminal
  <2> QED
    BY <2>1, <2>2, <2>3 DEF ServerTypeOK
<1>3. /\ nav'[g] \in {nav[g], "none"} /\ nav_at'[g] = nav_at[g] /\ visited'[g] = visited[g]
      /\ mode'[g] = mode[g] /\ index'[g] = index[g] /\ failed'[g] = failed[g]
      /\ \/ straggler'[g] = straggler[g]
         \/ mode[g] = "follower" /\ straggler'[g] = nav_at[g]
  BY CancelEffect
<1>4. ThreadInv(g)'
  BY <1>1, <1>3 DEF ThreadInv, UnderWay
<1>5. \A h \in Goal \ {g} : UNCHANGED ThreadState(h)
  <2>1. \A h \in Goal \ {g} : nav'[h] = nav[h] /\ straggler'[h] = straggler[h]
    BY CancelEffect
  <2> QED
    BY <2>1, CancelEffect DEF FinishCancelled, EndExecution, GoTo, goalVars, ServerTypeOK, ThreadState
<1> QED
  BY <1>1, <1>2, <1>3, <1>4, <1>5

\* A step of the thread that ends the execution.
LEMMA EndStep ==
    ASSUME ServerInv, NEW g \in Goal, Executing(g),
           FinishCancelled(g) \/ (UNCHANGED alive /\ \E state \in Terminal : EndExecution(g, state, FALSE)),
           CancelNavGoal(g) \/ UNCHANGED navVars,
           UNCHANGED <<mode, index, failed, total_goals, misled>>,
           current_goal_index' \in 0..MaxGoals - 1
    PROVE  ServerInv'
<1>0. ServerTypeOK /\ GoalInv(g)
  BY ServerInvSplit
<1>1. /\ ServerTypeOK' /\ ThreadInv(g)'
      /\ pc'[g] = "done" /\ ~success'[g] /\ (alive' => ~active')
      /\ nav_at'[g] = nav_at[g] /\ visited'[g] = visited[g]
      /\ \/ straggler'[g] = straggler[g]
         \/ mode[g] = "follower" /\ straggler'[g] = nav_at[g]
      /\ \A h \in Goal \ {g} : UNCHANGED ThreadState(h)
  BY <1>0, EndEffect DEF GoalInv
<1>2. GoalInv(g)'
  BY <1>0, <1>1 DEF GoalInv, SuccessInv, WaypointInv, UnderWay, AtNav2
<1>3. /\ ~Executing(g)' /\ RestartInv(g)'
      /\ (alive => (active <=> Executing(g) /\ pc[g] # "begin"))'
  BY <1>1 DEF Executing, RestartInv
<1> QED
  BY <1>1, <1>2, <1>3, GoalStep

\* How far a thread is when it leaves its waypoint behind: the follower has the
\* whole sequence behind it.
Onward(g) == IF mode[g] = "follower" THEN NumGoals[g] ELSE index[g] + 1

\* What a thread that leaves a waypoint behind changes.
WaypointLeft(g, ok) ==
    /\ WaypointDone(g, ok)
    /\ UNCHANGED <<mode, nav_at, sharedVars>>
    /\ \/ CancelNavGoal(g) \/ UNCHANGED navVars
       \/ /\ UNCHANGED <<nav, straggler>> /\ mode[g] = "simulated"
          /\ \E o \in {"reached", "missed"} : Visit(g, index[g] + 1, o)

LEMMA WaypointEffect ==
    ASSUME ServerTypeOK, NEW g \in Goal, ThreadInv(g), AtNav2(g), NEW ok \in BOOLEAN,
           WaypointLeft(g, ok)
    PROVE  /\ ServerTypeOK' /\ ThreadInv(g)'
           /\ Onward(g) \in 1..NumGoals[g] /\ index[g] + 1 \in Waypoint
           /\ pc'[g] = "next" /\ index'[g] = Onward(g) /\ (failed'[g] <=> failed[g] \/ ~ok)
           /\ mode'[g] = mode[g] /\ nav_at'[g] = nav_at[g] /\ ~success'[g]
           /\ \/ straggler'[g] = straggler[g]
              \/ mode[g] = "follower" /\ straggler'[g] = nav_at[g]
           /\ \A w \in Waypoint : w # index[g] + 1 => visited'[g][w] = visited[g][w]
           /\ \A w \in Waypoint : visited[g][w] # "no" => visited'[g][w] # "no"
           /\ \A h \in Goal \ {g} : UNCHANGED ThreadState(h)
<1>0. NumGoals[g] \in 1..MaxGoals /\ MaxGoals \in Nat /\ UnderWay(g)
  BY Lengths DEF AtNav2, UnderWay
<1>1. /\ index[g] \in 0..(NumGoals[g] - 1) /\ Onward(g) \in 1..NumGoals[g] /\ index[g] + 1 \in Waypoint
  BY <1>0 DEF ServerTypeOK, ThreadInv, Waypoint, Onward
<1>2. /\ pc'[g] = "next" /\ index'[g] = Onward(g) /\ (failed'[g] <=> failed[g] \/ ~ok)
      /\ mode'[g] = mode[g] /\ nav_at'[g] = nav_at[g] /\ success'[g] = success[g]
      /\ goal_state'[g] = goal_state[g] /\ nav'[g] \in {nav[g], "none"}
  <2>1. nav'[g] \in {nav[g], "none"}
    BY DEF WaypointLeft, CancelNavGoal, navVars, ServerTypeOK
  <2> QED
    BY <2>1 DEF WaypointLeft, WaypointDone, GoTo, goalVars, ServerTypeOK, Onward
<1>3. /\ \A w \in Waypoint : w # index[g] + 1 => visited'[g][w] = visited[g][w]
      /\ \A w \in Waypoint : visited[g][w] # "no" => visited'[g][w] # "no"
      /\ visited' \in [Goal -> [Waypoint -> {"no", "reached", "missed"}]]
      /\ \A h \in Goal \ {g} : visited'[h] = visited[h]
  <2>1. CASE UNCHANGED visited
    BY <2>1 DEF ServerTypeOK
  <2>2. ASSUME NEW o \in {"reached", "missed"}, Visit(g, index[g] + 1, o)
        PROVE  /\ \A w \in Waypoint : w # index[g] + 1 => visited'[g][w] = visited[g][w]
               /\ \A w \in Waypoint : visited[g][w] # "no" => visited'[g][w] # "no"
               /\ visited' \in [Goal -> [Waypoint -> {"no", "reached", "missed"}]]
               /\ \A h \in Goal \ {g} : visited'[h] = visited[h]
    BY <1>1, <2>2 DEF Visit, ServerTypeOK
  <2> QED
    BY <2>1, <2>2 DEF WaypointLeft, CancelNavGoal, navVars
<1>4. /\ nav' \in [Goal -> NavState] /\ straggler' \in [Goal -> 0..MaxGoals]
      /\ \A h \in Goal \ {g} : nav'[h] = nav[h] /\ straggler'[h] = straggler[h]
      /\ \/ straggler'[g] = straggler[g]
         \/ mode[g] = "follower" /\ straggler'[g] = nav_at[g]
  BY CancelEffect DEF WaypointLeft, ServerTypeOK
<1>5. ServerTypeOK'
  <2>1. index' \in [Goal -> 0..MaxGoals] /\ failed' \in [Goal -> BOOLEAN] /\ pc' \in [Goal -> PC]
    BY <1>0, <1>1 DEF WaypointLeft, WaypointDone, GoTo, ServerTypeOK, PC
  <2> QED
    BY <1>3, <1>4, <2>1 DEF WaypointLeft, WaypointDone, atomics, goalVars, ServerTypeOK
<1>6. ThreadInv(g)' /\ ~success'[g]
  <2>1. index'[g] <= NumGoals[g] /\ nav_at[g] <= NumGoals[g]
    BY <1>0, <1>1, <1>2 DEF ThreadInv
  <2>2. ~success'[g] /\ ~UnderWay(g)' /\ goal_state'[g] # "UNKNOWN" /\ mode'[g] # "none"
    BY <1>0, <1>2 DEF ThreadInv, UnderWay, AtNav2
  <2> QED
    BY <1>2, <1>4, <2>1, <2>2 DEF ThreadInv, UnderWay
<1>7. \A h \in Goal \ {g} : UNCHANGED ThreadState(h)
  BY <1>3, <1>4 DEF WaypointLeft, WaypointDone, GoTo, goalVars, ServerTypeOK, ThreadState
<1> QED
  BY <1>1, <1>2, <1>3, <1>4, <1>5, <1>6, <1>7

\* Where the node drives them one by one, the waypoints behind it were reached.
LEMMA WaypointsReached ==
    ASSUME ServerTypeOK, NEW g \in Goal, ThreadInv(g), AtNav2(g), NEW ok \in BOOLEAN,
           WaypointLeft(g, ok), mode[g] # "follower", ~failed'[g],
           ~failed[g] => \A w \in 1..index[g] : visited[g][w] = "reached",
           ok => visited'[g][index[g] + 1] = "reached"
    PROVE  \A w \in 1..index'[g] : visited'[g][w] = "reached"
<1> SUFFICES ASSUME NEW w \in 1..Onward(g) PROVE visited'[g][w] = "reached"
  BY WaypointEffect
<1>1. ok /\ ~failed[g] /\ w \in Waypoint /\ index[g] \in Nat /\ Onward(g) = index[g] + 1
  BY WaypointEffect, NavigateSequenceAssumption DEF ServerTypeOK, Waypoint, Onward
<1>2. CASE w = index[g] + 1
  BY <1>1, <1>2
<1>3. CASE w # index[g] + 1
  <2>1. w \in 1..index[g]
    BY <1>1, <1>3
  <2>2. visited[g][w] = "reached"
    BY <1>1, <2>1
  <2> QED
    BY <1>1, <1>3, <2>2, WaypointEffect
<1> QED
  BY <1>2, <1>3

\* A waypoint is left behind, or all of them by the follower; ok only when they
\* were reached, or tried by the follower.
LEMMA WaypointDoneStep ==
    ASSUME ServerInv, NEW g \in Goal, AtNav2(g), NEW ok \in BOOLEAN, WaypointLeft(g, ok),
           ok /\ mode[g] = "follower" /\ g \notin misled =>
               \A w \in WaypointOf(g) : visited'[g][w] # "no",
           ok /\ mode[g] # "follower" => visited'[g][index[g] + 1] = "reached"
    PROVE  ServerInv'
<1>0. ServerTypeOK /\ GoalInv(g) /\ ThreadInv(g) /\ NumGoals[g] \in 1..MaxGoals /\ MaxGoals \in Nat /\ Executing(g)
  BY ServerInvSplit, Lengths DEF AtNav2, Executing, GoalInv
<1>1. /\ ServerTypeOK' /\ ThreadInv(g)'
      /\ Onward(g) \in 1..NumGoals[g] /\ index[g] + 1 \in Waypoint
      /\ pc'[g] = "next" /\ index'[g] = Onward(g) /\ (failed'[g] <=> failed[g] \/ ~ok)
      /\ mode'[g] = mode[g] /\ nav_at'[g] = nav_at[g] /\ ~success'[g]
      /\ \/ straggler'[g] = straggler[g]
         \/ mode[g] = "follower" /\ straggler'[g] = nav_at[g]
      /\ \A h \in Goal \ {g} : UNCHANGED ThreadState(h)
  BY <1>0, WaypointEffect
<1>2. \A w \in Waypoint : visited[g][w] # "no" => visited'[g][w] # "no"
  BY <1>0, WaypointEffect
<1>3. WaypointInv(g)'
  <2>1. ~failed'[g] /\ mode[g] # "follower" => \A w \in 1..index'[g] : visited'[g][w] = "reached"
    BY <1>0, WaypointsReached DEF GoalInv, WaypointInv
  <2>2. mode[g] = "follower" /\ g \notin misled =>
             /\ ~failed'[g] => \A w \in 1..index'[g] : visited'[g][w] # "no"
             /\ \A w \in 1..nav_at[g] : visited'[g][w] # "no"
             /\ ~NoStraggler(g) => \A w \in 1..straggler[g] : visited'[g][w] # "no"
    <3> SUFFICES ASSUME mode[g] = "follower", g \notin misled, NEW w \in Waypoint
                 PROVE  /\ ~failed'[g] /\ w <= index'[g] => visited'[g][w] # "no"
                        /\ w <= nav_at[g] => visited'[g][w] # "no"
                        /\ ~NoStraggler(g) /\ w <= straggler[g] => visited'[g][w] # "no"
      BY <1>0, <1>1 DEF ServerTypeOK, Waypoint
    <3>1. /\ w \in Nat \ {0} /\ nav_at[g] \in Nat /\ straggler[g] \in Nat
      BY <1>0 DEF ServerTypeOK, Waypoint
    <3>2. /\ w <= nav_at[g] => visited[g][w] # "no"
          /\ ~NoStraggler(g) /\ w <= straggler[g] => visited[g][w] # "no"
      BY <1>0, <3>1 DEF GoalInv, WaypointInv
    <3>3. ~failed'[g] /\ w <= index'[g] => visited'[g][w] # "no"
      BY <1>0, <1>1, <3>1 DEF WaypointOf, Onward
    <3> QED
      BY <1>2, <3>2, <3>3
  <2>3. ~AtNav2(g)' /\ (mode[g] = "follower" => index'[g] = NumGoals[g])
    BY <1>1 DEF AtNav2, Onward
  <2>4. misled' = misled
    BY DEF WaypointLeft
  <2> QED
    BY <1>0, <1>1, <2>1, <2>2, <2>3, <2>4 DEF WaypointInv
<1>4. GoalInv(g)'
  BY <1>1, <1>3 DEF GoalInv, SuccessInv
<1>5. RestartInv(g)'
  <2>1. RestartInv(g) /\ current_goal_index \in 0..MaxGoals - 1 /\ pc[g] # "begin"
    BY <1>0, ServerInvSplit DEF RestartIndexInv, ServerTypeOK, AtNav2
  <2> QED
    BY <1>0, <1>1, <1>2, <2>1 DEF RestartInv, WaypointLeft, Waypoint, Executing
<1>6. (alive => (active <=> Executing(g) /\ pc[g] # "begin"))'
  BY <1>0, <1>1, ServerInvSplit
     DEF ActiveWhileExecuting, Executing, AtNav2, WaypointLeft, WaypointDone, atomics
<1>7. misled' = misled
  BY DEF WaypointLeft
<1> QED
  BY <1>0, <1>1, <1>4, <1>5, <1>6, <1>7, GoalStep

LEMMA BeginMissionStep ==
    ASSUME ServerInv, NEW g \in Goal, alive, BeginMission(g)
    PROVE  ServerInv'
<1>0. ServerTypeOK /\ GoalInv(g) /\ NumGoals[g] \in 1..MaxGoals /\ MaxGoals \in Nat /\ Executing(g)
  BY ServerInvSplit, Lengths DEF BeginMission, Executing
<1>1. ServerTypeOK'
  <2>1. 0 \in 0..MaxGoals - 1 /\ pc' \in [Goal -> PC]
    BY <1>0 DEF BeginMission, GoTo, ServerTypeOK, PC
  <2>2. NumGoals[g] \in 0..MaxGoals
    BY <1>0
  <2> QED
    BY <1>0, <2>1, <2>2 DEF BeginMission, ServerTypeOK, goalVars, navVars
<1>2. pc'[g] = "select" /\ mode'[g] = "none"
  BY <1>0 DEF BeginMission, GoTo, ServerTypeOK, GoalInv, ThreadInv
<1>3. GoalInv(g)'
  BY <1>0, <1>2
     DEF BeginMission, goalVars, navVars, GoalInv, ThreadInv, WaypointInv, SuccessInv, UnderWay,
         AtNav2
<1>4. \A h \in Goal \ {g} : UNCHANGED ThreadState(h)
  BY <1>0 DEF BeginMission, GoTo, goalVars, navVars, ServerTypeOK, ThreadState
<1> QED
  <2>1. RestartInv(g)' /\ misled' = misled /\ Executing(g)'
    BY <1>2 DEF BeginMission, Executing, RestartInv
  <2> QED
    BY <1>0, <1>1, <1>2, <1>3, <1>4, <2>1, GoalStep DEF BeginMission

LEMMA SelectNavigationStep ==
    ASSUME ServerInv, NEW g \in Goal, alive, NEW f \in BOOLEAN, NEW n \in BOOLEAN,
           SelectNavigation(g, f, n)
    PROVE  ServerInv'
<1>0. ServerTypeOK /\ GoalInv(g) /\ NumGoals[g] \in 1..MaxGoals /\ MaxGoals \in Nat /\ Executing(g)
  BY ServerInvSplit, Lengths DEF SelectNavigation, Executing
<1>1. CASE EndExecution(g, "ABORTED", FALSE) /\ UNCHANGED mode
  BY <1>0, <1>1, EndStep DEF SelectNavigation, Terminal, ServerTypeOK
<1>2. CASE /\ mode' = [mode EXCEPT ![g] = mode'[g]]
           /\ mode'[g] \in {"follower", "nav2", "simulated"}
           /\ GoTo(g, "next") /\ UNCHANGED <<atomics, goalVars>>
  <2>1. ServerTypeOK'
    BY <1>0, <1>2 DEF SelectNavigation, GoTo, ServerTypeOK, PC, atomics, goalVars, navVars
  <2>2. pc[g] = "select" /\ pc'[g] = "next"
    BY <1>0, <1>2 DEF SelectNavigation, GoTo, ServerTypeOK
  <2>3. GoalInv(g)'
    BY <1>0, <1>2, <2>2
       DEF SelectNavigation, goalVars, navVars, GoalInv, ThreadInv, WaypointInv, SuccessInv,
           UnderWay, AtNav2, ServerTypeOK
  <2>4. \A h \in Goal \ {g} : UNCHANGED ThreadState(h)
    BY <1>0, <1>2 DEF SelectNavigation, GoTo, goalVars, navVars, ServerTypeOK, ThreadState
  <2>5. RestartInv(g)'
    BY <1>0, <2>2, ServerInvSplit DEF SelectNavigation, RestartIndexInv, RestartInv
  <2>6. (alive => (active <=> Executing(g) /\ pc[g] # "begin"))'
    BY <1>0, <1>2, <2>2, ServerInvSplit
       DEF ActiveWhileExecuting, Executing, SelectNavigation, atomics
  <2>7. misled' = misled
    BY DEF SelectNavigation
  <2> QED
    BY <1>0, <2>1, <2>3, <2>4, <2>5, <2>6, <2>7, GoalStep
<1> QED
  BY <1>0, <1>1, <1>2 DEF SelectNavigation, ServerTypeOK

LEMMA NextWaypointStep ==
    ASSUME ServerInv, NEW g \in Goal, alive, NextWaypoint(g)
    PROVE  ServerInv'
<1>0. ServerTypeOK /\ GoalInv(g) /\ NumGoals[g] \in 1..MaxGoals /\ MaxGoals \in Nat /\ Executing(g) /\ pc[g] = "next"
  BY ServerInvSplit, Lengths DEF NextWaypoint, Executing
<1>1. current_goal_index' \in 0..(MaxGoals - 1)
  <2>1. mode[g] # "follower" => LoopEnd(g) = NumGoals[g]
    BY <1>0, ServerInvSplit DEF LoopEnd, RestartIndexInv, RestartInv
  <2>2. index[g] \in 0..MaxGoals /\ current_goal_index \in 0..MaxGoals - 1
    BY <1>0 DEF ServerTypeOK
  <2>3. /\ current_goal_index' = index[g] /\ index[g] < NumGoals[g]
        \/ current_goal_index' = current_goal_index
    BY <1>0, <2>1 DEF NextWaypoint
  <2> QED
    BY <1>0, <2>2, <2>3
<1>2. CASE FinishCancelled(g)
  BY <1>0, <1>1, <1>2, EndStep DEF NextWaypoint
<1>3. CASE index[g] >= LoopEnd(g) /\ FinishSequence(g, ~failed[g])
  <2>1. ServerTypeOK'
    BY <1>0, <1>1, <1>3
       DEF NextWaypoint, FinishSequence, EndExecution, GoTo, ServerTypeOK, GoalState, PC, navVars
  <2>2. /\ pc'[g] = "done" /\ goal_state'[g] = "SUCCEEDED" /\ (success'[g] <=> ~failed[g])
        /\ UNCHANGED <<mode, index, failed, nav, nav_at, straggler, visited, misled>> /\ ~active'
    BY <1>0, <1>3 DEF NextWaypoint, FinishSequence, EndExecution, GoTo, ServerTypeOK, navVars
  <2>3. ThreadInv(g)' /\ WaypointInv(g)'
    BY <1>0, <2>2 DEF GoalInv, ThreadInv, WaypointInv, UnderWay, AtNav2
  <2>4. SuccessInv(g)'
    <3>1. index[g] \in 0..MaxGoals /\ index[g] >= NumGoals[g]
      BY <1>0, <1>3, ServerInvSplit DEF LoopEnd, RestartIndexInv, RestartInv, ServerTypeOK
    <3>2. WaypointOf(g) \subseteq 1..index[g]
      BY <1>0, <3>1 DEF WaypointOf
    <3>3. ~failed[g] /\ mode[g] = "follower" /\ g \notin misled =>
              \A w \in WaypointOf(g) : visited[g][w] # "no"
      BY <1>0, <3>2 DEF GoalInv, WaypointInv
    <3>4. ~failed[g] /\ mode[g] # "follower" => \A w \in WaypointOf(g) : visited[g][w] = "reached"
      BY <1>0, <3>2 DEF GoalInv, WaypointInv
    <3> QED
      BY <2>2, <3>3, <3>4 DEF SuccessInv
  <2>5. \A h \in Goal \ {g} : UNCHANGED ThreadState(h)
    BY <1>0, <1>3, <2>2 DEF FinishSequence, EndExecution, GoTo, ServerTypeOK, ThreadState
  <2> QED
    BY <1>0, <2>1, <2>2, <2>3, <2>4, <2>5, GoalStep DEF GoalInv, Executing, RestartInv
<1>4. CASE index[g] < LoopEnd(g) /\ GoTo(g, "hold") /\ UNCHANGED <<alive, atomics, goalVars>>
  <2>1. ServerTypeOK'
    BY <1>0, <1>1, <1>4 DEF NextWaypoint, GoTo, ServerTypeOK, PC, atomics, goalVars, navVars
  <2>2. /\ pc'[g] = "hold"
        /\ UNCHANGED <<mode, index, failed, nav, nav_at, straggler, visited, success, goal_state, misled,
                      total_goals>>
    BY <1>0, <1>4 DEF NextWaypoint, GoTo, ServerTypeOK, goalVars, navVars
  <2>3. GoalInv(g)'
    <3>1. index[g] < NumGoals[g]
      BY <1>0, <1>4, ServerInvSplit DEF LoopEnd, RestartIndexInv, RestartInv
    <3> QED
      BY <1>0, <1>4, <2>2, <3>1 DEF GoalInv, ThreadInv, WaypointInv, SuccessInv, UnderWay, AtNav2
  <2>4. \A h \in Goal \ {g} : UNCHANGED ThreadState(h)
    BY <1>0, <1>4, <2>2 DEF GoTo, ServerTypeOK, ThreadState
  <2>5. RestartInv(g)'
    BY <1>0, <1>4, <2>2, ServerInvSplit DEF NextWaypoint, RestartIndexInv, RestartInv
  <2>6. (alive => (active <=> Executing(g) /\ pc[g] # "begin"))'
    BY <1>0, <1>4, <2>2, ServerInvSplit DEF ActiveWhileExecuting, Executing, atomics
  <2> QED
    BY <1>0, <2>1, <2>2, <2>3, <2>4, <2>5, <2>6, GoalStep
<1> QED
  BY <1>2, <1>3, <1>4 DEF NextWaypoint

\* A step that keeps the thread at its waypoint.
LEMMA StayStep ==
    ASSUME ServerInv, NEW g \in Goal, UnderWay(g), UnderWay(g)',
           GoTo(g, pc'[g]), pc'[g] \in PC,
           UNCHANGED <<alive, atomics, goalVars, sharedVars, mode, failed, visited, index>>,
           \A h \in Goal \ {g} : UNCHANGED <<nav[h], nav_at[h], straggler[h]>>,
           nav' \in [Goal -> NavState], nav_at' \in [Goal -> 0..MaxGoals],
           straggler' \in [Goal -> 0..MaxGoals],
           ThreadInv(g)', WaypointInv(g)'
    PROVE  ServerInv'
<1>0. ServerTypeOK /\ GoalInv(g) /\ Executing(g)
  BY ServerInvSplit DEF UnderWay, Executing
<1>1. ServerTypeOK'
  BY <1>0 DEF GoTo, ServerTypeOK, atomics, goalVars
<1>2. SuccessInv(g)'
  BY <1>0 DEF GoalInv, SuccessInv, goalVars
<1>3. \A h \in Goal \ {g} : UNCHANGED ThreadState(h)
  BY <1>0 DEF GoTo, ServerTypeOK, ThreadState, goalVars
<1>4. RestartInv(g)'
  BY <1>0, ServerInvSplit DEF RestartIndexInv, RestartInv, UnderWay
<1>5. (alive => (active <=> Executing(g) /\ pc[g] # "begin"))'
  BY <1>0, ServerInvSplit DEF ActiveWhileExecuting, Executing, UnderWay, atomics
<1> QED
  BY <1>0, <1>1, <1>2, <1>3, <1>4, <1>5, GoalStep DEF GoalInv

LEMMA SendNavGoalStep ==
    ASSUME ServerInv, NEW g \in Goal, alive, SendNavGoal(g)
    PROVE  ServerInv'
<1>0. ServerTypeOK /\ GoalInv(g) /\ NumGoals[g] \in 1..MaxGoals /\ MaxGoals \in Nat /\ UnderWay(g) /\ pc[g] = "hold"
  BY ServerInvSplit, Lengths DEF SendNavGoal, UnderWay
<1>1. CASE mode[g] = "simulated" /\ GoTo(g, "run") /\ UNCHANGED <<nav, nav_at>>
  <2>1. pc'[g] = "run"
    BY <1>0, <1>1 DEF GoTo, ServerTypeOK
  <2>2. ThreadInv(g)' /\ WaypointInv(g)'
    BY <1>0, <1>1, <2>1
       DEF SendNavGoal, goalVars, GoalInv, ThreadInv, WaypointInv, UnderWay, AtNav2
  <2> QED
    BY <1>0, <1>1, <2>1, <2>2, StayStep DEF SendNavGoal, UnderWay, ServerTypeOK, PC
<1>2. CASE /\ mode[g] # "simulated" /\ GoTo(g, "accept")
           /\ nav' = [nav EXCEPT ![g] = "sent"]
           /\ nav_at' = [nav_at EXCEPT ![g] = index[g]]
  <2>1. pc'[g] = "accept" /\ nav'[g] = "sent" /\ nav_at'[g] = index[g]
    BY <1>0, <1>2 DEF GoTo, ServerTypeOK
  <2>2. nav' \in [Goal -> NavState] /\ nav_at' \in [Goal -> 0..MaxGoals]
    BY <1>0, <1>2 DEF ServerTypeOK, NavState
  <2>3. /\ index[g] \in 0..MaxGoals /\ index[g] < NumGoals[g] /\ index[g] <= NumGoals[g]
        /\ mode[g] = "follower" => ~failed[g]
    BY <1>0 DEF GoalInv, ThreadInv, WaypointInv, ServerTypeOK
  <2>4. ThreadInv(g)'
    BY <1>0, <1>2, <2>1, <2>3
       DEF SendNavGoal, goalVars, GoalInv, ThreadInv, UnderWay, ActiveNav
  <2>5. WaypointInv(g)'
    BY <1>0, <1>2, <2>1, <2>3, <2>4
       DEF SendNavGoal, goalVars, GoalInv, WaypointInv, UnderWay, AtNav2
  <2> QED
    BY <1>0, <1>2, <2>1, <2>2, <2>4, <2>5, StayStep DEF SendNavGoal, UnderWay, ServerTypeOK, PC
<1> QED
  BY <1>1, <1>2 DEF SendNavGoal

LEMMA GiveUpStep ==
    ASSUME ServerInv, NEW g \in Goal, AtNav2(g), GiveUpWaypoint(g),
           CancelNavGoal(g) \/ UNCHANGED navVars, UNCHANGED <<mode, sharedVars>>
    PROVE  ServerInv'
<1>0. ServerTypeOK /\ Executing(g)
  BY ServerInvSplit DEF AtNav2, Executing
<1>1. CASE FinishCancelled(g) /\ UNCHANGED <<index, failed>>
  BY <1>0, <1>1, EndStep DEF ServerTypeOK
<1>2. CASE mode[g] # "follower" /\ WaypointDone(g, FALSE)
  BY <1>0, <1>2, WaypointDoneStep DEF WaypointLeft, CancelNavGoal, navVars
<1> QED
  BY <1>1, <1>2 DEF GiveUpWaypoint

LEMMA AwaitAcceptanceStep ==
    ASSUME ServerInv, NEW g \in Goal, alive, AwaitAcceptance(g)
    PROVE  ServerInv'
<1>0. ServerTypeOK /\ GoalInv(g) /\ NumGoals[g] \in 1..MaxGoals /\ MaxGoals \in Nat /\ UnderWay(g) /\ AtNav2(g)
      /\ pc[g] \in {"accept", "accept_hold"} /\ UNCHANGED <<mode, sharedVars, navVars>>
  BY ServerInvSplit, Lengths DEF AwaitAcceptance, UnderWay, AtNav2
<1>1. CASE GiveUpWaypoint(g)
  BY <1>0, <1>1, GiveUpStep
<1>2. CASE nav[g] = "rejected" /\ WaypointDone(g, FALSE)
  BY <1>0, <1>2, WaypointDoneStep DEF WaypointLeft, navVars
<1>3. CASE /\ GoTo(g, pc'[g]) /\ pc'[g] \in {"accept", "accept_hold", "run"}
           /\ pc'[g] = "run" => nav[g] # "sent"
           /\ UNCHANGED <<alive, atomics, goalVars, index, failed>>
  <2>1. ThreadInv(g)' /\ WaypointInv(g)'
    BY <1>0, <1>3
       DEF goalVars, navVars, GoalInv, ThreadInv, WaypointInv, UnderWay, AtNav2
  <2> QED
    BY <1>0, <1>3, <2>1, StayStep DEF UnderWay, ServerTypeOK, PC, navVars
<1> QED
  <2>1. ASSUME NEW label \in {"accept", "accept_hold", "run"}, GoTo(g, label)
        PROVE  pc'[g] = label /\ GoTo(g, pc'[g])
    BY <1>0, <2>1 DEF GoTo, ServerTypeOK
  <2> QED
    BY <1>1, <1>2, <1>3, <2>1 DEF AwaitAcceptance

LEMMA PollStep ==
    ASSUME ServerInv, NEW g \in Goal, pc[g] \in {"run", "run_hold"}, Poll(g),
           UNCHANGED <<mode, sharedVars>>
    PROVE  ServerInv'
<1>0. ServerTypeOK /\ GoalInv(g) /\ NumGoals[g] \in 1..MaxGoals /\ MaxGoals \in Nat /\ UnderWay(g) /\ AtNav2(g)
      /\ index[g] + 1 \in Waypoint
  <2>1. ServerTypeOK /\ GoalInv(g) /\ NumGoals[g] \in 1..MaxGoals /\ MaxGoals \in Nat /\ UnderWay(g) /\ AtNav2(g)
    BY ServerInvSplit, Lengths DEF UnderWay, AtNav2
  <2>2. index[g] \in 0..MaxGoals /\ index[g] < NumGoals[g]
    BY <2>1 DEF GoalInv, ThreadInv, ServerTypeOK
  <2> QED
    BY <2>1, <2>2 DEF Waypoint
<1>1. ASSUME mode[g] = "simulated", UNCHANGED <<nav, nav_at, straggler>>,
             \/ Visit(g, index[g] + 1, "reached") /\ WaypointDone(g, TRUE)
             \/ Visit(g, index[g] + 1, "missed") /\ WaypointDone(g, FALSE)
      PROVE  ServerInv'
  <2>1. ASSUME Visit(g, index[g] + 1, "reached") PROVE visited'[g][index[g] + 1] = "reached"
    BY <1>0, <2>1 DEF Visit, ServerTypeOK
  <2> QED
    BY <1>0, <1>1, <2>1, WaypointDoneStep DEF WaypointLeft
<1>2. ASSUME nav[g] \in {"succeeded", "failed"}, WaypointDone(g, nav[g] = "succeeded"),
             UNCHANGED navVars
      PROVE  ServerInv'
  <2>1. nav[g] = "succeeded" /\ mode[g] = "follower" /\ g \notin misled =>
            \A w \in WaypointOf(g) : visited[g][w] # "no"
    BY <1>0 DEF GoalInv, WaypointInv, WaypointOf
  <2>2. nav[g] = "succeeded" /\ mode[g] # "follower" => visited[g][index[g] + 1] = "reached"
    BY <1>0 DEF GoalInv, WaypointInv
  <2> QED
    BY <1>0, <1>2, <2>1, <2>2, WaypointDoneStep DEF WaypointLeft, navVars
<1>3. ASSUME GoTo(g, "run"), UNCHANGED <<alive, atomics, goalVars, index, failed, navVars>>,
             mode[g] = "simulated" \/ nav[g] \in ActiveNav
      PROVE  ServerInv'
  <2>1. pc'[g] = "run"
    BY <1>0, <1>3 DEF GoTo, ServerTypeOK
  <2>2. ThreadInv(g)' /\ WaypointInv(g)'
    BY <1>0, <1>3, <2>1
       DEF goalVars, navVars, GoalInv, ThreadInv, WaypointInv, UnderWay, AtNav2
  <2> QED
    BY <1>0, <1>3, <2>1, <2>2, StayStep DEF UnderWay, ServerTypeOK, PC, navVars
<1> QED
  BY <1>1, <1>2, <1>3 DEF Poll

LEMMA AwaitResultStep ==
    ASSUME ServerInv, NEW g \in Goal, alive, AwaitResult(g)
    PROVE  ServerInv'
<1>0. ServerTypeOK /\ GoalInv(g) /\ NumGoals[g] \in 1..MaxGoals /\ MaxGoals \in Nat /\ UnderWay(g) /\ AtNav2(g)
      /\ Executing(g)
      /\ pc[g] \in {"run", "run_hold"} /\ UNCHANGED <<mode, sharedVars>>
  BY ServerInvSplit, Lengths DEF AwaitResult, UnderWay, AtNav2, Executing
<1>1. CASE CancelNavGoal(g) /\ GiveUpWaypoint(g)
  BY <1>0, <1>1, GiveUpStep
<1>2. CASE Poll(g)
  BY <1>0, <1>2, PollStep
<1>3. CASE /\ pc[g] = "run" /\ GoTo(g, "run_hold")
           /\ IF mode[g] = "follower" THEN CancelNavGoal(g) ELSE UNCHANGED navVars
           /\ UNCHANGED <<alive, atomics, goalVars, index, failed>>
  <2>1. /\ nav' \in [Goal -> NavState] /\ straggler' \in [Goal -> 0..MaxGoals]
        /\ UNCHANGED <<nav_at, visited>>
        /\ \A h \in Goal \ {g} : nav'[h] = nav[h] /\ straggler'[h] = straggler[h]
        /\ \/ straggler'[g] = straggler[g]
           \/ mode[g] = "follower" /\ straggler'[g] = nav_at[g]
    BY <1>0, <1>3, CancelEffect
  <2>2. /\ pc'[g] = "run_hold"
        /\ nav'[g] = IF mode[g] = "follower" /\ nav[g] \in ActiveNav THEN "none" ELSE nav[g]
    BY <1>0, <1>3 DEF GoTo, CancelNavGoal, navVars, ServerTypeOK
  <2>3. ThreadInv(g)'
    BY <1>0, <1>3, <2>1, <2>2 DEF goalVars, GoalInv, ThreadInv, UnderWay, ActiveNav
  <2>4. WaypointInv(g)'
    BY <1>0, <1>3, <2>1, <2>2 DEF goalVars, GoalInv, WaypointInv, AtNav2, ActiveNav
  <2> QED
    BY <1>0, <1>3, <2>1, <2>2, <2>3, <2>4, StayStep DEF UnderWay, ServerTypeOK, PC
<1>4. CASE /\ pc[g] = "run_hold" /\ mode[g] = "follower"
           /\ index' = [index EXCEPT ![g] = current_goal_index]
           /\ GoTo(g, "next")
           /\ UNCHANGED <<alive, atomics, goalVars, failed, navVars>>
  <2>1. /\ pc'[g] = "next" /\ index'[g] = current_goal_index
        /\ UNCHANGED <<failed, nav, nav_at, straggler, visited, success, goal_state>>
        /\ \A h \in Goal \ {g} : index'[h] = index[h]
    BY <1>0, <1>4 DEF GoTo, goalVars, navVars, ServerTypeOK
  <2>2. ServerTypeOK'
    <3>1. current_goal_index \in 0..MaxGoals
      BY <1>0 DEF ServerTypeOK
    <3> QED
      BY <1>0, <1>4, <3>1 DEF GoTo, ServerTypeOK, PC, atomics, goalVars, navVars
  <2>3. RestartInv(g) /\ index[g] < NumGoals[g]
    BY <1>0, ServerInvSplit DEF RestartIndexInv, GoalInv, ThreadInv
  <2>4. GoalInv(g)'
    BY <1>0, <1>4, <2>1, <2>3
       DEF GoalInv, ThreadInv, WaypointInv, SuccessInv, RestartInv, UnderWay, AtNav2
  <2>5. \A h \in Goal \ {g} : UNCHANGED ThreadState(h)
    BY <1>0, <1>4, <2>1 DEF GoTo, ServerTypeOK, ThreadState
  <2>6. RestartInv(g)'
    BY <1>0, <2>1, <2>3 DEF RestartInv
  <2>7. (alive => (active <=> Executing(g) /\ pc[g] # "begin"))'
    BY <1>0, <1>4, <2>1, ServerInvSplit DEF ActiveWhileExecuting, Executing, atomics
  <2> QED
    BY <1>0, <2>2, <2>4, <2>5, <2>6, <2>7, GoalStep
<1> QED
  BY <1>1, <1>2, <1>3, <1>4 DEF AwaitResult

\* What Nav2 still does with a goal that it was asked to cancel.
LEMMA StragglerStep ==
    ASSUME ServerInv, NEW g \in Goal, Straggle(g)
    PROVE  ServerInv'
<1> USE DEF atomics, goalVars, threadVars, navVars
<1>0. /\ ServerTypeOK /\ GoalInv(g) /\ NumGoals[g] \in 1..MaxGoals /\ MaxGoals \in Nat
      /\ straggler[g] \in 0..NumGoals[g] - 1 /\ mode[g] = "follower" /\ ~NoStraggler(g)
  <2>1. ~NoStraggler(g)
    BY DEF Straggle, StragglerVisit, StragglerFeedback, StragglerEnd
  <2>2. ServerTypeOK /\ GoalInv(g) /\ NumGoals[g] \in 1..MaxGoals /\ MaxGoals \in Nat
    BY ServerInvSplit, Lengths
  <2>3. straggler[g] \in 0..MaxGoals /\ straggler[g] <= NumGoals[g] /\ mode[g] = "follower"
    BY <2>1, <2>2 DEF GoalInv, ThreadInv, ServerTypeOK
  <2> QED
    BY <2>1, <2>2, <2>3
<1>1. ASSUME NEW outcome \in {"reached", "missed"}, StragglerVisit(g, outcome)
      PROVE  ServerInv'
  <2>1. straggler[g] + 1 \in Waypoint
    BY <1>0 DEF Waypoint
  <2>2. /\ straggler'[g] = straggler[g] + 1
        /\ \A w \in Waypoint :
              visited'[g][w] = IF w = straggler[g] + 1 THEN outcome ELSE visited[g][w]
        /\ \A h \in Goal \ {g} : visited'[h] = visited[h] /\ straggler'[h] = straggler[h]
    BY <1>0, <1>1, <2>1 DEF StragglerVisit, Visit, ServerTypeOK
  <2>3. ServerTypeOK'
    BY <1>0, <1>1, <2>1 DEF StragglerVisit, Visit, ServerTypeOK, sharedVars
  <2>4. \A w \in Waypoint : visited[g][w] # "no" => visited'[g][w] # "no"
    BY <2>2
  <2>5. ThreadInv(g)'
    BY <1>0, <1>1, <2>2 DEF StragglerVisit, GoalInv, ThreadInv, UnderWay, NoStraggler
  <2>6. WaypointInv(g)'
    <3>1. g \notin misled =>
             /\ ~failed[g] => \A w \in 1..index[g] : visited'[g][w] # "no"
             /\ \A w \in 1..nav_at[g] : visited'[g][w] # "no"
             /\ \A w \in 1..straggler[g] + 1 : visited'[g][w] # "no"
      <4> SUFFICES ASSUME g \notin misled, NEW w \in Waypoint
                   PROVE  /\ ~failed[g] /\ w <= index[g] => visited'[g][w] # "no"
                          /\ w <= nav_at[g] => visited'[g][w] # "no"
                          /\ w <= straggler[g] + 1 => visited'[g][w] # "no"
        BY <1>0 DEF ServerTypeOK, Waypoint
      <4>1. w \in Nat \ {0} /\ index[g] \in Nat /\ nav_at[g] \in Nat /\ straggler[g] \in Nat
        BY <1>0 DEF ServerTypeOK, Waypoint
      <4>2. /\ ~failed[g] /\ w <= index[g] => visited[g][w] # "no"
            /\ w <= nav_at[g] => visited[g][w] # "no"
            /\ w <= straggler[g] => visited[g][w] # "no"
        BY <1>0, <4>1 DEF GoalInv, WaypointInv
      <4> QED
        BY <2>2, <2>4, <4>1, <4>2
    <3> QED
      BY <1>0, <1>1, <2>2, <3>1 DEF StragglerVisit, sharedVars, GoalInv, WaypointInv, AtNav2
  <2>7. SuccessInv(g)'
    BY <1>0, <1>1, <2>4 DEF StragglerVisit, sharedVars, GoalInv, SuccessInv, WaypointOf, Waypoint
  <2> QED
    BY <1>1, <2>2, <2>3, <2>4, <2>5, <2>6, <2>7, QuietStep DEF StragglerVisit, GoalInv, ThreadState
<1>2. CASE StragglerEnd(g)
  <2>1. ServerTypeOK'
    BY <1>0, <1>2 DEF StragglerEnd, ServerTypeOK, sharedVars
  <2>2. /\ straggler'[g] = NumGoals[g]
        /\ \A h \in Goal \ {g} : straggler'[h] = straggler[h]
    BY <1>0, <1>2 DEF StragglerEnd, ServerTypeOK
  <2>3. GoalInv(g)'
    BY <1>0, <1>2, <2>2
       DEF StragglerEnd, sharedVars, GoalInv, ThreadInv, WaypointInv, SuccessInv, UnderWay, AtNav2,
           NoStraggler
  <2> QED
    BY <1>2, <2>1, <2>2, <2>3, QuietStep DEF StragglerEnd, ThreadState
<1>3. CASE StragglerFeedback(g)
  <2>1. ServerTypeOK'
    BY <1>0, <1>3 DEF StragglerFeedback, ServerTypeOK
  <2>2. \A h \in Goal : GoalInv(h)' /\ (Executing(h)' <=> Executing(h))
    BY <1>3, OtherGoal, ServerInvSplit DEF StragglerFeedback, ThreadState
  <2>3. OneExecution' /\ ActiveWhileExecuting'
    BY <1>3, <2>2, ServerInvSplit DEF StragglerFeedback, OneExecution, ActiveWhileExecuting
  <2>4. RestartIndexInv'
    <3> SUFFICES ASSUME NEW h \in Goal PROVE RestartInv(h)'
      BY DEF RestartIndexInv
    <3>1. RestartInv(h) /\ UNCHANGED <<pc, mode, total_goals, visited>>
      BY <1>3, ServerInvSplit DEF StragglerFeedback, RestartIndexInv
    <3>2. CASE h = g
      BY <1>0, <1>3, <3>1, <3>2
         DEF StragglerFeedback, RestartInv, Executing, GoalInv, ThreadInv, WaypointInv
    <3>3. CASE h # g
      BY <1>3, <3>1, <3>3 DEF StragglerFeedback, RestartInv, Executing
    <3> QED
      BY <3>2, <3>3
  <2> QED
    BY <2>1, <2>2, <2>3, <2>4, ServerInvSplit
<1> QED
  BY <1>1, <1>2, <1>3 DEF Straggle

LEMMA NavFeedbackStep ==
    ASSUME ServerInv, NEW g \in Goal, NavFeedback(g)
    PROVE  ServerInv'
<1>0. /\ ServerTypeOK /\ GoalInv(g) /\ NumGoals[g] \in 1..MaxGoals /\ MaxGoals \in Nat
      /\ mode[g] = "follower" /\ nav[g] \in ActiveNav /\ pc[g] \notin {"next", "done"}
      /\ nav_at[g] < NumGoals[g] /\ current_goal_index' = nav_at[g]
      /\ NoStraggler(g)
      /\ UNCHANGED <<alive, active, paused, cancelled, canceling_goal, goal_state, success, pc, mode,
                     index, failed, nav, nav_at, straggler, visited, total_goals, misled>>
  BY ServerInvSplit, Lengths DEF NavFeedback, FollowerFree, atomics, goalVars, threadVars, navVars
<1>1. UnderWay(g) /\ Executing(g)
  BY <1>0 DEF GoalInv, ThreadInv, UnderWay, Executing, ServerTypeOK, PC
<1>2. ServerTypeOK'
  <2>1. nav_at[g] \in 0..MaxGoals - 1
    BY <1>0 DEF ServerTypeOK
  <2> QED
    BY <1>0, <2>1 DEF ServerTypeOK
<1>3. \A h \in Goal : UNCHANGED ThreadState(h)
  BY <1>0 DEF ThreadState
<1>4. GoalInv(g)' /\ Executing(g)'
  BY <1>0, <1>1, <1>3, OtherGoal
<1>5. RestartInv(g)'
  BY <1>0, <1>1, ServerInvSplit
     DEF RestartIndexInv, RestartInv, UnderWay, Executing, GoalInv, WaypointInv
<1>6. (alive => (active <=> Executing(g) /\ pc[g] # "begin"))'
  BY <1>0, <1>1, <1>4, ServerInvSplit DEF ActiveWhileExecuting, UnderWay
<1> QED
  BY <1>0, <1>1, <1>2, <1>3, <1>4, <1>5, <1>6, GoalStep
-----------------------------------------------------------------------------
LEMMA ServerInvInit == ServerInit => ServerInv
<1> SUFFICES ASSUME ServerInit PROVE ServerInv
  OBVIOUS
<1> USE NavigateSequenceAssumption DEF ServerInit
<1>1. ServerTypeOK
  <2>1. 0 \in 0..MaxGoals /\ 0 \in 0..MaxGoals - 1
    OBVIOUS
  <2>2. nav \in [Goal -> NavState] /\ visited \in [Goal -> [Waypoint -> {"no", "reached", "missed"}]]
    BY DEF NavState
  <2>3. straggler \in [Goal -> 0..MaxGoals]
    BY Lengths
  <2> QED
    BY <2>1, <2>2, <2>3 DEF ServerTypeOK, GoalState, PC
<1>2. \A g \in Goal : GoalInv(g) /\ RestartInv(g) /\ ~Executing(g)
  BY DEF GoalInv, ThreadInv, WaypointInv, SuccessInv, RestartInv, UnderWay, AtNav2, Executing,
         ActiveNav
<1> QED
  BY <1>1, <1>2, ServerInvSplit DEF ActiveWhileExecuting, OneExecution, RestartIndexInv

\* A step of a goal after it was sent.
LEMMA GoalNextStep ==
    ASSUME ServerInv, NEW g \in Goal, GoalNext(g)
    PROVE  ServerInv'
<1>1. CASE Thread(g)
  BY <1>1, BeginMissionStep, SelectNavigationStep, NextWaypointStep, SendNavGoalStep,
     AwaitAcceptanceStep, AwaitResultStep DEF Thread
<1> QED
  BY <1>1, CancelStep, NavProgressStep, NavFeedbackStep, StragglerStep DEF GoalNext

LEMMA ServerInvNext == ServerInv /\ [ServerNext]_serverVars => ServerInv'
<1> SUFFICES ASSUME ServerInv, [ServerNext]_serverVars PROVE ServerInv'
  OBVIOUS
<1>1. CASE ServerNext
  BY <1>1, ControlStep, HandleGoalStep, GoalNextStep DEF ServerNext
<1>2. CASE UNCHANGED serverVars
  <2> USE <1>2 DEF serverVars, atomics, goalVars, threadVars, navVars
  <2>1. ServerTypeOK' /\ ActiveWhileExecuting' /\ OneExecution' /\ RestartIndexInv'
    BY ServerInvSplit
       DEF ServerTypeOK, ActiveWhileExecuting, OneExecution, RestartIndexInv, RestartInv, Executing
  <2>2. \A g \in Goal : GoalInv(g)'
    BY OtherGoal, ServerInvSplit DEF ThreadState
  <2> QED
    BY <2>1, <2>2, ServerInvSplit
<1> QED
  BY <1>1, <1>2

\* A success means that no waypoint was left out, unless another sequence's
\* cancelled follower reported meanwhile, and that every waypoint was reached where
\* the node drives them one by one; active_ is up exactly while a sequence is
\* executed, the loop ends with the goal's own list, and the index a follower would
\* be restarted from leaves nothing out: for any number of goals of any lengths,
\* in every order of callbacks, threads, answers and late reports of Nav2.
THEOREM ServerInvariance == ServerSpec => []ServerInv
  BY ServerInvInit, ServerInvNext, PTL DEF ServerSpec

\* A follower that is held waits for no goal at Nav2, and no other goal visits its
\* waypoints: only the goal that Nav2 was asked to cancel may.
LEMMA HeldFollowerStep ==
    ASSUME ServerTypeOK, [ServerNext]_serverVars, NEW g \in Goal, ThreadInv(g),
           pc[g] = "run_hold", mode[g] = "follower", Holding(g), NoStraggler(g)
    PROVE  visited'[g] = visited[g]
<1> USE DEF atomics, goalVars, sharedVars, threadVars, navVars
<1>1. nav[g] \notin ActiveNav
  BY DEF ThreadInv
<1>2. CASE ControlService \/ UNCHANGED serverVars
  BY <1>2 DEF ControlService, CancelMissionService, SetPaused, serverVars
<1>3. ASSUME NEW h \in Goal, HandleGoal(h) \/ CancelGoal(h) \/ MarkCanceling(h) \/ NavFeedback(h)
      PROVE  visited'[g] = visited[g]
  BY <1>3 DEF HandleGoal, CancelGoal, MarkCanceling, NavFeedback
<1>4. ASSUME NEW h \in Goal, NavProgress(h)
      PROVE  visited'[g] = visited[g]
  BY <1>1, <1>4 DEF NavProgress, NavAnswer, NavEnd, NavVisit, Visit, ServerTypeOK
<1>5. ASSUME NEW h \in Goal, Thread(h)
      PROVE  visited'[g] = visited[g]
  BY <1>1, <1>5 DEF Thread, BeginMission, SelectNavigation, NextWaypoint, SendNavGoal,
                    AwaitAcceptance, AwaitResult, CancelNavGoal, Poll, Visit, ServerTypeOK
<1>6. ASSUME NEW h \in Goal, Straggle(h)
      PROVE  visited'[g] = visited[g]
  BY <1>6 DEF Straggle, StragglerFeedback, StragglerEnd, StragglerVisit, Visit, ServerTypeOK
<1> QED
  BY <1>2, <1>3, <1>4, <1>5, <1>6 DEF ServerNext, GoalNext

\* While its follower is held for a pause and Nav2 has handled the cancel request,
\* the robot leaves no waypoint behind.
THEOREM PausedFollowerStands == ServerSpec => PausedFollowerStandsStill
<1>1. ServerInv /\ [ServerNext]_serverVars
        => [\A g \in Goal :
               pc[g] = "run_hold" /\ mode[g] = "follower" /\ Holding(g) /\ NoStraggler(g)
                   => visited'[g] = visited[g]]_serverVars
  BY HeldFollowerStep, ServerInvSplit DEF GoalInv
<1> QED
  BY <1>1, ServerInvariance, PTL DEF ServerSpec, PausedFollowerStandsStill

=============================================================================
