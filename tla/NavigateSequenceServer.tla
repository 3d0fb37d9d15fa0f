----------------------- MODULE NavigateSequenceServer -----------------------
(***************************************************************************)
(* The action server /navigate_sequence.  Its executor thread runs the     *)
(* goal, cancel and service callbacks one at a time; every accepted goal   *)
(* is executed by a detached thread of its own, which shares the atomics   *)
(* active_, paused_ and cancelled_ with the callbacks and with the other   *)
(* goals (robot_tasks/src/navigate_sequence_server_node.cpp).  Nav2 is     *)
(* external: it accepts, rejects, executes and ends the goals it is sent.  *)
(***************************************************************************)
EXTENDS Integers, FiniteSets

CONSTANTS
    Goal,                 \* goals that clients may send
    MaxGoals,             \* bound on the waypoints of a goal
    NumGoals,             \* goals.size(): the waypoints of each goal
    UseWaypointFollower, UseNav2Action, SimulateWithoutNav2

ASSUME NavigateSequenceAssumption ==
    /\ MaxGoals \in Nat \ {0} /\ NumGoals \in [Goal -> 1..MaxGoals]
    /\ {UseWaypointFollower, UseNav2Action, SimulateWithoutNav2} \subseteq BOOLEAN

VARIABLES
    alive,          \* the process: an exception in a detached thread ends it
    active, paused, cancelled,
    canceling_goal, \* goals whose cancel callback ran, not yet marked CANCELING
    goal_state,     \* state of the goal in the action server
    pc,             \* where the goal's thread is
    mode,           \* how the thread navigates
    index,          \* waypoints left behind: i, or start_index of the follower
    current_goal_index, total_goals,   \* members that the goals share
    failed,         \* failed > 0
    nav,            \* the thread's last goal at Nav2, unless it asked to cancel it
    nav_at,         \* waypoints Nav2 has left behind with it
    straggler,      \* waypoints left behind by the FollowWaypoints goal that Nav2 was
                    \* asked to cancel and still executes; all of them: there is none
    visited,        \* waypoint -> what became of it on the floor
    misled,         \* history: goals in whose execution another's straggler reported
    success         \* result->success

atomics    == <<active, paused, cancelled>>
goalVars   == <<canceling_goal, goal_state, success>>
sharedVars == <<current_goal_index, total_goals, misled>>
threadVars == <<pc, mode, index, failed>>
navVars    == <<nav, nav_at, straggler, visited>>
serverVars == <<alive, atomics, goalVars, sharedVars, threadVars, navVars>>

GoalState == {"UNKNOWN", "REJECTED", "EXECUTING", "CANCELING", "SUCCEEDED", "ABORTED", "CANCELED"}
Terminal == {"SUCCEEDED", "ABORTED", "CANCELED"}
PC == {"idle", "begin", "select", "next", "hold", "accept", "accept_hold", "run", "run_hold", "done"}
ActiveNav == {"active", "active_missed"}
NavState == {"none", "sent", "rejected", "succeeded", "failed"} \cup ActiveNav
Waypoint == 1..MaxGoals
WaypointOf(g) == 1..NumGoals[g]

ServerTypeOK ==
    /\ {alive, active, paused, cancelled} \subseteq BOOLEAN
    /\ canceling_goal \subseteq Goal
    /\ goal_state \in [Goal -> GoalState]
    /\ pc \in [Goal -> PC]
    /\ mode \in [Goal -> {"none", "follower", "nav2", "simulated"}]
    /\ index \in [Goal -> 0..MaxGoals]
    /\ current_goal_index \in 0..MaxGoals - 1 /\ total_goals \in 0..MaxGoals
    /\ misled \subseteq Goal
    /\ nav \in [Goal -> NavState]
    /\ nav_at \in [Goal -> 0..MaxGoals] /\ straggler \in [Goal -> 0..MaxGoals]
    /\ visited \in [Goal -> [Waypoint -> {"no", "reached", "missed"}]]
    /\ failed \in [Goal -> BOOLEAN] /\ success \in [Goal -> BOOLEAN]

ServerInit ==
    /\ alive = TRUE
    /\ active = FALSE /\ paused = FALSE /\ cancelled = FALSE
    /\ canceling_goal = {}
    /\ goal_state = [g \in Goal |-> "UNKNOWN"]
    /\ pc = [g \in Goal |-> "idle"]
    /\ mode = [g \in Goal |-> "none"]
    /\ index = [g \in Goal |-> 0]
    /\ current_goal_index = 0 /\ total_goals = 0 /\ misled = {}
    /\ failed = [g \in Goal |-> FALSE]
    /\ nav = [g \in Goal |-> "none"]
    /\ nav_at = [g \in Goal |-> 0]
    /\ straggler = NumGoals
    /\ visited = [g \in Goal |-> [w \in Waypoint |-> "no"]]
    /\ success = [g \in Goal |-> FALSE]
-----------------------------------------------------------------------------
(* Callbacks of the executor thread.                                       *)

CallbackRuns == alive /\ canceling_goal = {}

HandleGoal(g) ==
    /\ CallbackRuns
    /\ goal_state[g] = "UNKNOWN"
    /\ \/ /\ active
          /\ goal_state' = [goal_state EXCEPT ![g] = "REJECTED"]
          /\ UNCHANGED pc
       \/ /\ ~active
          /\ goal_state' = [goal_state EXCEPT ![g] = "EXECUTING"]
          /\ pc' = [pc EXCEPT ![g] = "begin"]
    /\ UNCHANGED <<alive, atomics, canceling_goal, success, sharedVars, mode, index, failed,
                   navVars>>

\* The cancel callback sets cancelled_ and accepts; rclcpp_action marks the goal
\* CANCELING after the callback has returned.
CancelGoal(g) ==
    /\ CallbackRuns
    /\ goal_state[g] = "EXECUTING"
    /\ cancelled' = TRUE
    /\ canceling_goal' = {g}
    /\ UNCHANGED <<alive, active, paused, goal_state, success, sharedVars, threadVars, navVars>>

MarkCanceling(g) ==
    /\ alive /\ g \in canceling_goal
    /\ canceling_goal' = {}
    /\ goal_state' = IF goal_state[g] = "EXECUTING"
                     THEN [goal_state EXCEPT ![g] = "CANCELING"] ELSE goal_state
    /\ UNCHANGED <<alive, atomics, success, sharedVars, threadVars, navVars>>

SetPaused(value) ==
    /\ CallbackRuns
    /\ paused' = value
    /\ UNCHANGED <<alive, active, cancelled, goalVars, sharedVars, threadVars, navVars>>

CancelMissionService ==
    /\ CallbackRuns
    /\ cancelled' = TRUE
    /\ UNCHANGED <<alive, active, paused, goalVars, sharedVars, threadVars, navVars>>
-----------------------------------------------------------------------------
(* The thread of a goal.                                                   *)

\* Faulty: the state of the goal handle is not looked at.
FaultyCancelSeen(g) == cancelled

CancelSeen(g) == goal_state[g] = "CANCELING" \/ cancelled

\* WaitWhilePaused keeps waiting.
Holding(g) == paused /\ ~CancelSeen(g)

GoTo(g, label) == pc' = [pc EXCEPT ![g] = label]

BeginMission(g) ==
    /\ pc[g] = "begin"
    /\ cancelled' = FALSE /\ active' = TRUE
    /\ current_goal_index' = 0 /\ total_goals' = NumGoals[g]
    /\ GoTo(g, "select")
    /\ UNCHANGED <<alive, paused, goalVars, misled, mode, index, failed, navVars>>

EndExecution(g, state, ok) ==
    /\ active' = FALSE
    /\ GoTo(g, "done")
    /\ goal_state' = [goal_state EXCEPT ![g] = state]
    /\ success' = [success EXCEPT ![g] = ok]
    /\ UNCHANGED <<paused, cancelled, canceling_goal>>

\* canceled() is an error unless the goal is CANCELING; nothing catches it.
FinishCancelled(g) ==
    \/ /\ goal_state[g] = "CANCELING"
       /\ EndExecution(g, "CANCELED", FALSE)
       /\ UNCHANGED alive
    \/ /\ goal_state[g] # "CANCELING"
       /\ alive' = FALSE /\ active' = FALSE
       /\ GoTo(g, "done")
       /\ UNCHANGED <<paused, cancelled, goalVars>>

FinishSequence(g, all_reached) ==
    /\ EndExecution(g, "SUCCEEDED", all_reached)
    /\ UNCHANGED alive

\* Which servers answer in time is up to Nav2: follower_available and
\* nav2_available.  The availability of the follower does not count in the test
\* that ends the mission with "Nav2 action server is unavailable".
SelectNavigation(g, follower_available, nav2_server_up) ==
    LET follower == UseWaypointFollower /\ follower_available
        nav2     == ~follower /\ UseNav2Action /\ nav2_server_up
    IN  /\ pc[g] = "select"
        /\ \/ /\ UseNav2Action /\ ~nav2 /\ ~SimulateWithoutNav2
              /\ EndExecution(g, "ABORTED", FALSE)
              /\ UNCHANGED mode
           \/ /\ ~(UseNav2Action /\ ~nav2 /\ ~SimulateWithoutNav2)
              /\ mode' = [mode EXCEPT ![g] = IF follower THEN "follower"
                                             ELSE IF nav2 THEN "nav2" ELSE "simulated"]
              /\ GoTo(g, "next")
              /\ UNCHANGED <<atomics, goalVars>>
        /\ UNCHANGED <<alive, index, sharedVars, failed, navVars>>

\* Where the loop over the waypoints ends: the loop of the follower at the end of
\* its own goal, the other one at total_goals_, which every BeginMission writes.
LoopEnd(g) == IF mode[g] = "follower" THEN NumGoals[g] ELSE total_goals

\* The head of the loop over the waypoints.
NextWaypoint(g) ==
    /\ pc[g] = "next"
    /\ current_goal_index' = IF index[g] < LoopEnd(g) /\ mode[g] # "follower"
                             THEN index[g] ELSE current_goal_index
    /\ \/ /\ index[g] >= LoopEnd(g)
          /\ FinishSequence(g, ~failed[g])
       \/ /\ index[g] < LoopEnd(g) /\ CancelSeen(g)
          /\ FinishCancelled(g)
       \/ /\ index[g] < LoopEnd(g) /\ ~CancelSeen(g)
          /\ GoTo(g, "hold")
          /\ UNCHANGED <<alive, atomics, goalVars>>
    /\ UNCHANGED <<total_goals, misled, mode, index, failed, navVars>>

\* A cancellation ends the wait like a resume: the Nav2 goal is sent all the same.
SendNavGoal(g) ==
    /\ pc[g] = "hold" /\ ~Holding(g)
    /\ \/ /\ mode[g] = "simulated"
          /\ GoTo(g, "run")
          /\ UNCHANGED <<nav, nav_at>>
       \/ /\ mode[g] # "simulated"
          /\ GoTo(g, "accept")
          /\ nav' = [nav EXCEPT ![g] = "sent"]
          /\ nav_at' = [nav_at EXCEPT ![g] = index[g]]
    /\ UNCHANGED <<alive, atomics, goalVars, sharedVars, mode, index, failed, straggler, visited>>

\* Faulty: a failed waypoint is tried again for ever.
FaultyWaypointDone(g, ok) ==
    /\ index' = [index EXCEPT ![g] = CASE ~ok -> @
                                       [] ok /\ mode[g] = "follower" -> NumGoals[g]
                                       [] OTHER -> @ + 1]
    /\ failed' = [failed EXCEPT ![g] = @ \/ ~ok]
    /\ GoTo(g, "next")
    /\ UNCHANGED <<alive, atomics, goalVars>>

\* A waypoint is left behind; the follower leaves the whole sequence behind.
WaypointDone(g, ok) ==
    /\ index' = [index EXCEPT ![g] = IF mode[g] = "follower" THEN NumGoals[g] ELSE @ + 1]
    /\ failed' = [failed EXCEPT ![g] = @ \/ ~ok]
    /\ GoTo(g, "next")
    /\ UNCHANGED <<alive, atomics, goalVars>>

\* Return false from the wait for Nav2: the follower ends as cancelled, a single
\* waypoint counts as failed.
GiveUpWaypoint(g) ==
    \/ /\ mode[g] = "follower"
       /\ FinishCancelled(g)
       /\ UNCHANGED <<index, failed>>
    \/ /\ mode[g] # "follower"
       /\ WaypointDone(g, FALSE)

\* WaitForFuture: the goal sent to Nav2 is not cancelled with the sequence.
AwaitAcceptance(g) ==
    /\ \/ /\ pc[g] = "accept" /\ CancelSeen(g)
          /\ GiveUpWaypoint(g)
       \/ /\ pc[g] = "accept" /\ Holding(g)
          /\ GoTo(g, "accept_hold")
          /\ UNCHANGED <<alive, atomics, goalVars, index, failed>>
       \/ /\ \/ pc[g] = "accept" /\ ~CancelSeen(g)
             \/ pc[g] = "accept_hold"
          /\ ~Holding(g)
          /\ \/ /\ nav[g] = "rejected"
                /\ WaypointDone(g, FALSE)
             \/ /\ nav[g] # "rejected"
                /\ GoTo(g, IF nav[g] = "sent" THEN "accept" ELSE "run")
                /\ UNCHANGED <<alive, atomics, goalVars, index, failed>>
    /\ UNCHANGED <<mode, sharedVars, navVars>>

Visit(g, w, outcome) == visited' = [visited EXCEPT ![g][w] = outcome]

Poll(g) ==
    \/ /\ mode[g] = "simulated"
       /\ \/ Visit(g, index[g] + 1, "reached") /\ WaypointDone(g, TRUE)
          \/ Visit(g, index[g] + 1, "missed") /\ WaypointDone(g, FALSE)
       /\ UNCHANGED <<nav, nav_at, straggler>>
    \/ /\ nav[g] \in {"succeeded", "failed"}
       /\ WaypointDone(g, nav[g] = "succeeded")
       /\ UNCHANGED navVars
    \/ /\ mode[g] = "simulated" \/ nav[g] \in ActiveNav
       /\ GoTo(g, "run")
       /\ UNCHANGED <<alive, atomics, goalVars, index, failed, navVars>>

\* Faulty: Nav2 is not asked.
FaultyCancelNavGoal(g) == UNCHANGED navVars

NoStraggler(g) == straggler[g] = NumGoals[g]

\* async_cancel_goal only sends a request and nobody waits for its answer.  Until
\* Nav2 handles it a FollowWaypoints goal drives on and reports (the goal that Nav2
\* executes, when an earlier one is still there).  What a NavigateToPose goal does
\* until then is of no consequence: its waypoint counts as failed, and its feedback
\* writes no member.
CancelNavGoal(g) ==
    /\ nav' = [nav EXCEPT ![g] = IF @ \in ActiveNav THEN "none" ELSE @]
    /\ straggler' = [straggler EXCEPT ![g] =
                        IF mode[g] = "follower" /\ nav[g] \in ActiveNav /\ NoStraggler(g)
                        THEN nav_at[g] ELSE @]
    /\ UNCHANGED <<nav_at, visited>>

\* The loop that waits for the end of the Nav2 goal.  Only the follower cancels
\* its goal for a pause; it starts again from the waypoint of the last feedback.
AwaitResult(g) ==
    /\ \/ /\ pc[g] = "run" /\ CancelSeen(g)
          /\ CancelNavGoal(g)
          /\ GiveUpWaypoint(g)
       \/ /\ pc[g] = "run" /\ Holding(g)
          /\ IF mode[g] = "follower" THEN CancelNavGoal(g) ELSE UNCHANGED navVars
          /\ GoTo(g, "run_hold")
          /\ UNCHANGED <<alive, atomics, goalVars, index, failed>>
       \/ /\ pc[g] = "run_hold" /\ mode[g] = "follower" /\ ~Holding(g)
          /\ index' = [index EXCEPT ![g] = current_goal_index]
          /\ GoTo(g, "next")
          /\ UNCHANGED <<alive, atomics, goalVars, failed, navVars>>
       \/ /\ \/ pc[g] = "run" /\ ~CancelSeen(g)
             \/ pc[g] = "run_hold" /\ mode[g] # "follower"
          /\ ~Holding(g)
          /\ Poll(g)
    /\ UNCHANGED <<mode, sharedVars>>

Thread(g) ==
    /\ alive
    /\ \/ BeginMission(g)
       \/ \E f, n \in BOOLEAN : SelectNavigation(g, f, n)
       \/ NextWaypoint(g) \/ SendNavGoal(g) \/ AwaitAcceptance(g) \/ AwaitResult(g)
-----------------------------------------------------------------------------
(* Nav2, as the threads see it.                                            *)

NavAnswer(g) ==
    /\ nav[g] = "sent"
    /\ \E answer \in {"active", "rejected"} : nav' = [nav EXCEPT ![g] = answer]
    /\ UNCHANGED <<alive, atomics, goalVars, sharedVars, threadVars, nav_at, straggler, visited>>

\* The last waypoint of the Nav2 goal: the follower got them all, NavigateToPose one.
LastWaypoint(g) == IF mode[g] = "follower" THEN NumGoals[g] ELSE index[g] + 1

\* The waypoint follower executes one goal at a time: the next one, which it may
\* have accepted already, starts when the cancelled one has ended.
FollowerFree == \A g \in Goal : NoStraggler(g)

\* Nav2 leaves a waypoint behind; the follower goes on after a missed one.  (What
\* a goal does that the thread gave up before it was accepted is not recorded.)
NavVisit(g, outcome) ==
    /\ nav[g] \in ActiveNav /\ nav_at[g] < LastWaypoint(g)
    /\ mode[g] = "follower" => FollowerFree
    /\ pc[g] \in {"accept", "accept_hold", "run", "run_hold"}
    /\ Visit(g, nav_at[g] + 1, outcome)
    /\ nav_at' = [nav_at EXCEPT ![g] = @ + 1]
    /\ nav' = [nav EXCEPT ![g] = IF outcome = "missed" THEN "active_missed" ELSE @]
    /\ UNCHANGED <<alive, atomics, goalVars, sharedVars, threadVars, straggler>>

\* The result of the Nav2 goal: success needs every waypoint of this goal.
NavEnd(g) ==
    /\ nav[g] \in ActiveNav
    /\ \/ nav' = [nav EXCEPT ![g] = "failed"]
       \/ /\ nav[g] = "active" /\ nav_at[g] = LastWaypoint(g)
          /\ nav' = [nav EXCEPT ![g] = "succeeded"]
    /\ UNCHANGED <<alive, atomics, goalVars, sharedVars, threadVars, nav_at, straggler, visited>>

\* Faulty: the waypoint after the current one is remembered.
FaultyNavFeedbackIndex(g) ==
    /\ alive /\ mode[g] = "follower" /\ nav[g] \in ActiveNav /\ FollowerFree
    /\ pc[g] \notin {"next", "done"}
    /\ nav_at[g] + 1 < NumGoals[g]
    /\ current_goal_index' = nav_at[g] + 1
    /\ UNCHANGED <<alive, atomics, goalVars, total_goals, misled, threadVars, navVars>>

\* Feedback of the follower: current_goal_index_ becomes the waypoint it drives to.
NavFeedback(g) ==
    /\ alive /\ mode[g] = "follower" /\ nav[g] \in ActiveNav /\ FollowerFree
    /\ pc[g] \notin {"next", "done"}
    /\ nav_at[g] < NumGoals[g]
    /\ current_goal_index' = nav_at[g]
    /\ UNCHANGED <<alive, atomics, goalVars, total_goals, misled, threadVars, navVars>>

\* A goal that Nav2 was asked to cancel leaves one more waypoint behind.
StragglerVisit(g, outcome) ==
    /\ ~NoStraggler(g)
    /\ Visit(g, straggler[g] + 1, outcome)
    /\ straggler' = [straggler EXCEPT ![g] = @ + 1]
    /\ UNCHANGED <<alive, atomics, goalVars, sharedVars, threadVars, nav, nav_at>>

\* Its feedback is still taken: the client keeps a goal until its result has come.
\* It writes current_goal_index_, whichever sequence is executed by then.
StragglerFeedback(g) ==
    /\ alive /\ ~NoStraggler(g)
    /\ current_goal_index' = straggler[g]
    /\ misled' = misled \cup {h \in Goal \ {g} : pc[h] \notin {"idle", "begin", "done"}}
    /\ UNCHANGED <<alive, atomics, goalVars, total_goals, threadVars, navVars>>

\* Nav2 handles the request, or the next goal takes the place of this one.
StragglerEnd(g) ==
    /\ ~NoStraggler(g)
    /\ straggler' = [straggler EXCEPT ![g] = NumGoals[g]]
    /\ UNCHANGED <<alive, atomics, goalVars, sharedVars, threadVars, nav, nav_at, visited>>

Straggle(g) ==
    \/ StragglerFeedback(g) \/ StragglerEnd(g)
    \/ \E outcome \in {"reached", "missed"} : StragglerVisit(g, outcome)

NavProgress(g) ==
    NavAnswer(g) \/ NavEnd(g) \/ \E outcome \in {"reached", "missed"} : NavVisit(g, outcome)
-----------------------------------------------------------------------------
ControlService == CancelMissionService \/ \E value \in BOOLEAN : SetPaused(value)

\* What happens to a goal after it was sent.
GoalNext(g) ==
    CancelGoal(g) \/ MarkCanceling(g) \/ Thread(g) \/ NavProgress(g) \/ NavFeedback(g) \/ Straggle(g)

Executing(g) == pc[g] \notin {"idle", "done"}

\* The mission runner is the client: it sends a goal when it has none at the server.
ServerNext ==
    \/ ControlService
    \/ \E g \in Goal : \/ HandleGoal(g) /\ \A other \in Goal : ~Executing(other)
                       \/ GoalNext(g)

\* The threads are scheduled, the executor returns from its callback, and Nav2 is
\* assumed to answer and to end its goals, the cancelled ones too.
ServerFairness ==
    \A g \in Goal : /\ WF_serverVars(Thread(g)) /\ WF_serverVars(MarkCanceling(g))
                    /\ WF_serverVars(NavProgress(g)) /\ WF_serverVars(StragglerEnd(g))

ServerSpec == ServerInit /\ [][ServerNext]_serverVars /\ ServerFairness
-----------------------------------------------------------------------------
(* Properties.                                                             *)

\* A sequence that is reported as a success has left no waypoint out, whatever
\* pauses, cancellations, restarts of the follower and late reports of its own
\* cancelled goals it went through (RunWaypointFollowerSequence, start_index).  It
\* may have left some out when the cancelled follower of an earlier sequence
\* reported during its execution: current_goal_index_ does not say whose it is.
SuccessSkipsNothing ==
    \A g \in Goal \ misled : success[g] => \A w \in WaypointOf(g) : visited[g][w] # "no"

\* "sequence finished" (navigate_sequence_server_node.cpp:212): result->success
\* means that every waypoint was reached.  The follower's restart after a pause
\* forgets what was missed before it, so this is said of
\* the sequences that the node drives waypoint by waypoint.
SuccessMeansReached(g) == success[g] => \A w \in WaypointOf(g) : visited[g][w] = "reached"

StepwiseSuccessMeansAllReached ==
    \A g \in Goal : mode[g] # "follower" => SuccessMeansReached(g)

\* The thread of g is between two looks at its loop over the waypoints, or waits
\* there for the goal it has sent to Nav2.
UnderWay(g) == pc[g] \in {"hold", "accept", "accept_hold", "run", "run_hold"}
AtNav2(g) == pc[g] \in {"accept", "accept_hold", "run", "run_hold"}

\* active_ says whether the next goal is rejected: it is up from the start of an
\* execution to its end.
ActiveWhileExecuting ==
    alive => (active <=> \E g \in Goal : Executing(g) /\ pc[g] # "begin")

\* Where a thread may be: a goal the server does not know has none, nothing is
\* navigated before a way to navigate is selected, and no waypoint beyond the last
\* is driven to.  A goal at Nav2 that the thread waits for has been answered, and
\* a held follower waits for none.
ThreadInv(g) ==
    /\ goal_state[g] = "UNKNOWN" => pc[g] = "idle"
    /\ pc[g] \in {"idle", "begin", "select"} =>
           /\ mode[g] = "none" /\ index[g] = 0 /\ nav_at[g] = 0 /\ ~failed[g]
           /\ NoStraggler(g)
    /\ pc[g] = "next" \/ UnderWay(g) => mode[g] # "none"
    /\ mode[g] \in {"none", "simulated"} => nav[g] = "none"
    /\ mode[g] # "follower" => NoStraggler(g)
    /\ mode[g] # "follower" => index[g] <= NumGoals[g]
    /\ nav_at[g] <= NumGoals[g] /\ straggler[g] <= NumGoals[g]
    /\ UnderWay(g) => index[g] < NumGoals[g]
    /\ pc[g] \in {"run", "run_hold"} => nav[g] # "sent"
    /\ pc[g] = "run_hold" /\ mode[g] = "follower" => nav[g] \notin ActiveNav
    /\ success[g] => pc[g] = "done"

\* What the counters say of the floor: unless something failed, no waypoint before
\* index is left out, and none is missed where the node drives them one by one.
\* Nav2's own count is one ahead at most there; the follower's counts cover only
\* waypoints that were tried, also those before a restart, while no other goal's
\* straggler has misled it.
WaypointInv(g) ==
    /\ mode[g] = "follower" /\ g \notin misled =>
           /\ ~failed[g] => \A w \in 1..index[g] : visited[g][w] # "no"
           /\ \A w \in 1..nav_at[g] : visited[g][w] # "no"
           /\ ~NoStraggler(g) => \A w \in 1..straggler[g] : visited[g][w] # "no"
    /\ mode[g] = "follower" =>
           /\ index[g] < NumGoals[g] => ~failed[g]
           /\ AtNav2(g) /\ nav[g] = "succeeded" => nav_at[g] = NumGoals[g]
    /\ mode[g] # "follower" /\ ~failed[g] => \A w \in 1..index[g] : visited[g][w] = "reached"
    /\ mode[g] # "follower" /\ AtNav2(g) /\ nav[g] # "none" =>
           /\ nav_at[g] \in {index[g], index[g] + 1}
           /\ nav[g] = "sent" => nav_at[g] = index[g]
           /\ nav[g] = "succeeded" => nav_at[g] = index[g] + 1
           /\ nav[g] \in {"active", "succeeded"} /\ nav_at[g] = index[g] + 1 =>
                  visited[g][index[g] + 1] = "reached"

\* One client has one goal at the server at a time.
OneExecution == \A g, h \in Goal : Executing(g) /\ Executing(h) => g = h

\* What a goal finds in the members that all goals share, while no other goal's
\* straggler has misled it: the waypoint from which a follower would be restarted
\* has none before it that was left out.  The loop over the waypoints ends with
\* the goal's own list.
RestartInv(g) ==
    /\ g \notin misled =>
           /\ pc[g] = "select" => current_goal_index = 0
           /\ Executing(g) /\ pc[g] # "begin" /\ mode[g] = "follower" =>
                  /\ current_goal_index < NumGoals[g]
                  /\ \A w \in 1..current_goal_index : visited[g][w] # "no"
    /\ Executing(g) /\ pc[g] # "begin" => total_goals = NumGoals[g]

RestartIndexInv == \A g \in Goal : RestartInv(g)

\* What holds between the steps of the server's threads with one client: what a
\* success means, when active_ is up, and the invariants of the threads, the
\* counters and the shared members that these rest on.  It is inductive.
ServerInv ==
    /\ ServerTypeOK
    /\ SuccessSkipsNothing /\ StepwiseSuccessMeansAllReached
    /\ ActiveWhileExecuting
    /\ OneExecution /\ RestartIndexInv
    /\ \A g \in Goal : ThreadInv(g) /\ WaypointInv(g)

\* A cancellation request reaches the goal's thread, also when it comes before
\* BeginMission resets cancelled_ and while the mission is paused.
CancelRequestEndsGoal ==
    \A g \in Goal : g \in canceling_goal ~> ~alive \/ goal_state[g] \in Terminal

\* An accepted goal ends, unless it is held by a pause.
AcceptedGoalEnds ==
    \A g \in Goal : goal_state[g] = "EXECUTING" ~>
                        ~alive \/ paused \/ goal_state[g] \in Terminal

\* "mission paused" (navigate_sequence_server_node.cpp:123): while the thread holds
\* the follower's sequence for a pause, the robot leaves no waypoint behind once
\* Nav2 has handled the cancel request; until then it drives on.  (A NavigateToPose
\* goal is not cancelled for a pause: that robot drives on throughout.)
PausedFollowerStandsStill ==
    [][\A g \in Goal : pc[g] = "run_hold" /\ mode[g] = "follower" /\ Holding(g) /\ NoStraggler(g)
          => visited'[g] = visited[g]]_serverVars

=============================================================================
