---------------------- MODULE MCNavigateSequenceServer ----------------------
(***************************************************************************)
(* A goal is sent when the one before it, whose follower drove to its last *)
(* waypoint, has been canceled: Nav2 may still execute what it was asked   *)
(* to cancel.                                                              *)
(***************************************************************************)
EXTENDS NavigateSequenceServer, TLC

CONSTANTS previous, current

MCGoal == {previous, current}
MCNumGoals == (previous :> 3) @@ (current :> 2)

\* The states of ServerSpec after that cancellation; straggler = 3: Nav2 has
\* handled the request.
MCServerInit ==
    /\ alive = TRUE /\ active = FALSE /\ paused = FALSE /\ cancelled = TRUE
    /\ canceling_goal = {}
    /\ goal_state = (previous :> "CANCELED") @@ (current :> "UNKNOWN")
    /\ pc = (previous :> "done") @@ (current :> "idle")
    /\ mode = (previous :> "follower") @@ (current :> "none")
    /\ index = [g \in Goal |-> 0]
    /\ current_goal_index = 2 /\ total_goals = 3 /\ misled = {}
    /\ failed = [g \in Goal |-> FALSE]
    /\ nav = [g \in Goal |-> "none"]
    /\ nav_at = (previous :> 2) @@ (current :> 0)
    /\ \E at \in {2, 3} : straggler = (previous :> at) @@ (current :> 2)
    /\ visited = [g \in Goal |-> [w \in Waypoint |->
                     IF g = previous /\ w < 3 THEN "reached" ELSE "no"]]
    /\ success = [g \in Goal |-> FALSE]

MCServerSpec == MCServerInit /\ [][ServerNext]_serverVars /\ ServerFairness
=============================================================================
