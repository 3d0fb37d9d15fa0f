SPECIFICATION MCServerSpec
CONSTANTS
  previous = previous
  current = current
  Goal <- MCGoal
  MaxGoals = 3
  NumGoals <- MCNumGoals
  UseWaypointFollower = TRUE
  UseNav2Action = TRUE
  SimulateWithoutNav2 = TRUE
INVARIANTS ServerInv
PROPERTIES CancelRequestEndsGoal AcceptedGoalEnds PausedFollowerStandsStill
CHECK_DEADLOCK FALSE
