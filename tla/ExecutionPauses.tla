--------------------------- MODULE ExecutionPauses ---------------------------
(***************************************************************************)
(* Three parties pause the active mission and let it go on: the operator,  *)
(* the localization (every amcl pose is judged by its covariance) and a    *)
(* reported obstacle.  Each automatic pause leaves a flag by which its own *)
(* recovery resumes the mission; there is one paused_ for all of them      *)
(* (mission_localization_workflow.cpp, mission_safety_workflow.cpp and the *)
(* handlers of mission_runner_node.cpp).                                   *)
(***************************************************************************)
EXTENDS MissionRunner

CONSTANTS
    LocalizationPauseOnLost,      \* parameter localization_pause_on_lost
    SafetyObstaclePauseOnBlockage \* parameter safety_obstacle_pause_on_blockage

ASSUME ExecutionPausesAssumption ==
    {LocalizationPauseOnLost, SafetyObstaclePauseOnBlockage} \subseteq BOOLEAN

VARIABLES
    localization_state,
    localization_paused_mission,
    safety_obstacle_blocked,
    safety_blockage_paused_mission

localizationVars == <<localization_state, localization_paused_mission>>
safetyVars == <<safety_obstacle_blocked, safety_blockage_paused_mission>>
pauseVars == <<vars, localizationVars, safetyVars>>

LocalizationState == {"UNKNOWN", "OK", "LOST", "RELOCALIZING", "RECOVERED"}

\* The variables of the pauses have their types (those of the runner: TypeOK);
\* only a reported obstacle can have paused the mission.
PauseTypeOK ==
    /\ localization_state \in LocalizationState
    /\ {localization_paused_mission, safety_obstacle_blocked, safety_blockage_paused_mission}
           \subseteq BOOLEAN
    /\ safety_blockage_paused_mission => safety_obstacle_blocked

PauseInit ==
    /\ Init
    /\ localization_state = "UNKNOWN" /\ localization_paused_mission = FALSE
    /\ safety_obstacle_blocked = FALSE /\ safety_blockage_paused_mission = FALSE
-----------------------------------------------------------------------------
(* The control of the active mission: the flag and the shown state.  The    *)
(* request to the action server is sent without waiting for the answer.    *)

Control(pause, state) ==
    /\ paused' = pause /\ current_state' = state
    /\ UNCHANGED <<queueVars, paused_workflow_orders, profileVars, goalVars,
                   cancellation_requested, recoveryVars, low_battery_dock_request_sent, trafficVars>>

RecoveringFromLocalizationLoss == localization_state \in {"LOST", "RELOCALIZING"}

\* The recovery resumes what the loss has paused.
ResumeAfterLocalization ==
    IF RecoveringFromLocalizationLoss /\ localization_paused_mission /\ mission_active /\ paused
    THEN Control(FALSE, "RUNNING")
    ELSE UNCHANGED vars
-----------------------------------------------------------------------------
(* Localization.                                                           *)

\* Faulty: only the pose that loses the localization pauses.
FaultyPoseLost ==
    /\ localization_state' = "LOST"
    /\ IF LocalizationPauseOnLost /\ mission_active /\ ~paused /\ localization_state # "LOST"
       THEN /\ Control(TRUE, "LOCALIZATION_LOST")
            /\ localization_paused_mission' = TRUE
       ELSE UNCHANGED <<vars, localization_paused_mission>>
    /\ UNCHANGED safetyVars

\* HandleLocalizationPose with a covariance above the threshold: every such
\* pose pauses again, also a mission that was started or resumed meanwhile.
PoseLost ==
    /\ localization_state' = "LOST"
    /\ IF LocalizationPauseOnLost /\ mission_active /\ ~paused
       THEN /\ Control(TRUE, "LOCALIZATION_LOST")
            /\ localization_paused_mission' = TRUE
       ELSE UNCHANGED <<vars, localization_paused_mission>>
    /\ UNCHANGED safetyVars

\* Faulty: a recovery is one from LOST only.
FaultyPoseGood ==
    /\ localization_state' = IF localization_state = "LOST" THEN "RECOVERED" ELSE "OK"
    /\ localization_paused_mission' = FALSE
    /\ IF localization_state = "LOST" THEN ResumeAfterLocalization ELSE UNCHANGED vars
    /\ UNCHANGED safetyVars

\* HandleLocalizationPose otherwise.
PoseGood ==
    /\ localization_state' = IF RecoveringFromLocalizationLoss THEN "RECOVERED" ELSE "OK"
    /\ localization_paused_mission' = FALSE
    /\ ResumeAfterLocalization
    /\ UNCHANGED safetyVars

RequestRelocalization ==
    /\ localization_state' = "RELOCALIZING"
    /\ UNCHANGED <<vars, localization_paused_mission, safetyVars>>

SetInitialPoseFromStation ==
    /\ localization_state' = "RECOVERED"
    /\ localization_paused_mission' = FALSE
    /\ IF localization_paused_mission /\ mission_active /\ paused
       THEN Control(FALSE, "RUNNING")
       ELSE UNCHANGED vars
    /\ UNCHANGED safetyVars
-----------------------------------------------------------------------------
(* Obstacles.                                                              *)

ReportObstacleBlockage(pause_active) ==
    LET pauses == pause_active /\ SafetyObstaclePauseOnBlockage /\ mission_active /\ ~paused
    IN  /\ ~safety_obstacle_blocked
        /\ safety_obstacle_blocked' = TRUE
        /\ safety_blockage_paused_mission' = pauses
        /\ IF pauses THEN Control(TRUE, "SAFETY_BLOCKED") ELSE UNCHANGED vars
        /\ UNCHANGED localizationVars

\* The flags outlive the mission that was paused, so the end of the obstacle may
\* also resume one that somebody else has paused.  The code's branch for an idle
\* runner that shows SAFETY_BLOCKED is left out: every end of a mission shows
\* another state.
ClearObstacleBlockage(resume_active) ==
    /\ safety_obstacle_blocked
    /\ safety_obstacle_blocked' = FALSE /\ safety_blockage_paused_mission' = FALSE
    /\ IF resume_active /\ safety_blockage_paused_mission /\ mission_active /\ paused
       THEN Control(FALSE, "RUNNING")
       ELSE UNCHANGED vars
    /\ UNCHANGED localizationVars
-----------------------------------------------------------------------------
Pose == PoseLost \/ PoseGood

LocalizationService == RequestRelocalization \/ SetInitialPoseFromStation

BlockageService == \E b \in BOOLEAN : ReportObstacleBlockage(b) \/ ClearObstacleBlockage(b)

PauseNext ==
    \/ Next /\ UNCHANGED <<localizationVars, safetyVars>>
    \/ Pose
    \/ LocalizationService
    \/ BlockageService

\* amcl publishes its pose as long as it runs: a localization that stays lost
\* gives further poses above the threshold.
StillLost == localization_state = "LOST" /\ PoseLost

PauseSpec == PauseInit /\ [][PauseNext]_pauseVars /\ WF_pauseVars(StillLost)
-----------------------------------------------------------------------------
\* A robot that has lost its localization does not drive on: whatever mission
\* is started or resumed meanwhile, by whom ever, is paused by the next poses.
LostRobotIsHeld ==
    localization_state = "LOST" /\ mission_active /\ ~paused
        ~> paused \/ ~mission_active \/ localization_state # "LOST"

\* The localization gives its flag up only together with the pause it stands for.
LocalizationPauseIsEnded ==
    [][localization_paused_mission /\ ~localization_paused_mission' /\ mission_active
          => ~paused']_pauseVars
=============================================================================
