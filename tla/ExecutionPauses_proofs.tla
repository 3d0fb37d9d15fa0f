----------------------- MODULE ExecutionPauses_proofs -----------------------
(***************************************************************************)
(* Proofs about the pauses that the localization and the obstacles put on  *)
(* the active mission.  They change nothing of the runner but the pause    *)
(* flag and the shown state (ControlStep), so the invariant of the runner  *)
(* stays; PauseInv ties the flag of the localization to its state.         *)
(***************************************************************************)
EXTENDS ExecutionPauses, MissionRunner_proofs

\* The localization holds a mission only while it is lost or being recovered.
PauseInv ==
    /\ PauseTypeOK
    /\ localization_paused_mission => RecoveringFromLocalizationLoss

\* What a pause does to the runner: it leaves it alone, pauses or resumes it.
ControlStep == UNCHANGED vars \/ \E pause \in BOOLEAN, state \in State : Control(pause, state)

LEMMA PauseCases ==
    ASSUME PauseTypeOK, [PauseNext]_pauseVars
    PROVE  [Next]_vars \/ ControlStep
<1>1. /\ "RUNNING" \in State /\ "LOCALIZATION_LOST" \in State /\ "SAFETY_BLOCKED" \in State
      /\ TRUE \in BOOLEAN /\ FALSE \in BOOLEAN
  BY DEF State
<1>2. CASE Pose
  BY <1>1, <1>2 DEF Pose, PoseLost, PoseGood, ResumeAfterLocalization, ControlStep
<1>3. CASE LocalizationService
  BY <1>1, <1>3 DEF LocalizationService, RequestRelocalization, SetInitialPoseFromStation, ControlStep
<1>4. CASE BlockageService
  BY <1>1, <1>4 DEF BlockageService, ReportObstacleBlockage, ClearObstacleBlockage, ControlStep
<1>5. CASE UNCHANGED pauseVars
  BY <1>5 DEF pauseVars
<1> QED
  BY <1>2, <1>3, <1>4, <1>5 DEF PauseNext

\* A pause or a resume keeps the invariant of the runner.
LEMMA ControlKeepsRunnerInv == RunnerInv /\ ControlStep => RunnerInv'
<1> SUFFICES ASSUME RunnerInv, NEW pause \in BOOLEAN, NEW state \in State, Control(pause, state)
             PROVE  RunnerInv'
  BY RunnerInvStep DEF ControlStep
<1>1. CoreInv /\ UNCHANGED trafficVars
  BY DEF RunnerInv, TypeOK, CoreInv, Control
<1>2. FlagsTyped'
  BY <1>1 DEF Control, CoreInv, RunnerTypeOK, FlagsTyped, queueVars, goalVars, recoveryVars
<1>3. CoreInv'
  BY <1>1, <1>2, QuietStep DEF Control, queueVars, goalVars, CoreInv, ActiveInv
<1>4. TrafficInv'
  BY <1>1, TrafficInvStep DEF RunnerInv
<1> QED
  BY <1>3, <1>4 DEF RunnerInv, CoreInv, TypeOK, TrafficInv

LEMMA PauseInvInit == PauseInit => RunnerInv /\ PauseInv
  BY RunnerInvInit DEF PauseInit, PauseInv, PauseTypeOK, LocalizationState

LEMMA PauseInvStep == PauseInv /\ [PauseNext]_pauseVars => PauseInv'
<1> SUFFICES ASSUME PauseInv, [PauseNext]_pauseVars PROVE PauseInv'
  OBVIOUS
<1> USE DEF PauseInv, PauseTypeOK, RecoveringFromLocalizationLoss, LocalizationState
<1>1. CASE Pose \/ LocalizationService
  <2>1. UNCHANGED <<safety_obstacle_blocked, safety_blockage_paused_mission>>
    BY <1>1 DEF Pose, PoseLost, PoseGood, LocalizationService, RequestRelocalization,
                SetInitialPoseFromStation, safetyVars
  <2>2. \/ localization_state' = "LOST"
           /\ localization_paused_mission' \in {TRUE, localization_paused_mission}
        \/ localization_state' \in {"OK", "RECOVERED"} /\ localization_paused_mission' = FALSE
        \/ localization_state' = "RELOCALIZING"
           /\ localization_paused_mission' = localization_paused_mission
    BY <1>1 DEF Pose, PoseLost, PoseGood, LocalizationService, RequestRelocalization,
                SetInitialPoseFromStation
  <2> QED
    BY <2>1, <2>2
<1>2. ASSUME NEW b \in BOOLEAN, ReportObstacleBlockage(b)
      PROVE  PauseInv'
  <2>1. safety_blockage_paused_mission' \in BOOLEAN
    BY <1>2 DEF ReportObstacleBlockage
  <2> QED
    BY <1>2, <2>1 DEF ReportObstacleBlockage, localizationVars
<1>3. ASSUME NEW b \in BOOLEAN, ClearObstacleBlockage(b)
      PROVE  PauseInv'
  BY <1>3 DEF ClearObstacleBlockage, localizationVars
<1>4. CASE UNCHANGED <<localizationVars, safetyVars>>
  BY <1>4 DEF localizationVars, safetyVars
<1> QED
  BY <1>1, <1>2, <1>3, <1>4 DEF PauseNext, BlockageService, pauseVars

\* The runner's own invariant - one mission at a time, no id queued twice, no lock
\* outside the table - holds under the pauses too, and no flag says that the
\* localization or an obstacle holds a mission when neither is in its way.
THEOREM PauseInvariance == PauseSpec => [](RunnerInv /\ PauseInv)
<1>1. RunnerInv /\ PauseInv /\ [PauseNext]_pauseVars => RunnerInv' /\ PauseInv'
  BY PauseInvStep, PauseCases, RunnerInvStep, ControlKeepsRunnerInv DEF PauseInv
<1> QED
  BY <1>1, PauseInvInit, PTL DEF PauseSpec

\* With the pauses of the localization and of obstacles in between, a mission whose
\* cancellation was requested still ends as canceled or with ERROR, not recovered.
THEOREM CanceledMissionsEndWithPauses == PauseSpec => CanceledIsNotRecovered
<1>1. RunnerInv /\ PauseInv /\ [PauseNext]_pauseVars
        => [mission_active /\ cancellation_requested
              /\ (~mission_active' \/ profile' \notin {profile, None})
              => /\ current_state' \in {"CANCELED", "ERROR"}
                 /\ mission_queue' = mission_queue]_vars
  <2>1. ControlStep => UNCHANGED <<mission_active, profile>>
    BY DEF ControlStep, Control, vars, profileVars, goalVars
  <2> QED
    BY <2>1, PauseCases, CanceledStep DEF PauseInv
<1> QED
  BY <1>1, PauseInvariance, PTL DEF PauseSpec, CanceledIsNotRecovered

\* Beside the pause flag and the shown state a pause changes nothing of the runner.
LEMMA ControlIsQuiet ==
    ASSUME ControlStep
    PROVE  /\ UNCHANGED <<mission_queue, profile, mission_active, trafficVars>>
           /\ ActiveMission' = ActiveMission /\ Live' = Live
           /\ Stalled' = Stalled /\ Orphans' = Orphans
           /\ \A m \in Mission : OwnedBy(m)' = OwnedBy(m)
<1>1. /\ UNCHANGED <<mission_queue, profile, mission_active, trafficVars>>
      /\ UNCHANGED <<queue_running, queue_start_requested>>
  BY DEF ControlStep, Control, vars, queueVars, profileVars, goalVars
<1>2. ActiveMission' = ActiveMission /\ Live' = Live /\ Stalled' = Stalled
  BY <1>1 DEF ActiveMission, Live, QueuedIds, Stalled
<1>3. \A m \in Mission : OwnedBy(m)' = OwnedBy(m)
  BY <1>1 DEF trafficVars, OwnedBy
<1>4. Orphans' = Orphans
  BY <1>2, <1>3 DEF Orphans
<1> QED
  BY <1>1, <1>2, <1>3, <1>4

\* The pauses leave the route locks to the runner: with them it implements the table
\* of route reservations.
THEOREM PausesImplementTraffic == PauseSpec => ImplementsTraffic
<1>1. PauseInit => TrafficInit
  BY DEF PauseInit, Init
<1>2. RunnerInv /\ PauseInv /\ [PauseNext]_pauseVars => [TrafficNext]_trafficVars
  BY PauseCases, ControlIsQuiet, TrafficStep DEF PauseInv, RunnerInv
<1> QED
  BY <1>1, <1>2, PauseInvariance, PTL DEF PauseSpec, ImplementsTraffic, TrafficSpec

\* So a mission that is held by a pause is still a client of the reservation service:
\* nobody takes its route, and none of it is given back before the rest.
THEOREM PausesImplementReservations == PauseSpec => ImplementsReservations
  BY PausesImplementTraffic, TableImplementsReservations, PTL DEF ImplementsTraffic

\* No pause and no resume starts a queued mission of a paused workflow.
THEOREM PausesKeepPausedMissions == PauseSpec => PausedMissionsAreNotStarted
<1>1. ASSUME RunnerInv, PauseInv, [PauseNext]_pauseVars, NEW m \in QueuedIds,
             BelongsToPausedWorkflow(m)
      PROVE  m \notin ActiveMission'
  <2>1. m \notin ActiveMission
    BY <1>1 DEF RunnerInv, ActiveInv
  <2> QED
    BY <1>1, <2>1, PausedStep, PauseCases, ControlIsQuiet DEF PauseInv
<1>2. RunnerInv /\ PauseInv /\ [PauseNext]_pauseVars
        => [\A m \in QueuedIds : BelongsToPausedWorkflow(m) => m \notin ActiveMission']_vars
  BY <1>1
<1> QED
  BY <1>2, PauseInvariance, PTL DEF PauseSpec, PausedMissionsAreNotStarted

\* No pose and no obstacle stops the queue unseen.
THEOREM PausesShowStalls == PauseSpec => StallIsShown
<1>1. RunnerInv /\ PauseInv /\ [PauseNext]_pauseVars
        => [AutoStartQueue /\ Stalled'
              => Stalled \/ current_state' \in {"ERROR", "WORKFLOW_PAUSED"}]_vars
  BY StallStep, PauseCases, ControlIsQuiet DEF PauseInv
<1> QED
  BY <1>1, PauseInvariance, PTL DEF PauseSpec, StallIsShown

\* A mission that is held by the localization or an obstacle when it ends leaves no
\* locks behind.
THEOREM PausesReleaseLocks == PauseSpec => LocksAreLeakedOnlyByErrors
<1>1. PauseInit => OrdersOwn
  BY OrdersOwnInit DEF PauseInit
<1>2. RunnerInv /\ PauseInv /\ OrdersOwn /\ [PauseNext]_pauseVars => OrdersOwn'
  BY OrdersOwnStep, PauseCases, ControlIsQuiet DEF PauseInv, OrdersOwn
<1>3. RunnerInv /\ PauseInv /\ OrdersOwn /\ [PauseNext]_pauseVars
        => [Orphans' \subseteq Orphans \/ current_state' = "ERROR"]_vars
  BY OrphansStep, PauseCases, ControlIsQuiet DEF PauseInv
<1> QED
  BY <1>1, <1>2, <1>3, PauseInvariance, PTL DEF PauseSpec, LocksAreLeakedOnlyByErrors

\* Nor does it lose its route while it is held.
THEOREM PausesKeepRoutes == PauseSpec => LiveOrderKeepsItsRoute
<1>1. RunnerInv /\ PauseInv /\ [PauseNext]_pauseVars
        => [\A m \in StationOrder :
              /\ m \in Live /\ OwnedBy(m) # {}
              /\ m \in Live' /\ OwnedBy(m)' # OwnedBy(m)
              => \/ TrafficService
                 \/ m \in ActiveMission /\ current_state' = "RECOVERING"
                 \/ m \in ActiveMission /\ \E o \in Order : CancelWorkflow(o, TRUE)]_vars
  BY LiveRouteStep, PauseCases, ControlIsQuiet, MissionRunnerAssumption DEF PauseInv
<1> QED
  BY <1>1, PauseInvariance, PTL DEF PauseSpec, LiveOrderKeepsItsRoute

\* The localization gives its flag up only together with the pause it stands for.
THEOREM LocalizationEndsItsPause == PauseSpec => LocalizationPauseIsEnded
<1>1. PauseInv /\ [PauseNext]_pauseVars
        => [localization_paused_mission /\ ~localization_paused_mission' /\ mission_active
              => ~paused']_pauseVars
  <2> SUFFICES ASSUME PauseInv, [PauseNext]_pauseVars,
                      localization_paused_mission, ~localization_paused_mission', mission_active
               PROVE  ~paused'
    OBVIOUS
  <2>1. RecoveringFromLocalizationLoss
    BY DEF PauseInv
  <2>2. ResumeAfterLocalization => ~paused' \/ (UNCHANGED vars /\ ~paused)
    BY <2>1 DEF ResumeAfterLocalization, Control
  <2>3. ASSUME UNCHANGED vars, ~paused PROVE ~paused'
    BY <2>3 DEF vars, controlVars
  <2> QED
    BY <2>2, <2>3 DEF PauseNext, Pose, PoseLost, PoseGood, LocalizationService, RequestRelocalization,
                      SetInitialPoseFromStation, BlockageService, ReportObstacleBlockage,
                      ClearObstacleBlockage, Control, localizationVars, pauseVars
<1> QED
  BY <1>1, PauseInvariance, PTL DEF PauseSpec, LocalizationPauseIsEnded
=============================================================================
