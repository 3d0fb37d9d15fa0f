---------------------------- MODULE MissionRunner ----------------------------
(***************************************************************************)
(* The mission runner node: a priority queue of missions, at most one      *)
(* mission handed to the navigate-sequence action server, pause and cancel *)
(* requests, workflow pausing, failure recovery, return to dock, and the   *)
(* route locks of station orders.  The node spins on one thread            *)
(* (rclcpp::spin), so every service handler, action callback and timer     *)
(* tick is one atomic step (robot_tasks/src/mission_runner_node.cpp).      *)
(***************************************************************************)
EXTENDS RouteLocks

CONSTANTS
    FileMission,      \* missions loaded from a mission file
    StationOrder,     \* station_order_<id>: missions that reserve their route
    TransportOrder,   \* transport_order_<id>: missions built from coordinates
    DefaultMission,   \* the mission of parameter mission_file
    DockMission,      \* the mission of parameter dock_mission_file
    PathOf,           \* route path from the pickup to the dropoff of an order
    Order,            \* workflow orders
    Legs,             \* station sequence of an order: its leg missions
    WorkflowOf,       \* the workflow order a mission belongs to, or None
    None,
    Priority,         \* priorities a client may ask for
    DockPriority, RecoveryPriority,
    RecoveryPolicy, RetryLimit,
    AutoStartQueue, ReturnToDockAfterMission, ReturnToDockOnLowBattery,
    MaxSequence       \* bound on the queue entries ever created

RetryPolicies == {"retry", "retry_only", "retry_then_dock", "retry_then_manual"}

ASSUME MissionRunnerAssumption ==
    /\ FileMission \subseteq Mission
    /\ StationOrder \subseteq Mission \ FileMission
    /\ TransportOrder \subseteq Mission \ FileMission
    /\ DefaultMission \in FileMission /\ DockMission \in FileMission
    /\ PathOf \in [StationOrder -> Path]
    /\ Legs \in [Order -> Seq(Mission \ (FileMission \cup StationOrder \cup TransportOrder))]
    /\ \A o \in Order : \A i, j \in DOMAIN Legs[o] : Legs[o][i] = Legs[o][j] => i = j
    /\ \A o \in Order : \A i \in DOMAIN Legs[o] : WorkflowOf[Legs[o][i]] = o
    /\ None \notin Mission /\ None \notin Order /\ None \notin {TrafficBlock, Free}
    /\ WorkflowOf \in [Mission -> Order \cup {None}]
    /\ Priority \subseteq Int /\ DockPriority \in Int /\ RecoveryPriority \in Int
    /\ RecoveryPolicy \in RetryPolicies \cup {"dock", "manual", "none"}
    /\ RetryLimit \in Nat /\ MaxSequence \in Nat
    /\ {AutoStartQueue, ReturnToDockAfterMission, ReturnToDockOnLowBattery} \subseteq BOOLEAN

VARIABLES
    mission_queue,           \* set of entries, ordered by Before
    next_queue_sequence,
    queue_running,
    queue_start_requested,
    paused_workflow_orders,
    profile,                 \* mission of profile_, None when nothing is loaded
    mission_file,            \* the mission the loaded mission_file_ describes
    mission_active,
    paused,
    cancellation_requested,
    goal_handle,             \* the server accepted the goal of the active mission
    current_failure_retry_count,
    active_recovery_mission_id,
    low_battery_dock_request_sent,
    current_state            \* the state shown to operators

queueVars    == <<mission_queue, next_queue_sequence, queue_running, queue_start_requested>>
profileVars  == <<profile, mission_file>>
goalVars     == <<mission_active, goal_handle>>
controlVars  == <<paused, cancellation_requested>>
recoveryVars == <<current_failure_retry_count, active_recovery_mission_id>>
vars == <<queueVars, paused_workflow_orders, profileVars, goalVars, controlVars, recoveryVars,
          low_battery_dock_request_sent, current_state, trafficVars>>

State == {"READY", "QUEUED", "STARTING", "RUNNING", "PAUSED", "CANCELING", "CANCELED", "FINISHED",
          "FAILED", "RECOVERING", "NEEDS_OPERATOR", "WORKFLOW_PAUSED", "LOCALIZATION_LOST",
          "SAFETY_BLOCKED", "ERROR"}
QueueEntry == [id : Mission, priority : Int, sequence : Nat]

RunnerTypeOK ==
    /\ mission_queue \subseteq QueueEntry
    /\ next_queue_sequence \in Nat
    /\ paused_workflow_orders \subseteq Order
    /\ profile \in Mission \cup {None}
    /\ mission_file \in Mission
    /\ {queue_running, queue_start_requested, mission_active, paused, cancellation_requested,
        goal_handle, low_battery_dock_request_sent} \subseteq BOOLEAN
    /\ current_failure_retry_count \in Nat
    /\ active_recovery_mission_id \in Mission \cup {None}
    /\ current_state \in State

TypeOK == RunnerTypeOK /\ TrafficTypeOK

Init ==
    /\ mission_queue = {}
    /\ next_queue_sequence = 0
    /\ queue_running = FALSE /\ queue_start_requested = FALSE
    /\ paused_workflow_orders = {}
    /\ profile = DefaultMission /\ mission_file = DefaultMission
    /\ mission_active = FALSE /\ goal_handle = FALSE
    /\ paused = FALSE /\ cancellation_requested = FALSE
    /\ current_failure_retry_count = 0 /\ active_recovery_mission_id = None
    /\ low_battery_dock_request_sent = FALSE
    /\ current_state = "READY"
    /\ TrafficInit
-----------------------------------------------------------------------------
(* The queue.  Entries carry distinct sequence numbers, so the vector that  *)
(* SortMissionQueue keeps is the set of entries listed in the order Before. *)

\* Faulty: the newest entry of a priority comes first.
FaultyBefore(a, b) ==
    a.priority > b.priority \/ (a.priority = b.priority /\ a.sequence > b.sequence)

Before(a, b) ==
    a.priority > b.priority \/ (a.priority = b.priority /\ a.sequence < b.sequence)

QueuedIds == {e.id : e \in mission_queue}

ActiveMission == IF mission_active THEN {profile} \ {None} ELSE {}

\* Faulty: the active mission is forgotten.
FaultyMissionIdActiveOrQueued(m) == m \in QueuedIds

MissionIdActiveOrQueued(m) == m \in ActiveMission \cup QueuedIds

BelongsToPausedWorkflow(m) == WorkflowOf[m] \in paused_workflow_orders

\* Faulty: paused workflows are not skipped.
FaultyRunnable == mission_queue

Runnable == {e \in mission_queue : ~BelongsToPausedWorkflow(e.id)}

NextRunnable == {e \in Runnable : \A f \in Runnable \ {e} : Before(e, f)}

Entry(m, priority, sequence) == [id |-> m, priority |-> priority, sequence |-> sequence]

SequenceLeft(n) == next_queue_sequence + n <= MaxSequence

PushEntries(entries, n) ==
    /\ SequenceLeft(n)
    /\ mission_queue' = mission_queue \cup entries
    /\ next_queue_sequence' = next_queue_sequence + n

SetStateIfIdle(state) == current_state' = IF mission_active THEN current_state ELSE state
-----------------------------------------------------------------------------
(* Steps shared by the handlers.                                           *)

\* What the cancel request does at the action server is modelled there
\* (NavigateSequenceServer, CancelGoal).
RequestActiveMissionCancel ==
    /\ cancellation_requested' = TRUE
    /\ paused' = FALSE
    /\ current_state' = "CANCELING"

\* AdmitQueuedMissions: push, sort, apply the start policy, show the new state.
AdmitQueuedMissions(entries, n, start_if_idle, preempt_current, set_state_when_idle) ==
    LET preempts == preempt_current /\ mission_active
        starts   == preempts \/ (start_if_idle /\ ~mission_active)
    IN  /\ PushEntries(entries, n)
        /\ queue_running' = (queue_running \/ starts)
        /\ queue_start_requested' = (queue_start_requested \/ starts)
        /\ \/ preempts /\ RequestActiveMissionCancel
           \/ /\ ~preempts
              /\ IF set_state_when_idle THEN SetStateIfIdle("QUEUED") ELSE UNCHANGED current_state
              /\ UNCHANGED controlVars
        /\ UNCHANGED <<paused_workflow_orders, profileVars, goalVars, recoveryVars,
                       low_battery_dock_request_sent>>

\* DispatchMission with profile_ = m: the goal is sent, unless the action
\* server does not answer within server_timeout_ms.
DispatchMission(m) ==
    /\ profile' = m /\ mission_file' = m
    /\ paused' = FALSE /\ cancellation_requested' = FALSE
    /\ goal_handle' = FALSE
    /\ active_recovery_mission_id' = m
    /\ current_failure_retry_count' =
           IF active_recovery_mission_id = m THEN current_failure_retry_count ELSE 0
    /\ \/ mission_active' = TRUE /\ current_state' = "STARTING"
       \/ mission_active' = FALSE /\ current_state' = "ERROR"

\* StartNextQueuedMission, entered with the given queue flags.
StartNextQueuedMission(running, requested) ==
    \/ /\ mission_queue = {}
       /\ queue_running' = FALSE /\ queue_start_requested' = requested
       /\ UNCHANGED <<mission_queue, profileVars, goalVars, controlVars, recoveryVars,
                      current_state>>
    \/ /\ mission_queue # {} /\ Runnable = {}
       /\ queue_running' = running /\ queue_start_requested' = FALSE
       /\ current_state' = "WORKFLOW_PAUSED"
       /\ UNCHANGED <<mission_queue, profileVars, goalVars, controlVars, recoveryVars>>
    \/ \E e \in NextRunnable :
          /\ queue_running' = running /\ queue_start_requested' = requested
          /\ mission_queue' = mission_queue \ {e}
          /\ DispatchMission(e.id)

QueueDockMission ==
    PushEntries({Entry(DockMission, DockPriority, next_queue_sequence)}, 1)

\* RequestDockReturn; the dock mission file is assumed to load.
RequestDockReturn ==
    \/ /\ MissionIdActiveOrQueued(DockMission)
       /\ UNCHANGED <<queueVars, profileVars, goalVars, controlVars, recoveryVars, current_state>>
    \/ /\ ~MissionIdActiveOrQueued(DockMission) /\ mission_active
       /\ QueueDockMission
       /\ queue_running' = TRUE /\ queue_start_requested' = TRUE
       /\ RequestActiveMissionCancel
       /\ UNCHANGED <<profileVars, goalVars, recoveryVars>>
    \/ /\ ~MissionIdActiveOrQueued(DockMission) /\ ~mission_active
       /\ queue_running' = FALSE /\ queue_start_requested' = FALSE
       /\ DispatchMission(DockMission)
       /\ UNCHANGED <<mission_queue, next_queue_sequence>>
-----------------------------------------------------------------------------
(* Mission services.                                                       *)

LoadProfile ==
    /\ profile' = IF mission_file \in FileMission THEN mission_file ELSE None
    /\ current_state' = IF mission_file \in FileMission THEN "READY" ELSE "ERROR"
    /\ UNCHANGED <<queueVars, paused_workflow_orders, mission_file, goalVars, controlVars,
                   recoveryVars, low_battery_dock_request_sent, trafficVars>>

StartMission ==
    /\ ~mission_active
    /\ \/ /\ mission_queue # {}
          /\ StartNextQueuedMission(TRUE, queue_start_requested)
       \/ /\ mission_queue = {} /\ profile # None
          /\ DispatchMission(profile)
          /\ UNCHANGED <<mission_queue, queue_running, queue_start_requested>>
       \/ /\ mission_queue = {} /\ profile = None
          /\ current_state' = "ERROR"
          /\ paused' = FALSE /\ cancellation_requested' = FALSE /\ goal_handle' = FALSE
          /\ UNCHANGED <<mission_queue, queue_running, queue_start_requested, profileVars,
                         mission_active, recoveryVars>>
    /\ UNCHANGED <<next_queue_sequence, paused_workflow_orders, low_battery_dock_request_sent,
                   trafficVars>>

EnqueueMission(m, priority, start_if_idle) ==
    /\ m \in FileMission \cup TransportOrder
    /\ ~MissionIdActiveOrQueued(m)
    /\ AdmitQueuedMissions({Entry(m, priority, next_queue_sequence)}, 1, start_if_idle, FALSE, TRUE)
    /\ UNCHANGED trafficVars

\* Faulty: the preempted mission loses its locks before it has stopped.
FaultyPreemptMission(m, priority) ==
    /\ m \in FileMission
    /\ ~MissionIdActiveOrQueued(m)
    /\ AdmitQueuedMissions({Entry(m, priority, next_queue_sequence)}, 1, TRUE, TRUE, FALSE)
    /\ ReleaseRouteLocksForMissions(ActiveMission)

PreemptMission(m, priority) ==
    /\ m \in FileMission
    /\ ~MissionIdActiveOrQueued(m)
    /\ AdmitQueuedMissions({Entry(m, priority, next_queue_sequence)}, 1, TRUE, TRUE, FALSE)
    /\ UNCHANGED trafficVars

SubmitStationTransportOrder(m, priority, start_if_idle, preempt_current) ==
    /\ m \in StationOrder
    /\ ~MissionIdActiveOrQueued(m)
    /\ ReserveRouteLocksForMission(m, BuildRouteLockIds(PathOf[m]))
    /\ AdmitQueuedMissions({Entry(m, priority, next_queue_sequence)}, 1,
                           start_if_idle, preempt_current, TRUE)

SubmitStationSequenceTask(o, priority, start_if_idle, preempt_current) ==
    /\ Legs[o] # <<>>
    /\ \A i \in DOMAIN Legs[o] : ~MissionIdActiveOrQueued(Legs[o][i])
    /\ AdmitQueuedMissions(
           {Entry(Legs[o][i], priority, next_queue_sequence + i - 1) : i \in DOMAIN Legs[o]},
           Len(Legs[o]), start_if_idle, preempt_current, TRUE)
    /\ UNCHANGED trafficVars

PauseMission ==
    /\ mission_active
    /\ paused' = TRUE /\ current_state' = "PAUSED"
    /\ UNCHANGED <<queueVars, paused_workflow_orders, profileVars, goalVars,
                   cancellation_requested, recoveryVars, low_battery_dock_request_sent, trafficVars>>

ResumeMission ==
    /\ mission_active /\ paused
    /\ paused' = FALSE /\ current_state' = "RUNNING"
    /\ UNCHANGED <<queueVars, paused_workflow_orders, profileVars, goalVars,
                   cancellation_requested, recoveryVars, low_battery_dock_request_sent, trafficVars>>

CancelMission ==
    /\ mission_active
    /\ RequestActiveMissionCancel
    /\ UNCHANGED <<queueVars, paused_workflow_orders, profileVars, goalVars, recoveryVars,
                   low_battery_dock_request_sent, trafficVars>>

\* A queued mission is removed and its resources are released; only a mission
\* that is not queued is looked for as the active one.
CancelQueuedMission(m, cancel_active) ==
    /\ \/ /\ m \in QueuedIds
          /\ mission_queue' = {e \in mission_queue : e.id # m}
          /\ ReleaseRouteLocksForMissions({m})
          /\ SetStateIfIdle("QUEUED")
          /\ UNCHANGED controlVars
       \/ /\ m \notin QueuedIds /\ cancel_active /\ m \in ActiveMission
          /\ RequestActiveMissionCancel
          /\ UNCHANGED <<mission_queue, trafficVars>>
    /\ UNCHANGED <<next_queue_sequence, queue_running, queue_start_requested,
                   paused_workflow_orders, profileVars, goalVars, recoveryVars,
                   low_battery_dock_request_sent>>

ReprioritizeQueuedMission(m, priority) ==
    /\ m \in QueuedIds
    /\ mission_queue' = {IF e.id = m THEN [e EXCEPT !.priority = priority] ELSE e :
                            e \in mission_queue}
    /\ SetStateIfIdle("QUEUED")
    /\ UNCHANGED <<next_queue_sequence, queue_running, queue_start_requested,
                   paused_workflow_orders, profileVars, goalVars, controlVars, recoveryVars,
                   low_battery_dock_request_sent, trafficVars>>
-----------------------------------------------------------------------------
(* Workflow control.                                                       *)

QueuedWorkflowMissions(o) == {m \in QueuedIds : WorkflowOf[m] = o}

ActiveWorkflowMission(o) == {m \in ActiveMission : WorkflowOf[m] = o}

\* The resources of the canceled active mission are released at once, before
\* the action server has stopped it.
CancelWorkflow(o, cancel_active) ==
    LET active   == IF cancel_active THEN ActiveWorkflowMission(o) ELSE {}
        canceled == QueuedWorkflowMissions(o) \cup active
    IN  /\ canceled # {}
        /\ mission_queue' = {e \in mission_queue : WorkflowOf[e.id] # o}
        /\ ReleaseRouteLocksForMissions(canceled)
        /\ \/ active # {} /\ RequestActiveMissionCancel
           \/ active = {} /\ SetStateIfIdle("QUEUED") /\ UNCHANGED controlVars
        /\ UNCHANGED <<next_queue_sequence, queue_running, queue_start_requested,
                       paused_workflow_orders, profileVars, goalVars, recoveryVars,
                       low_battery_dock_request_sent>>

PauseWorkflow(o, pause_active) ==
    LET active == IF pause_active THEN ActiveWorkflowMission(o) ELSE {}
    IN  /\ QueuedWorkflowMissions(o) \cup active # {}
        /\ paused_workflow_orders' = paused_workflow_orders \cup {o}
        /\ queue_start_requested' = FALSE
        /\ \/ active # {} /\ paused' = TRUE /\ current_state' = "PAUSED"
           \/ active = {} /\ SetStateIfIdle("WORKFLOW_PAUSED") /\ UNCHANGED paused
        /\ UNCHANGED <<mission_queue, next_queue_sequence, queue_running, profileVars, goalVars,
                       cancellation_requested, recoveryVars, low_battery_dock_request_sent,
                       trafficVars>>

ResumeWorkflow(o, resume_active) ==
    LET active == IF resume_active /\ paused THEN ActiveWorkflowMission(o) ELSE {}
        starts == ~mission_active /\ QueuedWorkflowMissions(o) # {}
    IN  /\ o \in paused_workflow_orders \/ QueuedWorkflowMissions(o) \cup active # {}
        /\ paused_workflow_orders' = paused_workflow_orders \ {o}
        /\ queue_running' = (queue_running \/ starts)
        /\ queue_start_requested' = (queue_start_requested \/ starts)
        /\ \/ active # {} /\ paused' = FALSE /\ current_state' = "RUNNING"
           \/ active = {} /\ UNCHANGED <<paused, current_state>>
        /\ UNCHANGED <<mission_queue, next_queue_sequence, profileVars, goalVars,
                       cancellation_requested, recoveryVars, low_battery_dock_request_sent,
                       trafficVars>>
-----------------------------------------------------------------------------
(* Traffic services: the table's own operations, outside any mission.      *)

TrafficService ==
    /\ \/ \E s, t \in Station : BlockStationRoute(s, t) \/ UnblockStationRoute(s, t)
       \/ \E r \in Resource : ClearTrafficReservation(r)
    /\ UNCHANGED <<queueVars, paused_workflow_orders, profileVars, goalVars, controlVars,
                   recoveryVars, low_battery_dock_request_sent, current_state>>
-----------------------------------------------------------------------------
(* Docking and recovery requests.                                          *)

ReturnToDock ==
    /\ RequestDockReturn
    /\ UNCHANGED <<paused_workflow_orders, low_battery_dock_request_sent, trafficVars>>

\* HandleChassisState with a voltage above the threshold re-arms the request.
HandleBatteryOk ==
    /\ ReturnToDockOnLowBattery
    /\ low_battery_dock_request_sent' = FALSE
    /\ UNCHANGED <<queueVars, paused_workflow_orders, profileVars, goalVars, controlVars,
                   recoveryVars, current_state, trafficVars>>

\* HandleChassisState at or below the threshold, for the first time.
HandleLowBattery ==
    /\ ReturnToDockOnLowBattery
    /\ ~low_battery_dock_request_sent
    /\ low_battery_dock_request_sent' = TRUE
    /\ RequestDockReturn
    /\ UNCHANGED <<paused_workflow_orders, trafficVars>>

ResetMissionRecoveryState ==
    /\ current_failure_retry_count' = 0
    /\ active_recovery_mission_id' = None
    /\ current_state' = IF current_state = "NEEDS_OPERATOR" THEN "READY" ELSE current_state
    /\ UNCHANGED <<queueVars, paused_workflow_orders, profileVars, goalVars, controlVars,
                   low_battery_dock_request_sent, trafficVars>>
-----------------------------------------------------------------------------
(* Callbacks of the action client.                                         *)

GoalAccepted ==
    /\ mission_active /\ ~goal_handle
    /\ goal_handle' = TRUE
    /\ current_state' = "RUNNING"
    /\ UNCHANGED <<queueVars, paused_workflow_orders, profileVars, mission_active, controlVars,
                   recoveryVars, low_battery_dock_request_sent, trafficVars>>

GoalRejected ==
    /\ mission_active /\ ~goal_handle
    /\ mission_active' = FALSE
    /\ current_state' = "ERROR"
    /\ UNCHANGED <<queueVars, paused_workflow_orders, profileVars, goal_handle, controlVars,
                   recoveryVars, low_battery_dock_request_sent, trafficVars>>

Feedback(server_paused) ==
    /\ goal_handle
    /\ paused' = (paused \/ server_paused)
    /\ current_state' = IF paused' THEN "PAUSED" ELSE "RUNNING"
    /\ UNCHANGED <<queueVars, paused_workflow_orders, profileVars, goalVars,
                   cancellation_requested, recoveryVars, low_battery_dock_request_sent, trafficVars>>

\* The docking missions of dock_by_mission_ are added in FacilityRunner.
CompletedDock == profile = DockMission

\* Faulty: the next start has to be requested by hand.
FaultyPostResultQueue(queue_empty, running, requested) ==
    /\ queue_running' = (running /\ ~queue_empty)
    /\ queue_start_requested' = (~queue_empty /\ requested)

\* PlanMissionPostResultQueue on the queue the result branch leaves.
PostResultQueue(queue_empty, running, requested) ==
    /\ queue_running' = (running /\ ~queue_empty)
    /\ queue_start_requested' = (~queue_empty /\ (requested \/ (AutoStartQueue /\ running)))

MissionEnds ==
    /\ goal_handle
    /\ mission_active' = FALSE /\ goal_handle' = FALSE /\ paused' = FALSE

ResultCanceled(canceled_code) ==
    /\ canceled_code \/ cancellation_requested
    /\ MissionEnds
    /\ cancellation_requested' = FALSE
    /\ ReleaseRouteLocksForMissions({profile})
    /\ current_state' = "CANCELED"
    /\ PostResultQueue(mission_queue = {}, queue_running, queue_start_requested)
    /\ UNCHANGED <<mission_queue, next_queue_sequence, paused_workflow_orders, profileVars,
                   recoveryVars, low_battery_dock_request_sent>>

ResultSucceeded(completed_dock) ==
    LET queue_dock == ReturnToDockAfterMission /\ ~completed_dock /\ mission_queue = {}
    IN  /\ ~cancellation_requested
        /\ MissionEnds
        /\ ReleaseRouteLocksForMissions(IF completed_dock THEN {} ELSE {profile})
        /\ current_failure_retry_count' = 0
        /\ \/ /\ queue_dock
              /\ QueueDockMission
              /\ current_state' = "QUEUED"
              /\ PostResultQueue(FALSE, TRUE, TRUE)
           \/ /\ ~queue_dock
              /\ current_state' = "FINISHED"
              /\ PostResultQueue(mission_queue = {}, queue_running, queue_start_requested)
              /\ UNCHANGED <<mission_queue, next_queue_sequence>>
        /\ UNCHANGED <<cancellation_requested, paused_workflow_orders, profileVars,
                       active_recovery_mission_id, low_battery_dock_request_sent>>

RecoveryAction(completed_dock) ==
    CASE RecoveryPolicy = "none" -> "none"
      [] RecoveryPolicy # "none" /\ completed_dock -> "manual"
      [] RecoveryPolicy \in RetryPolicies /\ ~completed_dock
            /\ current_failure_retry_count < RetryLimit -> "retry"
      [] RecoveryPolicy \in {"retry_then_dock", "dock"} /\ ~completed_dock
            /\ ~(RecoveryPolicy \in RetryPolicies
                  /\ current_failure_retry_count < RetryLimit) -> "dock"
      [] OTHER -> "manual"

\* The failed mission goes back to the queue; its route locks are not taken again.
RecoverByRetry(completed_dock) ==
    /\ RecoveryAction(completed_dock) = "retry" /\ profile # None
    /\ MissionEnds
    /\ PushEntries({Entry(profile, RecoveryPriority, next_queue_sequence)}, 1)
    /\ current_failure_retry_count' = current_failure_retry_count + 1
    /\ current_state' = "RECOVERING"
    /\ PostResultQueue(FALSE, TRUE, TRUE)
    /\ UNCHANGED <<profileVars, cancellation_requested, active_recovery_mission_id>>

\* RequestDockReturn after the mission has ended: the dock mission is already
\* queued, or it is dispatched at once and the queue stays stopped.
RecoverByDock(completed_dock) ==
    /\ RecoveryAction(completed_dock) = "dock"
    /\ goal_handle
    /\ UNCHANGED <<mission_queue, next_queue_sequence>>
    /\ \/ /\ DockMission \in QueuedIds
          /\ MissionEnds
          /\ current_state' = "RECOVERING"
          /\ PostResultQueue(FALSE, queue_running, queue_start_requested)
          /\ UNCHANGED <<profileVars, cancellation_requested, recoveryVars>>
       \/ /\ DockMission \notin QueuedIds
          /\ DispatchMission(DockMission)
          /\ queue_running' = FALSE /\ queue_start_requested' = FALSE

\* A retry without a loaded profile falls through to the failed branch.
RecoverByStopping(completed_dock) ==
    /\ \/ RecoveryAction(completed_dock) \in {"none", "manual"}
       \/ RecoveryAction(completed_dock) = "retry" /\ profile = None
    /\ MissionEnds
    /\ current_state' = IF RecoveryAction(completed_dock) = "manual" THEN "NEEDS_OPERATOR"
                                                                   ELSE "FAILED"
    /\ queue_running' = FALSE /\ queue_start_requested' = FALSE
    /\ UNCHANGED <<mission_queue, next_queue_sequence, profileVars, cancellation_requested,
                   recoveryVars>>

HandleMissionFailure(completed_dock) ==
    \/ RecoverByRetry(completed_dock)
    \/ RecoverByDock(completed_dock)
    \/ RecoverByStopping(completed_dock)

\* Faulty: a failure is recovered although a cancellation was requested.
FaultyResultFailed(completed_dock) ==
    /\ ReleaseRouteLocksForMissions({profile})
    /\ HandleMissionFailure(completed_dock)
    /\ UNCHANGED <<paused_workflow_orders, low_battery_dock_request_sent>>

\* Faulty: the locks go, the mission's record of them stays.
FaultyResultFailedRelease(completed_dock) ==
    /\ ~cancellation_requested
    /\ route_locks' = [r \in Resource |-> IF route_locks[r] = profile THEN Free ELSE route_locks[r]]
    /\ UNCHANGED route_locks_by_mission
    /\ HandleMissionFailure(completed_dock)
    /\ UNCHANGED <<paused_workflow_orders, low_battery_dock_request_sent>>

\* Faulty: a failed mission keeps its locks.
FaultyResultFailedNoRelease(completed_dock) ==
    /\ ~cancellation_requested
    /\ UNCHANGED trafficVars
    /\ HandleMissionFailure(completed_dock)
    /\ UNCHANGED <<paused_workflow_orders, low_battery_dock_request_sent>>

ResultFailed(completed_dock) ==
    /\ ~cancellation_requested
    /\ ReleaseRouteLocksForMissions({profile})
    /\ HandleMissionFailure(completed_dock)
    /\ UNCHANGED <<paused_workflow_orders, low_battery_dock_request_sent>>
-----------------------------------------------------------------------------
(* The 200 ms timer; parameter autostart is false.                         *)

Tick ==
    /\ queue_start_requested /\ ~mission_active
    /\ StartNextQueuedMission(queue_running, FALSE)
    /\ UNCHANGED <<next_queue_sequence, paused_workflow_orders, low_battery_dock_request_sent,
                   trafficVars>>
-----------------------------------------------------------------------------
MissionService ==
    \/ LoadProfile \/ StartMission \/ PauseMission \/ ResumeMission \/ CancelMission
    \/ \E m \in Mission : \E p \in Priority :
          \/ \E start \in BOOLEAN : EnqueueMission(m, p, start)
          \/ PreemptMission(m, p)
          \/ \E start, preempt \in BOOLEAN : SubmitStationTransportOrder(m, p, start, preempt)
    \/ \E m \in Mission : \E cancel_active \in BOOLEAN : CancelQueuedMission(m, cancel_active)

PriorityService == \E m \in Mission, p \in Priority : ReprioritizeQueuedMission(m, p)

WorkflowService ==
    \E o \in Order :
        \/ \E p \in Priority : \E start, preempt \in BOOLEAN :
              SubmitStationSequenceTask(o, p, start, preempt)
        \/ \E active \in BOOLEAN :
              CancelWorkflow(o, active) \/ PauseWorkflow(o, active) \/ ResumeWorkflow(o, active)

DockService == ReturnToDock \/ HandleBatteryOk \/ HandleLowBattery \/ ResetMissionRecoveryState

GoalResponse == GoalAccepted \/ GoalRejected

GoalResult ==
    \/ ResultSucceeded(CompletedDock) \/ ResultFailed(CompletedDock)
    \/ \E code \in BOOLEAN : ResultCanceled(code)

\* Everything but the service with which an operator changes the order of the queue.
NextInQueueOrder ==
    \/ MissionService \/ WorkflowService \/ TrafficService \/ DockService
    \/ GoalResponse \/ \E p \in BOOLEAN : Feedback(p)
    \/ GoalResult \/ Tick

Next == NextInQueueOrder \/ PriorityService

Spec == Init /\ [][Next]_vars

\* The services without reprioritize_queued_mission, with which an operator may
\* put the legs of a sequence into any order.
SpecWithoutReprioritize == Init /\ [][NextInQueueOrder]_vars
-----------------------------------------------------------------------------
Live == ActiveMission \cup QueuedIds

\* A mission id is known at most once: admission, retry and dock return never
\* queue a mission that is queued already or that is being executed.
UniqueMission ==
    /\ \A e, f \in mission_queue : e.id = f.id => e = f
    /\ ActiveMission \cap QueuedIds = {}

\* Sequence numbers are never given twice, so equal priorities keep the order
\* of admission and SortMissionQueue has one result.
UniqueSequence ==
    /\ \A e, f \in mission_queue : e.sequence = f.sequence => e = f
    /\ \A e \in mission_queue : e.sequence < next_queue_sequence

\* The inductive invariant of the runner: the queue keeps ids and sequence
\* numbers apart, what is active is what is loaded (unless a reload failed) and
\* is not queued, and the route locks keep the invariant of their table.
QueueInv ==
    /\ \A e, f \in mission_queue : e.id = f.id => e = f
    /\ UniqueSequence

ActiveInv ==
    /\ goal_handle => mission_active
    /\ mission_active => \/ profile = mission_file
                         \/ profile = None /\ mission_file \notin FileMission
    /\ ActiveMission \cap QueuedIds = {}

RunnerInv == TypeOK /\ QueueInv /\ ActiveInv /\ TrafficInv

\* The route locks of the runner are the table of RouteLocks: whatever a handler
\* does to them is one of the table's operations.
ImplementsTraffic == TrafficSpec

\* Locks of a mission that is neither queued nor active.
Orphans == {m \in Mission : OwnedBy(m) # {} /\ m \notin Live}

\* A mission leaves its locks behind only where the code gives the mission up
\* with state ERROR: a rejected goal, an unavailable server, a failed reload.
\* Every other end (result, cancel, preemption, dock return) releases them.
LocksAreLeakedOnlyByErrors ==
    [][Orphans' \subseteq Orphans \/ current_state' = "ERROR"]_vars

\* A live station order keeps its route until it ends.  Only an operator who
\* clears the reservation, the release that precedes a retry and the early
\* release of cancel_workflow take it away before.
LiveOrderKeepsItsRoute ==
    [][\A m \in StationOrder :
          /\ m \in Live /\ OwnedBy(m) # {}
          /\ m \in Live' /\ OwnedBy(m)' # OwnedBy(m)
          => \/ TrafficService
             \/ m \in ActiveMission /\ current_state' = "RECOVERING"
             \/ m \in ActiveMission /\ \E o \in Order : CancelWorkflow(o, TRUE)]_vars

\* The queue is meant to run, no mission is active and no start is requested.
Stalled == queue_running /\ ~mission_active /\ ~queue_start_requested

\* With auto_start_queue a running queue never stops silently: it stalls only
\* in a step that shows ERROR or WORKFLOW_PAUSED.
StallIsShown ==
    [][AutoStartQueue /\ Stalled'
          => Stalled \/ current_state' \in {"ERROR", "WORKFLOW_PAUSED"}]_vars

\* A mission whose cancellation was requested ends as canceled (or is lost with
\* ERROR): a late success does not queue the dock, a late failure no retry.
CanceledIsNotRecovered ==
    [][mission_active /\ cancellation_requested /\ (~mission_active' \/ profile' \notin {profile, None})
          => /\ current_state' \in {"CANCELED", "ERROR"}
             /\ mission_queue' = mission_queue]_vars

\* No way to start the queue starts a queued mission of a paused workflow.
PausedMissionsAreNotStarted ==
    [][\A m \in QueuedIds : BelongsToPausedWorkflow(m) => m \notin ActiveMission']_vars

\* A leg of a station sequence is not started while an earlier leg is queued.
LegsInOrder ==
    \A o \in Order : \A i, j \in DOMAIN Legs[o] :
        i < j /\ Legs[o][j] \in ActiveMission => Legs[o][i] \notin QueuedIds
=============================================================================
