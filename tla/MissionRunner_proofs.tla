------------------------- MODULE MissionRunner_proofs -------------------------
(***************************************************************************)
(* Proofs about the mission runner.  RunnerInv is inductive: the queue     *)
(* keeps ids and sequence numbers apart (QueueInv), what is active is what *)
(* is loaded and is not queued (ActiveInv), and every step leaves the      *)
(* route locks alone or is an operation of their table (TrafficInv).       *)
(***************************************************************************)
EXTENDS MissionRunner, RouteLocks_proofs

-----------------------------------------------------------------------------
(* The route locks.                                                        *)

\* A release for the loaded profile is a release of the table, or no change
\* when the profile was lost in a reload.
LEMMA ReleaseLoaded ==
    ASSUME TrafficTypeOK, NEW m \in Mission \cup {None}, ReleaseRouteLocksForMissions({m})
    PROVE  [TrafficNext]_trafficVars
<1>1. CASE m \in Mission
  BY <1>1 DEF TrafficNext
<1>2. CASE m = None
  <2>1. \A r \in Resource : route_locks[r] # None
    BY MissionRunnerAssumption DEF TrafficTypeOK, Owner
  <2>2. route_locks' = route_locks
    BY <1>2, <2>1 DEF TrafficTypeOK, ReleaseRouteLocksForMissions
  <2>3. route_locks_by_mission' = route_locks_by_mission
    BY <1>2, MissionRunnerAssumption DEF TrafficTypeOK, ReleaseRouteLocksForMissions
  <2> QED
    BY <2>2, <2>3 DEF trafficVars
<1> QED
  BY <1>1, <1>2

LEMMA ReleaseNone ==
    ASSUME TrafficTypeOK, ReleaseRouteLocksForMissions({})
    PROVE  [TrafficNext]_trafficVars
  BY DEF TrafficNext

LEMMA TrafficStep == TypeOK /\ [Next]_vars => [TrafficNext]_trafficVars
<1> SUFFICES ASSUME TypeOK, [Next]_vars PROVE [TrafficNext]_trafficVars
  OBVIOUS
<1> USE DEF TypeOK
<1>1. CASE UNCHANGED vars
  BY <1>1 DEF vars
<1>2. CASE MissionService
  <2>1. ASSUME NEW m \in Mission, NEW p \in Priority, NEW start \in BOOLEAN,
               NEW preempt \in BOOLEAN, SubmitStationTransportOrder(m, p, start, preempt)
        PROVE  TrafficNext
    BY <2>1, MissionRunnerAssumption DEF SubmitStationTransportOrder, TrafficNext
  <2>2. ASSUME NEW m \in Mission, NEW cancel_active \in BOOLEAN,
               CancelQueuedMission(m, cancel_active)
        PROVE  [TrafficNext]_trafficVars
    BY <2>2, ReleaseLoaded DEF CancelQueuedMission, trafficVars
  <2> QED
    BY <1>2, <2>1, <2>2
       DEF MissionService, LoadProfile, StartMission, PauseMission, ResumeMission, CancelMission,
           EnqueueMission, PreemptMission, trafficVars
<1>3. CASE WorkflowService
  <2>1. ASSUME NEW o \in Order, NEW cancel_active \in BOOLEAN, CancelWorkflow(o, cancel_active)
        PROVE  TrafficNext
    <3>1. QueuedWorkflowMissions(o) \subseteq Mission /\ ActiveWorkflowMission(o) \subseteq Mission
      BY DEF RunnerTypeOK, QueueEntry, QueuedWorkflowMissions, QueuedIds, ActiveWorkflowMission,
             ActiveMission
    <3> QED
      BY <2>1, <3>1 DEF CancelWorkflow, TrafficNext
  <2> QED
    BY <1>3, <2>1
       DEF WorkflowService, SubmitStationSequenceTask, PauseWorkflow, ResumeWorkflow, trafficVars
<1>4. CASE TrafficService
  BY <1>4 DEF TrafficService, TrafficNext
<1>5. CASE DockService
  BY <1>5 DEF DockService, ReturnToDock, HandleBatteryOk, HandleLowBattery,
              ResetMissionRecoveryState, trafficVars
<1>6. CASE GoalResponse
  BY <1>6 DEF GoalResponse, GoalAccepted, GoalRejected, trafficVars
<1>7. ASSUME NEW p \in BOOLEAN, Feedback(p)
      PROVE  [TrafficNext]_trafficVars
  BY <1>7 DEF Feedback, trafficVars
<1>8. CASE GoalResult
  <2>1. profile \in Mission \cup {None}
    BY DEF RunnerTypeOK
  <2>2. CASE ReleaseRouteLocksForMissions({profile})
    BY <2>1, <2>2, ReleaseLoaded
  <2>3. CASE ReleaseRouteLocksForMissions({})
    BY <2>3, ReleaseNone
  <2> QED
    BY <1>8, <2>2, <2>3 DEF GoalResult, ResultSucceeded, ResultFailed, ResultCanceled
<1>9. CASE Tick
  BY <1>9 DEF Tick, trafficVars
<1>10. CASE PriorityService
  BY <1>10 DEF PriorityService, ReprioritizeQueuedMission, trafficVars
<1> QED
  BY <1>1, <1>2, <1>3, <1>4, <1>5, <1>6, <1>7, <1>8, <1>9, <1>10 DEF Next, NextInQueueOrder
-----------------------------------------------------------------------------
(* The queue.                                                              *)

QueueTyped == mission_queue \subseteq QueueEntry /\ next_queue_sequence \in Nat

\* A step that only removes entries.
LEMMA ShrinkKeepsQueue ==
    ASSUME QueueTyped, QueueInv, mission_queue' \subseteq mission_queue,
           next_queue_sequence' = next_queue_sequence
    PROVE  QueueTyped' /\ QueueInv'
  BY DEF QueueTyped, QueueInv, UniqueSequence

\* One mission that is not queued yet gets the next sequence number.
LEMMA PushKeepsQueue ==
    ASSUME QueueTyped, QueueInv, NEW m \in Mission, NEW p \in Int, m \notin QueuedIds,
           PushEntries({Entry(m, p, next_queue_sequence)}, 1)
    PROVE  QueueTyped' /\ QueueInv' /\ QueuedIds' = QueuedIds \cup {m}
<1> DEFINE new == Entry(m, p, next_queue_sequence)
<1>1. /\ mission_queue' = mission_queue \cup {new}
      /\ next_queue_sequence' = next_queue_sequence + 1
  BY DEF PushEntries
<1>2. new \in QueueEntry /\ new.id = m /\ new.sequence = next_queue_sequence
  BY DEF QueueTyped, QueueEntry, Entry
<1>3. QueueTyped'
  BY <1>1, <1>2 DEF QueueTyped
<1>4. \A e \in mission_queue : e.id # m /\ e.sequence \in Nat /\ e.sequence < next_queue_sequence
  BY DEF QueuedIds, QueueInv, UniqueSequence, QueueTyped, QueueEntry
<1>5. QueueInv'
  BY <1>1, <1>2, <1>4 DEF QueueInv, UniqueSequence, QueueTyped
<1>6. QueuedIds' = QueuedIds \cup {m}
  BY <1>1, <1>2 DEF QueuedIds
<1> QED
  BY <1>3, <1>5, <1>6

\* The legs of a sequence get consecutive sequence numbers.
LEMMA LegsKeepQueue ==
    ASSUME QueueTyped, QueueInv, NEW o \in Order, NEW p \in Int,
           \A i \in DOMAIN Legs[o] : Legs[o][i] \notin QueuedIds,
           PushEntries({Entry(Legs[o][i], p, next_queue_sequence + i - 1) : i \in DOMAIN Legs[o]},
                       Len(Legs[o]))
    PROVE  /\ QueueTyped' /\ QueueInv'
           /\ QueuedIds' = QueuedIds \cup {Legs[o][i] : i \in DOMAIN Legs[o]}
<1> DEFINE n == Len(Legs[o])
           leg(i) == Entry(Legs[o][i], p, next_queue_sequence + i - 1)
<1>1. /\ mission_queue' = mission_queue \cup {leg(i) : i \in DOMAIN Legs[o]}
      /\ next_queue_sequence' = next_queue_sequence + n
  BY DEF PushEntries
<1>2. /\ Legs[o] \in Seq(Mission) /\ n \in Nat /\ DOMAIN Legs[o] = 1..n
      /\ \A i, j \in DOMAIN Legs[o] : Legs[o][i] = Legs[o][j] => i = j
  BY MissionRunnerAssumption
<1>3. \A i \in 1..n : /\ leg(i) \in QueueEntry
                      /\ leg(i).id = Legs[o][i] /\ leg(i).sequence = next_queue_sequence + i - 1
  BY <1>2 DEF QueueTyped, QueueEntry, Entry
<1>4. QueueTyped'
  BY <1>1, <1>2, <1>3 DEF QueueTyped
<1>5. \A e \in mission_queue : /\ e.sequence \in Nat /\ e.sequence < next_queue_sequence
                               /\ e.id \in QueuedIds
  BY DEF QueuedIds, QueueInv, UniqueSequence, QueueTyped, QueueEntry
<1>6. ASSUME NEW e \in mission_queue', NEW f \in mission_queue',
             e.id = f.id \/ e.sequence = f.sequence
      PROVE  e = f
  <2>1. CASE e \in mission_queue /\ f \in mission_queue
    BY <1>6, <2>1 DEF QueueInv, UniqueSequence
  <2>2. CASE e \in mission_queue /\ f \notin mission_queue
    <3>1. PICK i \in 1..n : f = leg(i)
      BY <1>1, <1>2, <2>2
    <3>2. f.id = Legs[o][i] /\ f.sequence = next_queue_sequence + i - 1
      BY <1>3, <3>1
    <3>3. e.id # f.id
      BY <1>2, <1>5, <2>2, <3>2
    <3>4. e.sequence # f.sequence
      BY <1>5, <2>2, <3>2 DEF QueueTyped
    <3> QED
      BY <1>6, <3>3, <3>4
  <2>3. CASE e \notin mission_queue /\ f \in mission_queue
    <3>1. PICK i \in 1..n : e = leg(i)
      BY <1>1, <1>2, <2>3
    <3>2. e.id = Legs[o][i] /\ e.sequence = next_queue_sequence + i - 1
      BY <1>3, <3>1
    <3>3. f.id # e.id
      BY <1>2, <1>5, <2>3, <3>2
    <3>4. f.sequence # e.sequence
      BY <1>5, <2>3, <3>2 DEF QueueTyped
    <3> QED
      BY <1>6, <3>3, <3>4
  <2>4. CASE e \notin mission_queue /\ f \notin mission_queue
    <3>1. PICK i \in 1..n : e = leg(i)
      BY <1>1, <1>2, <2>4
    <3>2. PICK j \in 1..n : f = leg(j)
      BY <1>1, <1>2, <2>4
    <3>3. i = j
      BY <1>2, <1>3, <1>6, <3>1, <3>2 DEF QueueTyped
    <3> QED
      BY <3>1, <3>2, <3>3
  <2> QED
    BY <2>1, <2>2, <2>3, <2>4
<1>7. \A e \in mission_queue' : e.sequence < next_queue_sequence'
  BY <1>1, <1>2, <1>3, <1>5 DEF QueueTyped
<1>8. QueuedIds' = QueuedIds \cup {Legs[o][i] : i \in DOMAIN Legs[o]}
  BY <1>1, <1>2, <1>3 DEF QueuedIds
<1> QED
  BY <1>4, <1>6, <1>7, <1>8 DEF QueueInv, UniqueSequence

LEMMA ReprioritizeKeepsQueue ==
    ASSUME QueueTyped, QueueInv, NEW m \in Mission, NEW p \in Int,
           ReprioritizeQueuedMission(m, p)
    PROVE  QueueTyped' /\ QueueInv' /\ QueuedIds' = QueuedIds
<1> DEFINE changed(e) == IF e.id = m THEN [e EXCEPT !.priority = p] ELSE e
<1>1. /\ mission_queue' = {changed(e) : e \in mission_queue}
      /\ next_queue_sequence' = next_queue_sequence
  BY DEF ReprioritizeQueuedMission
<1>2. \A e \in mission_queue : /\ changed(e) \in QueueEntry
                               /\ changed(e).id = e.id /\ changed(e).sequence = e.sequence
  BY DEF QueueTyped, QueueEntry
<1>3. QueueTyped'
  BY <1>1, <1>2 DEF QueueTyped
<1>4. QueueInv'
  <2>1. ASSUME NEW d \in mission_queue, NEW c \in mission_queue,
               changed(d).id = changed(c).id \/ changed(d).sequence = changed(c).sequence
        PROVE  changed(d) = changed(c)
    <3>1. d = c
      BY <1>2, <2>1 DEF QueueInv, UniqueSequence
    <3> QED
      BY <3>1
  <2>2. \A d \in mission_queue : changed(d).sequence < next_queue_sequence'
    BY <1>1, <1>2 DEF QueueInv, UniqueSequence
  <2> HIDE DEF changed
  <2> QED
    BY <1>1, <2>1, <2>2 DEF QueueInv, UniqueSequence
<1>5. QueuedIds' = QueuedIds
  BY <1>1, <1>2 DEF QueuedIds
<1> QED
  BY <1>3, <1>4, <1>5
-----------------------------------------------------------------------------
(* The steps of the runner.                                                *)

FlagsTyped ==
    /\ paused_workflow_orders \subseteq Order
    /\ {queue_running, queue_start_requested, mission_active, paused, cancellation_requested,
        goal_handle, low_battery_dock_request_sent} \subseteq BOOLEAN
    /\ current_failure_retry_count \in Nat
    /\ active_recovery_mission_id \in Mission \cup {None}
    /\ current_state \in State

CoreInv == RunnerTypeOK /\ QueueInv /\ ActiveInv

LEMMA TypesSplit ==
    RunnerTypeOK <=> /\ QueueTyped /\ FlagsTyped
                     /\ profile \in Mission \cup {None} /\ mission_file \in Mission
  BY DEF RunnerTypeOK, QueueTyped, FlagsTyped

\* A step that starts no mission and queues none.
LEMMA QuietStep ==
    ASSUME CoreInv, FlagsTyped', UNCHANGED profileVars,
           mission_queue' \subseteq mission_queue, next_queue_sequence' = next_queue_sequence,
           mission_active' => mission_active, goal_handle' => mission_active'
    PROVE  CoreInv'
<1>1. QueueTyped' /\ QueueInv'
  BY ShrinkKeepsQueue, TypesSplit DEF CoreInv
<1>2. RunnerTypeOK'
  BY <1>1, TypesSplit DEF CoreInv, RunnerTypeOK, QueueTyped, FlagsTyped, profileVars
<1>3. ActiveMission' \subseteq ActiveMission /\ QueuedIds' \subseteq QueuedIds
  BY DEF profileVars, ActiveMission, QueuedIds
<1>4. ActiveInv'
  BY <1>3 DEF CoreInv, ActiveInv, profileVars
<1> QED
  BY <1>1, <1>2, <1>4 DEF CoreInv

\* A step that queues missions that are neither queued nor active.
LEMMA AdmissionStep ==
    ASSUME CoreInv, FlagsTyped', UNCHANGED <<profileVars, goalVars>>,
           QueueTyped', QueueInv', ActiveMission \cap QueuedIds' = {}
    PROVE  CoreInv'
<1>1. RunnerTypeOK'
  BY TypesSplit DEF CoreInv, RunnerTypeOK, QueueTyped, FlagsTyped, profileVars
<1>2. ActiveMission' = ActiveMission
  BY DEF profileVars, goalVars, ActiveMission
<1>3. ActiveInv'
  BY <1>2 DEF CoreInv, ActiveInv, profileVars, goalVars
<1> QED
  BY <1>1, <1>3 DEF CoreInv

\* DispatchMission of a mission that is no longer queued.
LEMMA DispatchStep ==
    ASSUME CoreInv, NEW m \in Mission, DispatchMission(m),
           mission_queue' \subseteq mission_queue, next_queue_sequence' = next_queue_sequence,
           \A e \in mission_queue' : e.id # m,
           queue_running' \in BOOLEAN, queue_start_requested' \in BOOLEAN,
           paused_workflow_orders' = paused_workflow_orders,
           low_battery_dock_request_sent' \in BOOLEAN
    PROVE  CoreInv'
<1>1. QueueTyped' /\ QueueInv'
  BY ShrinkKeepsQueue, TypesSplit DEF CoreInv
<1>2. FlagsTyped'
  BY DEF CoreInv, RunnerTypeOK, FlagsTyped, DispatchMission, State
<1>3. RunnerTypeOK'
  BY <1>1, <1>2 DEF RunnerTypeOK, QueueTyped, FlagsTyped, DispatchMission
<1>4. ActiveInv'
  BY DEF ActiveInv, ActiveMission, QueuedIds, DispatchMission
<1> QED
  BY <1>1, <1>3, <1>4 DEF CoreInv

LEMMA StartNextStep ==
    ASSUME CoreInv, NEW running \in BOOLEAN, NEW requested \in BOOLEAN,
           StartNextQueuedMission(running, requested),
           UNCHANGED <<next_queue_sequence, paused_workflow_orders, low_battery_dock_request_sent>>
    PROVE  CoreInv'
<1>1. CASE UNCHANGED <<mission_queue, profileVars, goalVars, controlVars, recoveryVars>>
           /\ queue_running' \in BOOLEAN /\ queue_start_requested' \in BOOLEAN
           /\ current_state' \in {current_state, "WORKFLOW_PAUSED"}
  <2>1. FlagsTyped'
    BY <1>1 DEF CoreInv, RunnerTypeOK, FlagsTyped, goalVars, controlVars, recoveryVars, State
  <2> QED
    BY <1>1, <2>1, QuietStep DEF goalVars, CoreInv, ActiveInv
<1>2. ASSUME NEW e \in NextRunnable, mission_queue' = mission_queue \ {e},
             DispatchMission(e.id), queue_running' = running, queue_start_requested' = requested
      PROVE  CoreInv'
  <2>1. e \in mission_queue
    BY DEF NextRunnable, Runnable
  <2>2. e.id \in Mission /\ \A f \in mission_queue' : f.id # e.id
    BY <1>2, <2>1 DEF CoreInv, RunnerTypeOK, QueueEntry, QueueInv
  <2>3. low_battery_dock_request_sent' \in BOOLEAN
    BY DEF CoreInv, RunnerTypeOK
  <2> QED
    BY <1>2, <2>2, <2>3, DispatchStep
<1> QED
  BY <1>1, <1>2 DEF StartNextQueuedMission, CoreInv, RunnerTypeOK

LEMMA DockReturnStep ==
    ASSUME CoreInv, RequestDockReturn, UNCHANGED paused_workflow_orders,
           low_battery_dock_request_sent' \in BOOLEAN
    PROVE  CoreInv'
<1>1. CASE UNCHANGED <<queueVars, profileVars, goalVars, controlVars, recoveryVars, current_state>>
  <2>1. FlagsTyped'
    BY <1>1 DEF CoreInv, RunnerTypeOK, FlagsTyped, queueVars, goalVars, controlVars, recoveryVars
  <2> QED
    BY <1>1, <2>1, QuietStep DEF queueVars, goalVars, CoreInv, ActiveInv
<1>2. CASE /\ ~MissionIdActiveOrQueued(DockMission) /\ QueueDockMission
           /\ queue_running' = TRUE /\ queue_start_requested' = TRUE
           /\ RequestActiveMissionCancel
           /\ UNCHANGED <<profileVars, goalVars, recoveryVars>>
  <2>1. FlagsTyped'
    BY <1>2 DEF CoreInv, RunnerTypeOK, FlagsTyped, goalVars, recoveryVars,
                RequestActiveMissionCancel, State
  <2>2. DockMission \in Mission /\ DockPriority \in Int
    BY MissionRunnerAssumption
  <2>3. QueueTyped' /\ QueueInv' /\ QueuedIds' = QueuedIds \cup {DockMission}
    BY <1>2, <2>2, PushKeepsQueue, TypesSplit DEF CoreInv, QueueDockMission, MissionIdActiveOrQueued
  <2>4. ActiveMission \cap QueuedIds' = {}
    BY <1>2, <2>3 DEF CoreInv, ActiveInv, MissionIdActiveOrQueued
  <2> QED
    BY <1>2, <2>1, <2>3, <2>4, AdmissionStep
<1>3. CASE /\ ~MissionIdActiveOrQueued(DockMission) /\ DispatchMission(DockMission)
           /\ queue_running' = FALSE /\ queue_start_requested' = FALSE
           /\ UNCHANGED <<mission_queue, next_queue_sequence>>
  <2>1. DockMission \in Mission
    BY MissionRunnerAssumption
  <2>2. \A e \in mission_queue' : e.id # DockMission
    BY <1>3 DEF MissionIdActiveOrQueued, QueuedIds
  <2> QED
    BY <1>3, <2>1, <2>2, DispatchStep
<1> QED
  BY <1>1, <1>2, <1>3 DEF RequestDockReturn

LEMMA AdmitStep ==
    ASSUME CoreInv, NEW entries, NEW n, NEW start_if_idle \in BOOLEAN,
           NEW preempt_current \in BOOLEAN, NEW set_state_when_idle \in BOOLEAN,
           AdmitQueuedMissions(entries, n, start_if_idle, preempt_current, set_state_when_idle),
           QueueTyped', QueueInv', ActiveMission \cap QueuedIds' = {}
    PROVE  CoreInv'
<1>1. FlagsTyped'
  BY DEF AdmitQueuedMissions, RequestActiveMissionCancel, SetStateIfIdle, State, CoreInv,
         RunnerTypeOK, FlagsTyped, goalVars, controlVars, recoveryVars
<1> QED
  BY <1>1, AdmissionStep DEF AdmitQueuedMissions

LEMMA AdmitOneStep ==
    ASSUME CoreInv, NEW m \in Mission, NEW p \in Priority, ~MissionIdActiveOrQueued(m),
           NEW start_if_idle \in BOOLEAN, NEW preempt_current \in BOOLEAN,
           NEW set_state_when_idle \in BOOLEAN,
           AdmitQueuedMissions({Entry(m, p, next_queue_sequence)}, 1,
                               start_if_idle, preempt_current, set_state_when_idle)
    PROVE  CoreInv'
<1>1. QueueTyped' /\ QueueInv' /\ QueuedIds' = QueuedIds \cup {m}
  BY PushKeepsQueue, TypesSplit, MissionRunnerAssumption
     DEF CoreInv, AdmitQueuedMissions, MissionIdActiveOrQueued
<1>2. ActiveMission \cap QueuedIds' = {}
  BY <1>1 DEF CoreInv, ActiveInv, MissionIdActiveOrQueued
<1> QED
  BY <1>1, <1>2, AdmitStep

LEMMA MissionServiceStep == CoreInv /\ MissionService => CoreInv'
<1> SUFFICES ASSUME CoreInv, MissionService PROVE CoreInv'
  OBVIOUS
<1>1. CASE LoadProfile
  <2>1. /\ profile' \in {mission_file, None} /\ mission_file' = mission_file
        /\ profile' = None => mission_file \notin FileMission
        /\ UNCHANGED <<queueVars, goalVars>>
    BY <1>1, MissionRunnerAssumption DEF LoadProfile, CoreInv, RunnerTypeOK
  <2>2. RunnerTypeOK'
    BY <1>1, <2>1 DEF LoadProfile, CoreInv, RunnerTypeOK, State, queueVars, goalVars, controlVars,
                      recoveryVars
  <2>3. QueueInv' /\ QueuedIds' = QueuedIds
    BY <2>1 DEF CoreInv, QueueInv, UniqueSequence, QueuedIds, queueVars
  <2>4. ActiveMission' \subseteq ActiveMission
    BY <1>1, <2>1, MissionRunnerAssumption
       DEF LoadProfile, ActiveMission, CoreInv, ActiveInv, goalVars, RunnerTypeOK
  <2>5. ActiveInv'
    BY <2>1, <2>3, <2>4, MissionRunnerAssumption DEF CoreInv, ActiveInv, goalVars, LoadProfile
  <2> QED
    BY <2>2, <2>3, <2>5 DEF CoreInv
<1>2. CASE StartMission
  <2>1. CASE StartNextQueuedMission(TRUE, queue_start_requested)
    BY <1>2, <2>1, StartNextStep DEF StartMission, CoreInv, RunnerTypeOK
  <2>2. CASE /\ mission_queue = {} /\ profile # None /\ DispatchMission(profile)
             /\ UNCHANGED <<mission_queue, queue_running, queue_start_requested>>
    BY <1>2, <2>2, DispatchStep DEF StartMission, CoreInv, RunnerTypeOK
  <2>3. CASE /\ current_state' = "ERROR"
             /\ paused' = FALSE /\ cancellation_requested' = FALSE /\ goal_handle' = FALSE
             /\ UNCHANGED <<mission_queue, queue_running, queue_start_requested, profileVars,
                            mission_active, recoveryVars>>
    <3>1. FlagsTyped'
      BY <1>2, <2>3 DEF StartMission, CoreInv, RunnerTypeOK, FlagsTyped, State, recoveryVars
    <3> QED
      BY <1>2, <2>3, <3>1, QuietStep DEF StartMission
  <2> QED
    BY <1>2, <2>1, <2>2, <2>3 DEF StartMission
<1>3. CASE PauseMission \/ ResumeMission \/ CancelMission
  <2>1. FlagsTyped'
    BY <1>3 DEF PauseMission, ResumeMission, CancelMission, RequestActiveMissionCancel, CoreInv,
                RunnerTypeOK, FlagsTyped, State, queueVars, goalVars, recoveryVars
  <2> QED
    BY <1>3, <2>1, QuietStep DEF PauseMission, ResumeMission, CancelMission, queueVars, goalVars,
                                 CoreInv, ActiveInv
<1>4. ASSUME NEW m \in Mission, NEW p \in Priority, NEW start \in BOOLEAN,
             EnqueueMission(m, p, start)
      PROVE  CoreInv'
  BY <1>4, AdmitOneStep DEF EnqueueMission
<1>5. ASSUME NEW m \in Mission, NEW p \in Priority, PreemptMission(m, p)
      PROVE  CoreInv'
  BY <1>5, AdmitOneStep DEF PreemptMission
<1>6. ASSUME NEW m \in Mission, NEW p \in Priority, NEW start \in BOOLEAN,
             NEW preempt \in BOOLEAN, SubmitStationTransportOrder(m, p, start, preempt)
      PROVE  CoreInv'
  BY <1>6, AdmitOneStep DEF SubmitStationTransportOrder
<1>7. ASSUME NEW m \in Mission, NEW cancel_active \in BOOLEAN,
             CancelQueuedMission(m, cancel_active)
      PROVE  CoreInv'
  <2>1. FlagsTyped'
    BY <1>7 DEF CancelQueuedMission, SetStateIfIdle, RequestActiveMissionCancel, CoreInv,
                RunnerTypeOK, FlagsTyped, State, goalVars, controlVars, recoveryVars
  <2>2. mission_queue' \subseteq mission_queue
    BY <1>7 DEF CancelQueuedMission
  <2> QED
    BY <1>7, <2>1, <2>2, QuietStep DEF CancelQueuedMission, goalVars, CoreInv, ActiveInv
<1> QED
  BY <1>1, <1>2, <1>3, <1>4, <1>5, <1>6, <1>7 DEF MissionService

LEMMA PriorityServiceStep == CoreInv /\ PriorityService => CoreInv'
<1> SUFFICES ASSUME CoreInv, NEW m \in Mission, NEW p \in Priority,
                    ReprioritizeQueuedMission(m, p)
             PROVE  CoreInv'
  BY DEF PriorityService
<1>1. QueueTyped' /\ QueueInv' /\ QueuedIds' = QueuedIds
  BY ReprioritizeKeepsQueue, TypesSplit, MissionRunnerAssumption DEF CoreInv
<1>2. FlagsTyped'
  BY DEF ReprioritizeQueuedMission, SetStateIfIdle, CoreInv, RunnerTypeOK, FlagsTyped,
         State, goalVars, controlVars, recoveryVars
<1> QED
  BY <1>1, <1>2, AdmissionStep DEF ReprioritizeQueuedMission, CoreInv, ActiveInv

LEMMA WorkflowServiceStep == CoreInv /\ WorkflowService => CoreInv'
<1> SUFFICES ASSUME CoreInv, WorkflowService PROVE CoreInv'
  OBVIOUS
<1>1. ASSUME NEW o \in Order, NEW p \in Priority, NEW start \in BOOLEAN, NEW preempt \in BOOLEAN,
             SubmitStationSequenceTask(o, p, start, preempt)
      PROVE  CoreInv'
  <2>1. \A i \in DOMAIN Legs[o] : ~MissionIdActiveOrQueued(Legs[o][i])
    BY <1>1 DEF SubmitStationSequenceTask
  <2>2. /\ QueueTyped' /\ QueueInv'
        /\ QueuedIds' = QueuedIds \cup {Legs[o][i] : i \in DOMAIN Legs[o]}
    BY <1>1, <2>1, LegsKeepQueue, TypesSplit, MissionRunnerAssumption
       DEF SubmitStationSequenceTask, AdmitQueuedMissions, CoreInv, MissionIdActiveOrQueued
  <2>3. ActiveMission \cap QueuedIds' = {}
    BY <2>1, <2>2 DEF CoreInv, ActiveInv, MissionIdActiveOrQueued
  <2> QED
    BY <1>1, <2>2, <2>3, AdmitStep DEF SubmitStationSequenceTask
<1>2. ASSUME NEW o \in Order, NEW active \in BOOLEAN,
             CancelWorkflow(o, active) \/ PauseWorkflow(o, active) \/ ResumeWorkflow(o, active)
      PROVE  CoreInv'
  <2>1. FlagsTyped'
    <3>1. CASE CancelWorkflow(o, active)
      BY <3>1 DEF CancelWorkflow, SetStateIfIdle, RequestActiveMissionCancel, CoreInv,
                  RunnerTypeOK, FlagsTyped, State, goalVars, controlVars, recoveryVars
    <3>2. CASE PauseWorkflow(o, active)
      BY <3>2 DEF PauseWorkflow, SetStateIfIdle, CoreInv, RunnerTypeOK, FlagsTyped, State,
                  goalVars, recoveryVars
    <3>3. CASE ResumeWorkflow(o, active)
      BY <3>3 DEF ResumeWorkflow, CoreInv, RunnerTypeOK, FlagsTyped, State, goalVars, recoveryVars
    <3> QED
      BY <1>2, <3>1, <3>2, <3>3
  <2>2. /\ mission_queue' \subseteq mission_queue /\ next_queue_sequence' = next_queue_sequence
        /\ UNCHANGED <<profileVars, goalVars>>
    BY <1>2 DEF CancelWorkflow, PauseWorkflow, ResumeWorkflow
  <2> QED
    BY <2>1, <2>2, QuietStep DEF goalVars, CoreInv, ActiveInv
<1> QED
  BY <1>1, <1>2 DEF WorkflowService

LEMMA DockServiceStep == CoreInv /\ DockService => CoreInv'
<1> SUFFICES ASSUME CoreInv, DockService PROVE CoreInv'
  OBVIOUS
<1>1. CASE ReturnToDock \/ HandleLowBattery
  BY <1>1, DockReturnStep DEF ReturnToDock, HandleLowBattery, CoreInv, RunnerTypeOK
<1>2. CASE HandleBatteryOk \/ ResetMissionRecoveryState
  <2>1. FlagsTyped'
    <3>1. CASE HandleBatteryOk
      BY <3>1 DEF HandleBatteryOk, CoreInv, RunnerTypeOK, FlagsTyped, queueVars, goalVars,
                  controlVars, recoveryVars
    <3>2. CASE ResetMissionRecoveryState
      BY <3>2 DEF ResetMissionRecoveryState, CoreInv, RunnerTypeOK, FlagsTyped, State, queueVars,
                  goalVars, controlVars
    <3> QED
      BY <1>2, <3>1, <3>2
  <2> QED
    BY <1>2, <2>1, QuietStep DEF HandleBatteryOk, ResetMissionRecoveryState, queueVars, goalVars,
                                 CoreInv, ActiveInv
<1> QED
  BY <1>1, <1>2 DEF DockService

LEMMA GoalMessageStep ==
    CoreInv /\ (GoalResponse \/ \E p \in BOOLEAN : Feedback(p)) => CoreInv'
<1> SUFFICES ASSUME CoreInv, GoalResponse \/ \E p \in BOOLEAN : Feedback(p) PROVE CoreInv'
  OBVIOUS
<1>1. CASE GoalAccepted \/ GoalRejected
  <2>1. FlagsTyped'
    BY <1>1 DEF GoalAccepted, GoalRejected, CoreInv, RunnerTypeOK, FlagsTyped, State, queueVars,
                controlVars, recoveryVars
  <2> QED
    BY <1>1, <2>1, QuietStep DEF GoalAccepted, GoalRejected, queueVars, CoreInv, ActiveInv
<1>2. ASSUME NEW p \in BOOLEAN, Feedback(p) PROVE CoreInv'
  <2>1. paused' \in BOOLEAN
    BY <1>2 DEF Feedback, CoreInv, RunnerTypeOK
  <2>2. FlagsTyped'
    BY <1>2, <2>1 DEF Feedback, CoreInv, RunnerTypeOK, FlagsTyped, State, queueVars, goalVars,
                      recoveryVars
  <2> QED
    BY <1>2, <2>2, QuietStep DEF Feedback, queueVars, goalVars, CoreInv, ActiveInv
<1> QED
  BY <1>1, <1>2 DEF GoalResponse

LEMMA PostResultTypes ==
    ASSUME NEW queue_empty \in BOOLEAN, NEW running \in BOOLEAN, NEW requested \in BOOLEAN,
           PostResultQueue(queue_empty, running, requested)
    PROVE  queue_running' \in BOOLEAN /\ queue_start_requested' \in BOOLEAN
  BY DEF PostResultQueue

LEMMA CanceledResultStep ==
    ASSUME CoreInv, NEW code \in BOOLEAN, ResultCanceled(code)
    PROVE  CoreInv'
<1>1. FlagsTyped'
  BY PostResultTypes DEF ResultCanceled, MissionEnds, CoreInv, RunnerTypeOK, FlagsTyped, State,
                         recoveryVars
<1> QED
  BY <1>1, QuietStep DEF ResultCanceled, MissionEnds

\* A success, whether or not the mission counts as a docking.
LEMMA SuccessResultStep ==
    ASSUME CoreInv, NEW completed \in BOOLEAN, ResultSucceeded(completed)
    PROVE  CoreInv'
<1>1. FlagsTyped'
  <2>1. queue_running' \in BOOLEAN /\ queue_start_requested' \in BOOLEAN
    BY PostResultTypes DEF ResultSucceeded, CoreInv, RunnerTypeOK
  <2>2. current_state' \in State /\ current_failure_retry_count' \in Nat
    BY DEF ResultSucceeded, State
  <2> QED
    BY <2>1, <2>2 DEF ResultSucceeded, MissionEnds, CoreInv, RunnerTypeOK, FlagsTyped
<1>2. CASE UNCHANGED <<mission_queue, next_queue_sequence>>
  BY <1>1, <1>2, QuietStep DEF ResultSucceeded, MissionEnds
<1>3. CASE mission_queue = {} /\ QueueDockMission
  <2>1. DockMission \notin QueuedIds /\ DockMission \in Mission /\ DockPriority \in Int
    BY <1>3, MissionRunnerAssumption DEF QueuedIds
  <2>2. QueueTyped' /\ QueueInv'
    BY <1>3, <2>1, PushKeepsQueue, TypesSplit DEF CoreInv, QueueDockMission
  <2>3. RunnerTypeOK'
    BY <1>1, <2>2, TypesSplit
       DEF ResultSucceeded, CoreInv, RunnerTypeOK, QueueTyped, FlagsTyped, profileVars
  <2>4. ActiveInv'
    BY DEF ResultSucceeded, MissionEnds, ActiveInv, ActiveMission
  <2> QED
    BY <2>2, <2>3, <2>4 DEF CoreInv
<1> QED
  BY <1>2, <1>3 DEF ResultSucceeded

\* The recovery of a failure, with or without a release of the route locks.
LEMMA FailureStep ==
    ASSUME CoreInv, NEW completed \in BOOLEAN, HandleMissionFailure(completed),
           UNCHANGED <<paused_workflow_orders, low_battery_dock_request_sent>>
    PROVE  CoreInv'
<1>0. goal_handle /\ mission_active
  BY DEF HandleMissionFailure, RecoverByRetry, RecoverByDock, RecoverByStopping, MissionEnds,
         CoreInv, ActiveInv
<1>1. CASE RecoverByRetry(completed)
  <2>1. profile \in Mission /\ profile \notin QueuedIds
    BY <1>0, <1>1 DEF RecoverByRetry, CoreInv, RunnerTypeOK, ActiveInv, ActiveMission
  <2>2. QueueTyped' /\ QueueInv'
    BY <1>1, <2>1, PushKeepsQueue, TypesSplit, MissionRunnerAssumption
       DEF CoreInv, RecoverByRetry
  <2>3. FlagsTyped'
    <3>1. queue_running' \in BOOLEAN /\ queue_start_requested' \in BOOLEAN
      BY <1>1, PostResultTypes DEF RecoverByRetry
    <3>2. current_failure_retry_count' \in Nat
      BY <1>1 DEF RecoverByRetry, CoreInv, RunnerTypeOK
    <3> QED
      BY <1>1, <3>1, <3>2 DEF RecoverByRetry, MissionEnds, CoreInv, RunnerTypeOK, FlagsTyped, State
  <2>4. RunnerTypeOK'
    BY <1>1, <2>2, <2>3, TypesSplit
       DEF RecoverByRetry, CoreInv, RunnerTypeOK, QueueTyped, FlagsTyped, profileVars
  <2>5. ActiveInv'
    BY <1>1 DEF RecoverByRetry, MissionEnds, ActiveInv, ActiveMission
  <2> QED
    BY <2>2, <2>4, <2>5 DEF CoreInv
<1>2. CASE RecoverByDock(completed)
  <2>1. CASE DockMission \in QueuedIds
    <3>1. MissionEnds /\ queue_running' \in BOOLEAN /\ queue_start_requested' \in BOOLEAN
      BY <1>2, <2>1, PostResultTypes DEF RecoverByDock, CoreInv, RunnerTypeOK
    <3>2. FlagsTyped'
      BY <1>2, <2>1, <3>1
         DEF RecoverByDock, MissionEnds, CoreInv, RunnerTypeOK, FlagsTyped, State, recoveryVars
    <3> QED
      BY <1>2, <2>1, <3>1, <3>2, QuietStep DEF RecoverByDock, MissionEnds
  <2>2. CASE DockMission \notin QueuedIds
    BY <1>2, <2>2, DispatchStep, MissionRunnerAssumption
       DEF RecoverByDock, QueuedIds, CoreInv, RunnerTypeOK
  <2> QED
    BY <2>1, <2>2
<1>3. CASE RecoverByStopping(completed)
  <2>1. FlagsTyped'
    BY <1>3 DEF RecoverByStopping, MissionEnds, CoreInv, RunnerTypeOK, FlagsTyped, State,
                recoveryVars
  <2> QED
    BY <1>3, <2>1, QuietStep DEF RecoverByStopping, MissionEnds
<1> QED
  BY <1>1, <1>2, <1>3 DEF HandleMissionFailure

LEMMA GoalResultStep == CoreInv /\ GoalResult => CoreInv'
<1>1. CompletedDock \in BOOLEAN
  BY DEF CompletedDock
<1> QED
  BY <1>1, CanceledResultStep, SuccessResultStep, FailureStep DEF GoalResult, ResultFailed
-----------------------------------------------------------------------------
LEMMA RunnerInvInit == Init => RunnerInv
<1> SUFFICES ASSUME Init PROVE RunnerInv
  OBVIOUS
<1>1. TrafficInv
  BY TrafficInvInit DEF Init
<1>2. RunnerTypeOK
  BY MissionRunnerAssumption DEF Init, RunnerTypeOK, State
<1>3. QueueInv /\ ActiveInv
  BY DEF Init, QueueInv, UniqueSequence, ActiveInv, ActiveMission
<1> QED
  BY <1>1, <1>2, <1>3 DEF RunnerInv, TypeOK, TrafficInv

LEMMA RunnerInvStep == RunnerInv /\ [Next]_vars => RunnerInv'
<1> SUFFICES ASSUME RunnerInv, [Next]_vars PROVE RunnerInv'
  OBVIOUS
<1>1. TrafficInv'
  BY TrafficStep, TrafficInvStep DEF RunnerInv
<1>2. CoreInv
  BY DEF RunnerInv, TypeOK, CoreInv
<1>3. CASE TrafficService
  <2>1. FlagsTyped'
    BY <1>2, <1>3 DEF TrafficService, CoreInv, RunnerTypeOK, FlagsTyped, queueVars, goalVars,
                      controlVars, recoveryVars
  <2> QED
    BY <1>2, <1>3, <2>1, QuietStep, <1>1
       DEF TrafficService, queueVars, goalVars, CoreInv, ActiveInv, RunnerInv, TypeOK, TrafficInv
<1>4. CASE Tick
  <2>1. CoreInv'
    BY <1>2, <1>4, StartNextStep DEF Tick, CoreInv, RunnerTypeOK
  <2> QED
    BY <1>1, <2>1 DEF RunnerInv, CoreInv, TypeOK, TrafficInv
<1>5. CASE UNCHANGED vars
  <2>1. CoreInv'
    BY <1>2, <1>5 DEF vars, queueVars, profileVars, goalVars, controlVars, recoveryVars, CoreInv,
                      RunnerTypeOK, QueueInv, UniqueSequence, ActiveInv, ActiveMission, QueuedIds
  <2> QED
    BY <1>1, <2>1 DEF RunnerInv, CoreInv, TypeOK, TrafficInv
<1>6. CASE \/ MissionService \/ WorkflowService \/ DockService
           \/ GoalResponse \/ \E p \in BOOLEAN : Feedback(p)
           \/ GoalResult \/ PriorityService
  <2>1. CoreInv'
    BY <1>2, <1>6, MissionServiceStep, WorkflowServiceStep, DockServiceStep, GoalMessageStep,
       GoalResultStep, PriorityServiceStep
  <2> QED
    BY <1>1, <2>1 DEF RunnerInv, CoreInv, TypeOK, TrafficInv
<1> QED
  BY <1>3, <1>4, <1>5, <1>6 DEF Next, NextInQueueOrder

THEOREM RunnerInvariance == Spec => []RunnerInv
  BY RunnerInvInit, RunnerInvStep, PTL DEF Spec

\* The mission runner's variables keep their types.
THEOREM TypeCorrectness == Spec => []TypeOK
  BY RunnerInvariance, PTL DEF RunnerInv

\* No mission is queued twice, and none is queued while it is executed, whatever
\* services, results, reloads, retries and dock returns come in what order.
THEOREM MissionsAreUnique == Spec => []UniqueMission
<1>1. RunnerInv => UniqueMission
  BY DEF RunnerInv, QueueInv, ActiveInv, UniqueMission
<1> QED
  BY <1>1, RunnerInvariance, PTL

\* Queue entries have distinct sequence numbers below the counter, so the order
\* of the queue is total.
THEOREM SequencesAreUnique == Spec => []UniqueSequence
<1>1. RunnerInv => UniqueSequence
  BY DEF RunnerInv, QueueInv
<1> QED
  BY <1>1, RunnerInvariance, PTL

\* The runner's route locks behave as the route reservation table.
THEOREM RunnerImplementsTraffic == Spec => ImplementsTraffic
<1>1. Init => TrafficInit
  BY DEF Init
<1>2. RunnerInv /\ [Next]_vars => [TrafficNext]_trafficVars
  BY TrafficStep DEF RunnerInv
<1> QED
  BY <1>1, <1>2, RunnerInvariance, PTL DEF Spec, ImplementsTraffic, TrafficSpec

\* So what is proved of the table holds in the runner: with intersection locks
\* two missions never hold edges that meet in a station.
THEOREM RunnerExcludesDeadlock == Spec => []IntersectionLocksExcludeDeadlock
  BY RunnerImplementsTraffic, DeadlockIsExcluded, PTL DEF ImplementsTraffic

\* Nor does any step of the runner, the result of a mission or its cancellation
\* among them, end a traffic block in passing.
THEOREM RunnerKeepsBlocks == Spec => BlockOutlivesMissions
  BY RunnerImplementsTraffic, BlocksOutliveMissions, PTL DEF ImplementsTraffic

\* With everything that happens to missions, the runner still is a reservation service:
\* a route is taken as a whole or not at all, and from nobody.
THEOREM RunnerImplementsReservations == Spec => ImplementsReservations
  BY RunnerImplementsTraffic, TableImplementsReservations, PTL DEF ImplementsTraffic
-----------------------------------------------------------------------------
(* What becomes active.                                                     *)

\* The one runnable entry that is listed first leaves the queue and is executed,
\* unless the action server does not answer.
Starts(e) ==
    /\ e \in NextRunnable
    /\ mission_queue' = mission_queue \ {e}
    /\ profile' = e.id /\ ActiveMission' \subseteq {e.id}
    /\ mission_active' \/ current_state' = "ERROR"
    /\ UNCHANGED <<next_queue_sequence, paused_workflow_orders, trafficVars>>

LEMMA StartNextCases ==
    ASSUME CoreInv, ~mission_active, NEW running \in BOOLEAN, NEW requested \in BOOLEAN,
           StartNextQueuedMission(running, requested),
           UNCHANGED <<next_queue_sequence, paused_workflow_orders, trafficVars>>
    PROVE  (\E e \in mission_queue : Starts(e))
           \/ UNCHANGED <<mission_queue, profile, mission_active>>
<1>1. ASSUME NEW e \in NextRunnable, mission_queue' = mission_queue \ {e}, DispatchMission(e.id)
      PROVE  e \in mission_queue /\ Starts(e)
  BY <1>1 DEF DispatchMission, ActiveMission, Starts, NextRunnable, Runnable
<1> QED
  BY <1>1 DEF StartNextQueuedMission, profileVars, goalVars

\* A mission is active after a step only if it was active before, was the first
\* runnable entry, is the dock mission, or is started again from an empty queue.
LEMMA ActiveCases ==
    ASSUME CoreInv, [Next]_vars
    PROVE  \/ ActiveMission' \subseteq ActiveMission
           \/ \E e \in mission_queue : Starts(e)
           \/ DockMission \notin QueuedIds /\ ActiveMission' \subseteq {DockMission}
           \/ mission_queue = {} /\ mission_queue' = {} /\ ActiveMission' \subseteq {profile}
<1> DEFINE unchanged == UNCHANGED <<profile, mission_active>>
<1>0. unchanged \/ ~mission_active' => ActiveMission' \subseteq ActiveMission
  BY DEF ActiveMission
<1>1. CASE MissionService
  <2>1. CASE LoadProfile
    BY <2>1, MissionRunnerAssumption
       DEF LoadProfile, ActiveMission, CoreInv, ActiveInv, goalVars, RunnerTypeOK
  <2>2. CASE StartMission
    <3>1. CASE mission_queue # {}
      BY <1>0, <2>2, <3>1, StartNextCases DEF StartMission, StartNextQueuedMission, CoreInv, RunnerTypeOK
    <3>2. CASE mission_queue = {}
      BY <1>0, <2>2, <3>2 DEF StartMission, DispatchMission, ActiveMission, profileVars
    <3> QED
      BY <3>1, <3>2
  <2>3. CASE PauseMission \/ ResumeMission \/ CancelMission
    BY <1>0, <2>3 DEF PauseMission, ResumeMission, CancelMission, profileVars, goalVars
  <2> QED
    BY <1>0, <1>1, <2>1, <2>2, <2>3
       DEF MissionService, EnqueueMission, PreemptMission, SubmitStationTransportOrder,
           AdmitQueuedMissions, CancelQueuedMission, profileVars, goalVars
<1>2. CASE WorkflowService \/ TrafficService \/ PriorityService
  <2>1. CASE WorkflowService
    BY <1>0, <2>1 DEF WorkflowService, SubmitStationSequenceTask, AdmitQueuedMissions, CancelWorkflow,
                      PauseWorkflow, ResumeWorkflow, profileVars, goalVars
  <2>2. CASE TrafficService \/ PriorityService
    BY <1>0, <2>2 DEF TrafficService, PriorityService, ReprioritizeQueuedMission, profileVars, goalVars
  <2> QED
    BY <1>2, <2>1, <2>2
<1>3. CASE DockService
  <2>1. CASE RequestDockReturn
    BY <1>0, <2>1 DEF RequestDockReturn, MissionIdActiveOrQueued, DispatchMission, ActiveMission,
                      profileVars, goalVars
  <2> QED
    BY <1>0, <1>3, <2>1 DEF DockService, ReturnToDock, HandleLowBattery, HandleBatteryOk,
                            ResetMissionRecoveryState, profileVars, goalVars
<1>4. CASE GoalResponse \/ \E p \in BOOLEAN : Feedback(p)
  BY <1>0, <1>4 DEF GoalResponse, GoalAccepted, GoalRejected, Feedback, profileVars, goalVars
<1>5. CASE GoalResult
  <2>1. CASE RecoverByDock(CompletedDock)
    BY <1>0, <2>1 DEF RecoverByDock, MissionEnds, DispatchMission, ActiveMission
  <2> QED
    BY <1>0, <1>5, <2>1 DEF GoalResult, ResultSucceeded, ResultCanceled, ResultFailed,
                            HandleMissionFailure, RecoverByRetry, RecoverByStopping, MissionEnds
<1>6. CASE Tick
  BY <1>0, <1>6, StartNextCases DEF Tick, CoreInv, RunnerTypeOK
<1>7. CASE UNCHANGED vars
  BY <1>0, <1>7 DEF vars, profileVars, goalVars
<1> QED
  BY <1>1, <1>2, <1>3, <1>4, <1>5, <1>6, <1>7 DEF Next, NextInQueueOrder

LEMMA PausedStep ==
    ASSUME RunnerInv, [Next]_vars, NEW m \in QueuedIds, BelongsToPausedWorkflow(m)
    PROVE  m \notin ActiveMission'
<1>1. CoreInv /\ m \notin ActiveMission
  BY DEF RunnerInv, TypeOK, CoreInv, ActiveInv
<1>2. ASSUME NEW e \in mission_queue, Starts(e)
      PROVE  m \notin ActiveMission'
  BY <1>2 DEF Starts, NextRunnable, Runnable
<1>3. mission_queue # {}
  BY DEF QueuedIds
<1> QED
  BY <1>1, <1>2, <1>3, ActiveCases

\* Neither a start, the timer, a result nor a dock return starts a queued mission of
\* a paused workflow, for any queue and any set of workflows.
THEOREM PausedMissionsStay == Spec => PausedMissionsAreNotStarted
<1>1. RunnerInv /\ [Next]_vars
        => [\A m \in QueuedIds : BelongsToPausedWorkflow(m) => m \notin ActiveMission']_vars
  BY PausedStep
<1> QED
  BY <1>1, RunnerInvariance, PTL DEF Spec, PausedMissionsAreNotStarted

\* The active mission stays as it is.
Undisturbed ==
    /\ UNCHANGED mission_active
    /\ profile' \in {profile, None}

LEMMA CanceledStep ==
    ASSUME RunnerInv, [Next]_vars, mission_active, cancellation_requested,
           ~mission_active' \/ profile' \notin {profile, None}
    PROVE  current_state' \in {"CANCELED", "ERROR"} /\ mission_queue' = mission_queue
<1>0. ~Undisturbed /\ ActiveInv
  BY DEF Undisturbed, RunnerInv
<1>1. CASE MissionService
  <2>1. ASSUME LoadProfile PROVE Undisturbed
    BY <1>0, <2>1, MissionRunnerAssumption DEF LoadProfile, ActiveInv, goalVars, Undisturbed
  <2> QED
    BY <1>0, <1>1, <2>1
       DEF MissionService, StartMission, PauseMission, ResumeMission, CancelMission, EnqueueMission,
           PreemptMission, SubmitStationTransportOrder, AdmitQueuedMissions, CancelQueuedMission,
           profileVars, goalVars, Undisturbed
<1>2. CASE WorkflowService \/ TrafficService \/ PriorityService
  <2>1. CASE WorkflowService
    BY <1>0, <2>1 DEF WorkflowService, SubmitStationSequenceTask, AdmitQueuedMissions, CancelWorkflow,
                      PauseWorkflow, ResumeWorkflow, profileVars, goalVars, Undisturbed
  <2>2. CASE TrafficService \/ PriorityService
    BY <1>0, <2>2 DEF TrafficService, PriorityService, ReprioritizeQueuedMission, profileVars,
                      goalVars, Undisturbed
  <2> QED
    BY <1>2, <2>1, <2>2
<1>3. CASE DockService
  BY <1>0, <1>3 DEF DockService, ReturnToDock, HandleLowBattery, HandleBatteryOk, RequestDockReturn,
                    ResetMissionRecoveryState, profileVars, goalVars, Undisturbed
<1>4. CASE GoalResponse \/ \E p \in BOOLEAN : Feedback(p)
  BY <1>0, <1>4 DEF GoalResponse, GoalAccepted, GoalRejected, Feedback, queueVars, profileVars,
                    goalVars, Undisturbed
<1>5. CASE GoalResult
  BY <1>5 DEF GoalResult, ResultSucceeded, ResultFailed, ResultCanceled
<1>6. CASE UNCHANGED vars
  BY <1>0, <1>6 DEF vars, profileVars, goalVars, Undisturbed
<1> QED
  BY <1>1, <1>2, <1>3, <1>4, <1>5, <1>6 DEF Next, NextInQueueOrder, Tick

\* A mission whose cancellation was requested ends as canceled or is lost with
\* ERROR, and the queue is not touched: whatever result comes late, no retry and no
\* dock return follows.
THEOREM CanceledMissionsEnd == Spec => CanceledIsNotRecovered
<1>1. RunnerInv /\ [Next]_vars
        => [mission_active /\ cancellation_requested
              /\ (~mission_active' \/ profile' \notin {profile, None})
              => /\ current_state' \in {"CANCELED", "ERROR"}
                 /\ mission_queue' = mission_queue]_vars
  BY CanceledStep
<1> QED
  BY <1>1, RunnerInvariance, PTL DEF Spec, CanceledIsNotRecovered

\* What the queue is told when missions are admitted or one ends.
LEMMA AdmissionDoesNotStall ==
    ASSUME RunnerInv, NEW entries, NEW n, NEW start \in BOOLEAN, NEW preempt \in BOOLEAN,
           NEW show \in BOOLEAN, AdmitQueuedMissions(entries, n, start, preempt, show), Stalled'
    PROVE  Stalled
<1>1. {queue_running, queue_start_requested, mission_active} \subseteq BOOLEAN
  BY DEF RunnerInv, TypeOK, RunnerTypeOK
<1> QED
  BY <1>1 DEF AdmitQueuedMissions, Stalled, goalVars

LEMMA ResultDoesNotStall ==
    ASSUME AutoStartQueue, NEW completed \in BOOLEAN,
           \/ \E code \in BOOLEAN : ResultCanceled(code)
           \/ ResultSucceeded(completed) \/ HandleMissionFailure(completed)
    PROVE  ~Stalled'
<1> SUFFICES ASSUME Stalled' PROVE FALSE
  OBVIOUS
<1>0. queue_running' /\ ~queue_start_requested' /\ ~mission_active'
  BY DEF Stalled
<1>1. ASSUME NEW empty \in BOOLEAN, NEW running, NEW requested,
             PostResultQueue(empty, running, requested)
      PROVE  FALSE
  BY <1>0, <1>1 DEF PostResultQueue
<1>2. \A code \in BOOLEAN : ~ResultCanceled(code)
  BY <1>0, <1>1 DEF ResultCanceled
<1>3. ~ResultSucceeded(completed)
  BY <1>0, <1>1 DEF ResultSucceeded
<1>4. ~RecoverByRetry(completed)
  BY <1>1 DEF RecoverByRetry
<1>5. ~RecoverByDock(completed) /\ ~RecoverByStopping(completed)
  BY <1>0, <1>1 DEF RecoverByDock, RecoverByStopping
<1> QED
  BY <1>2, <1>3, <1>4, <1>5 DEF HandleMissionFailure

LEMMA StallStep ==
    ASSUME RunnerInv, [Next]_vars, AutoStartQueue, Stalled', ~Stalled
    PROVE  current_state' \in {"ERROR", "WORKFLOW_PAUSED"}
<1> DEFINE unchanged == UNCHANGED <<queue_running, queue_start_requested, mission_active>>
<1>0. /\ ~unchanged /\ queue_running' /\ ~queue_start_requested' /\ ~mission_active'
      /\ {queue_running, queue_start_requested, mission_active} \subseteq BOOLEAN
  BY DEF Stalled, RunnerInv, TypeOK, RunnerTypeOK
<1>1. ASSUME NEW running \in BOOLEAN, NEW requested \in BOOLEAN,
             StartNextQueuedMission(running, requested)
      PROVE  current_state' \in {"ERROR", "WORKFLOW_PAUSED"}
  BY <1>0, <1>1 DEF StartNextQueuedMission, DispatchMission
<1>2. ASSUME NEW entries, NEW n, NEW start \in BOOLEAN, NEW preempt \in BOOLEAN,
             NEW show \in BOOLEAN, AdmitQueuedMissions(entries, n, start, preempt, show)
      PROVE  FALSE
  BY <1>2, AdmissionDoesNotStall
<1>3. ASSUME RequestDockReturn
      PROVE  FALSE
  BY <1>0, <1>3 DEF RequestDockReturn, queueVars, goalVars
<1>4. CASE MissionService
  <2>1. CASE StartMission
    BY <1>0, <1>1, <2>1 DEF StartMission, DispatchMission
  <2>2. CASE LoadProfile \/ PauseMission \/ ResumeMission \/ CancelMission
    BY <1>0, <2>2 DEF LoadProfile, PauseMission, ResumeMission, CancelMission, queueVars, goalVars
  <2>3. ASSUME NEW m \in Mission, NEW cancel_active \in BOOLEAN,
               CancelQueuedMission(m, cancel_active)
        PROVE  FALSE
    BY <1>0, <2>3 DEF CancelQueuedMission, goalVars
  <2>4. ASSUME NEW n \in Mission, NEW p \in Priority,
               \/ \E start \in BOOLEAN : EnqueueMission(n, p, start)
               \/ PreemptMission(n, p)
               \/ \E start, preempt \in BOOLEAN : SubmitStationTransportOrder(n, p, start, preempt)
        PROVE  FALSE
    BY <1>2, <2>4 DEF EnqueueMission, PreemptMission, SubmitStationTransportOrder
  <2> QED
    BY <1>4, <2>1, <2>2, <2>3, <2>4 DEF MissionService
<1>5. CASE WorkflowService
  <2>1. ASSUME NEW o \in Order, NEW active \in BOOLEAN, CancelWorkflow(o, active)
        PROVE  FALSE
    BY <1>0, <2>1 DEF CancelWorkflow, goalVars
  <2>2. ASSUME NEW o \in Order, NEW active \in BOOLEAN, PauseWorkflow(o, active)
        PROVE  current_state' = "WORKFLOW_PAUSED"
    BY <1>0, <2>2 DEF PauseWorkflow, ActiveWorkflowMission, ActiveMission, SetStateIfIdle, goalVars
  <2>3. ASSUME NEW o \in Order, NEW active \in BOOLEAN, ResumeWorkflow(o, active)
        PROVE  FALSE
    BY <1>0, <2>3 DEF ResumeWorkflow, Stalled, goalVars
  <2> QED
    BY <1>2, <1>5, <2>1, <2>2, <2>3 DEF WorkflowService, SubmitStationSequenceTask
<1>6. CASE TrafficService \/ PriorityService
  BY <1>0, <1>6 DEF TrafficService, PriorityService, ReprioritizeQueuedMission, queueVars, goalVars
<1>7. CASE DockService
  BY <1>0, <1>3, <1>7 DEF DockService, ReturnToDock, HandleLowBattery, HandleBatteryOk,
                          ResetMissionRecoveryState, queueVars, goalVars
<1>8. CASE GoalResponse \/ \E p \in BOOLEAN : Feedback(p)
  BY <1>0, <1>8 DEF GoalResponse, GoalAccepted, GoalRejected, Feedback, queueVars, goalVars
<1>9. CASE GoalResult
  <2>1. CompletedDock \in BOOLEAN
    BY DEF CompletedDock
  <2> QED
    BY <1>9, <2>1, ResultDoesNotStall DEF GoalResult, ResultFailed
<1>10. CASE Tick
  BY <1>0, <1>1, <1>10 DEF Tick
<1>11. CASE UNCHANGED vars
  BY <1>0, <1>11 DEF vars, queueVars, goalVars
<1> QED
  BY <1>4, <1>5, <1>6, <1>7, <1>8, <1>9, <1>10, <1>11 DEF Next, NextInQueueOrder

\* With auto_start_queue a running queue without an active mission has a start
\* requested, or the step that stopped it shows ERROR or WORKFLOW_PAUSED: no result,
\* rejection, pause or service stops it unseen.
THEOREM StallsAreShown == Spec => StallIsShown
<1>1. RunnerInv /\ [Next]_vars
        => [AutoStartQueue /\ Stalled'
              => Stalled \/ current_state' \in {"ERROR", "WORKFLOW_PAUSED"}]_vars
  BY StallStep
<1> QED
  BY <1>1, RunnerInvariance, PTL DEF Spec, StallIsShown

-----------------------------------------------------------------------------
(* Who owns route locks.                                                    *)

LEMMA ReleaseOwned ==
    ASSUME TrafficTypeOK, NEW ms, ReleaseRouteLocksForMissions(ms), NEW m \in Mission
    PROVE  OwnedBy(m)' = IF m \in ms THEN {} ELSE OwnedBy(m)
  BY RouteLocksAssumption DEF TrafficTypeOK, ReleaseRouteLocksForMissions, OwnedBy, Owner

LEMMA ReserveOwned ==
    ASSUME TrafficTypeOK, NEW n \in Mission, NEW locks, ReserveRouteLocksForMission(n, locks),
           NEW m \in Mission \ {n}
    PROVE  OwnedBy(m)' = OwnedBy(m)
  BY RouteLocksAssumption DEF TrafficTypeOK, ReserveRouteLocksForMission, CanReserve, OwnedBy, Owner

LEMMA TrafficServiceOwned ==
    ASSUME TrafficTypeOK, TrafficService, NEW m \in Mission
    PROVE  OwnedBy(m)' \subseteq OwnedBy(m)
<1>1. CASE \E s, t \in Station : BlockStationRoute(s, t) \/ UnblockStationRoute(s, t)
  BY <1>1, RouteLocksAssumption
     DEF TrafficTypeOK, BlockStationRoute, UnblockStationRoute, OwnedBy, Owner
<1>2. ASSUME NEW r \in Resource, ClearTrafficReservation(r)
      PROVE  OwnedBy(m)' \subseteq OwnedBy(m)
  BY <1>2, ReleaseOwned, RouteLocksAssumption DEF TrafficTypeOK, ClearTrafficReservation, OwnedBy, Owner
<1> QED
  BY <1>1, <1>2 DEF TrafficService

LEMMA PushedIds ==
    ASSUME NEW m, NEW p, PushEntries({Entry(m, p, next_queue_sequence)}, 1)
    PROVE  QueuedIds' = QueuedIds \cup {m}
<1> DEFINE new == Entry(m, p, next_queue_sequence)
<1>1. mission_queue' = mission_queue \cup {new}
  BY DEF PushEntries
<1>2. new.id = m
  BY DEF Entry
<1> HIDE DEF new
<1> QED
  BY <1>1, <1>2 DEF QueuedIds

\* The steps that touch the route locks at all.
LEMMA LockCases ==
    ASSUME RunnerInv, [Next]_vars
    PROVE  \/ UNCHANGED trafficVars
           \/ TrafficService
           \/ \E m \in StationOrder : /\ m \notin Live /\ m \in QueuedIds'
                                      /\ ReserveRouteLocksForMission(m, BuildRouteLockIds(PathOf[m]))
           \/ \E m \in Mission : m \notin Live' /\ ReleaseRouteLocksForMissions({m})
           \/ ReleaseRouteLocksForMissions({})
           \/ \E o \in Order, active \in BOOLEAN : CancelWorkflow(o, active)
           \/ /\ goal_handle /\ ReleaseRouteLocksForMissions({profile})
              /\ profile \notin Live' \/ current_state' = "RECOVERING"
<1>0. CoreInv
  BY DEF RunnerInv, TypeOK, CoreInv
<1>1. CASE MissionService
  <2>1. ASSUME NEW m \in Mission, NEW p \in Priority, NEW start \in BOOLEAN,
               NEW preempt \in BOOLEAN, SubmitStationTransportOrder(m, p, start, preempt)
        PROVE  /\ m \in StationOrder /\ m \notin Live /\ m \in QueuedIds'
               /\ ReserveRouteLocksForMission(m, BuildRouteLockIds(PathOf[m]))
    BY <2>1, PushedIds
       DEF SubmitStationTransportOrder, AdmitQueuedMissions, MissionIdActiveOrQueued, Live
  <2>2. ASSUME NEW m \in Mission, NEW cancel_active \in BOOLEAN,
               CancelQueuedMission(m, cancel_active)
        PROVE  UNCHANGED trafficVars \/ (m \notin Live' /\ ReleaseRouteLocksForMissions({m}))
    BY <1>0, <2>2 DEF CancelQueuedMission, QueuedIds, Live, ActiveMission, profileVars, goalVars,
                      CoreInv, ActiveInv
  <2> QED
    BY <1>1, <2>1, <2>2
       DEF MissionService, LoadProfile, StartMission, PauseMission, ResumeMission, CancelMission,
           EnqueueMission, PreemptMission
<1>2. CASE WorkflowService
  BY <1>2 DEF WorkflowService, SubmitStationSequenceTask, PauseWorkflow, ResumeWorkflow
<1>3. CASE DockService
  BY <1>3 DEF DockService, ReturnToDock, HandleBatteryOk, HandleLowBattery, ResetMissionRecoveryState
<1>4. CASE GoalResponse \/ (\E p \in BOOLEAN : Feedback(p)) \/ Tick \/ PriorityService
  BY <1>4 DEF GoalResponse, GoalAccepted, GoalRejected, Feedback, Tick, PriorityService,
              ReprioritizeQueuedMission
<1>5. CASE GoalResult
  <2>0. goal_handle /\ mission_active
    BY <1>0, <1>5 DEF GoalResult, ResultCanceled, ResultSucceeded, ResultFailed, HandleMissionFailure,
                      RecoverByRetry, RecoverByDock, RecoverByStopping, MissionEnds, CoreInv, ActiveInv
  <2>1. profile \notin QueuedIds \/ profile = None
    BY <1>0, <2>0 DEF CoreInv, ActiveInv, ActiveMission
  <2>2. None \notin Live'
    <3>1. None \notin QueuedIds'
      BY RunnerInvStep, MissionRunnerAssumption DEF RunnerInv, TypeOK, RunnerTypeOK, QueueEntry, QueuedIds
    <3> QED
      BY <3>1 DEF Live, ActiveMission
  <2>3. ASSUME ~mission_active', mission_queue' = mission_queue PROVE profile \notin Live'
    BY <2>1, <2>2, <2>3 DEF Live, ActiveMission, QueuedIds
  <2>4. ASSUME NEW code \in BOOLEAN, ResultCanceled(code)
        PROVE  ReleaseRouteLocksForMissions({profile}) /\ profile \notin Live'
    BY <2>3, <2>4 DEF ResultCanceled, MissionEnds
  <2>5. CASE ResultSucceeded(CompletedDock) /\ ~CompletedDock
    <3>1. DockMission # profile
      BY <2>5 DEF CompletedDock
    <3>2. QueuedIds' \subseteq QueuedIds \cup {DockMission} /\ ~mission_active'
      <4>1. QueueDockMission => QueuedIds' = QueuedIds \cup {DockMission}
        BY PushedIds DEF QueueDockMission
      <4> QED
        BY <2>5, <4>1 DEF ResultSucceeded, QueuedIds, MissionEnds
    <3>3. ReleaseRouteLocksForMissions({profile}) /\ profile \notin Live'
      BY <2>1, <2>2, <2>5, <3>1, <3>2 DEF ResultSucceeded, Live, ActiveMission
    <3> QED
      BY <2>0, <3>3
  <2>6. CASE ResultSucceeded(CompletedDock) /\ CompletedDock
    BY <2>6 DEF ResultSucceeded
  <2>7. CASE ResultFailed(CompletedDock)
    <3>1. CASE RecoverByRetry(CompletedDock)
      BY <2>0, <2>7, <3>1 DEF ResultFailed, RecoverByRetry
    <3>2. CASE RecoverByStopping(CompletedDock)
      BY <2>0, <2>3, <2>7, <3>2 DEF ResultFailed, RecoverByStopping, MissionEnds
    <3>3. CASE RecoverByDock(CompletedDock)
      <4>1. ~CompletedDock
        BY <3>3 DEF RecoverByDock, RecoveryAction
      <4>2. profile \notin Live'
        BY <2>1, <2>2, <2>3, <3>3, <4>1
           DEF RecoverByDock, CompletedDock, MissionEnds, DispatchMission, Live, ActiveMission, QueuedIds
      <4> QED
        BY <2>0, <2>7, <4>2 DEF ResultFailed
    <3> QED
      BY <2>7, <3>1, <3>2, <3>3 DEF ResultFailed, HandleMissionFailure
  <2> QED
    BY <1>5, <2>0, <2>4, <2>5, <2>6, <2>7 DEF GoalResult
<1>6. CASE UNCHANGED vars
  BY <1>6 DEF vars
<1> QED
  BY <1>1, <1>2, <1>3, <1>4, <1>5, <1>6 DEF Next, NextInQueueOrder

\* A step takes locks only for a station order it queues.
LEMMA OwnedGrows ==
    ASSUME RunnerInv, [Next]_vars, NEW m \in Mission, ~(OwnedBy(m)' \subseteq OwnedBy(m))
    PROVE  m \in StationOrder /\ m \in QueuedIds'
<1>0. TrafficTypeOK
  BY DEF RunnerInv, TypeOK
<1>1. ASSUME NEW ms, ReleaseRouteLocksForMissions(ms) PROVE FALSE
  BY <1>0, <1>1, ReleaseOwned
<1>2. ~TrafficService /\ ~UNCHANGED trafficVars
  BY <1>0, TrafficServiceOwned DEF trafficVars, OwnedBy
<1>3. ASSUME NEW n \in StationOrder, n \in QueuedIds',
             ReserveRouteLocksForMission(n, BuildRouteLockIds(PathOf[n]))
      PROVE  m = n
  BY <1>0, <1>3, ReserveOwned, MissionRunnerAssumption
<1> QED
  BY <1>1, <1>2, <1>3, LockCases DEF CancelWorkflow

\* Only station orders own route locks.
OrdersOwn == \A m \in Mission \ StationOrder : OwnedBy(m) = {}

LEMMA OrdersOwnInit == Init => OrdersOwn
  BY RouteLocksAssumption DEF Init, TrafficInit, OrdersOwn, OwnedBy

LEMMA OrdersOwnStep == RunnerInv /\ OrdersOwn /\ [Next]_vars => OrdersOwn'
  BY OwnedGrows DEF OrdersOwn

LEMMA OrdersOwnInvariance == Spec => []OrdersOwn
  BY OrdersOwnInit, OrdersOwnStep, RunnerInvariance, PTL DEF Spec

\* A mission that is no longer live, without ERROR, is a mission of a file or its
\* locks are released in that step.
LEMMA EndReleases ==
    ASSUME RunnerInv, [Next]_vars, NEW m \in Live, m \notin Live', current_state' # "ERROR"
    PROVE  m \in FileMission \/ \E ms : m \in ms /\ ReleaseRouteLocksForMissions(ms)
<1> DEFINE kept == QueuedIds \subseteq QueuedIds' /\ UNCHANGED <<profile, mission_active>>
           released == \E ms : m \in ms /\ ReleaseRouteLocksForMissions(ms)
<1>0. CoreInv /\ m # None /\ ~kept
  <2>1. CoreInv
    BY DEF RunnerInv, TypeOK, CoreInv
  <2>2. QueuedIds \subseteq Mission
    BY <2>1 DEF CoreInv, RunnerTypeOK, QueueEntry, QueuedIds
  <2>3. m # None
    BY <2>2, MissionRunnerAssumption DEF Live, ActiveMission
  <2> QED
    BY <2>1, <2>3 DEF Live, ActiveMission
<1>1. ASSUME ~mission_active,
             \E e \in mission_queue : Starts(e)
      PROVE  FALSE
  <2>1. PICK e \in mission_queue : Starts(e)
    BY <1>1
  <2>2. mission_active' /\ profile' = e.id /\ e.id # None
    BY <1>0, <2>1, MissionRunnerAssumption DEF Starts, RunnerInv, TypeOK, RunnerTypeOK, QueueEntry
  <2>3. m \in QueuedIds /\ ActiveMission' = {e.id}
    BY <1>1, <2>2 DEF Live, ActiveMission
  <2>4. m = e.id \/ m \in QueuedIds'
    BY <2>1, <2>3 DEF Starts, QueuedIds
  <2> QED
    BY <2>3, <2>4 DEF Live
<1>2. ASSUME ~mission_active, NEW running \in BOOLEAN, NEW requested \in BOOLEAN,
             StartNextQueuedMission(running, requested),
             UNCHANGED <<next_queue_sequence, paused_workflow_orders, trafficVars>>
      PROVE  FALSE
  BY <1>0, <1>1, <1>2, StartNextCases DEF QueuedIds
<1>3. ASSUME NEW entries, NEW n, PushEntries(entries, n), UNCHANGED <<profile, mission_active>>
      PROVE  FALSE
  BY <1>0, <1>3 DEF PushEntries, QueuedIds
<1>4. CASE MissionService
  <2>1. ~LoadProfile
    <3>1. ASSUME LoadProfile PROVE FALSE
      <4>1. /\ mission_file \in FileMission /\ profile' = mission_file
            /\ UNCHANGED <<mission_queue, mission_active>>
        BY <3>1 DEF LoadProfile, queueVars, goalVars
      <4>2. ActiveMission' = ActiveMission \/ (mission_active /\ profile = None)
        BY <1>0, <4>1 DEF CoreInv, ActiveInv, ActiveMission
      <4> QED
        BY <1>0, <4>1, <4>2 DEF Live, QueuedIds, ActiveMission
    <3> QED
      BY <3>1
  <2>2. ~StartMission
    <3>1. ASSUME StartMission PROVE FALSE
      <4>1. mission_queue # {}
        BY <3>1 DEF StartMission, Live, ActiveMission, QueuedIds
      <4> QED
        BY <1>0, <1>2, <3>1, <4>1 DEF StartMission, CoreInv, RunnerTypeOK
    <3> QED
      BY <3>1
  <2>3. ASSUME NEW n \in Mission, NEW cancel_active \in BOOLEAN,
               CancelQueuedMission(n, cancel_active)
        PROVE  released
    BY <1>0, <2>3 DEF CancelQueuedMission, Live, ActiveMission, QueuedIds, profileVars, goalVars
  <2>4. ASSUME NEW n \in Mission, NEW p \in Priority,
               \/ \E start \in BOOLEAN : EnqueueMission(n, p, start)
               \/ PreemptMission(n, p)
               \/ \E start, preempt \in BOOLEAN : SubmitStationTransportOrder(n, p, start, preempt)
        PROVE  FALSE
    BY <1>3, <2>4 DEF EnqueueMission, PreemptMission, SubmitStationTransportOrder,
                      AdmitQueuedMissions, profileVars, goalVars
  <2>5. ~PauseMission /\ ~ResumeMission /\ ~CancelMission
    BY <1>0 DEF PauseMission, ResumeMission, CancelMission, queueVars, profileVars, goalVars, QueuedIds
  <2> QED
    BY <1>4, <2>1, <2>2, <2>3, <2>4, <2>5 DEF MissionService
<1>5. CASE WorkflowService
  <2>1. ASSUME NEW o \in Order, NEW active \in BOOLEAN, CancelWorkflow(o, active)
        PROVE  released
    <3>1. m \in QueuedWorkflowMissions(o)
      BY <1>0, <2>1 DEF CancelWorkflow, QueuedWorkflowMissions, QueuedIds, Live, ActiveMission,
                        profileVars, goalVars
    <3> QED
      BY <2>1, <3>1 DEF CancelWorkflow
  <2> QED
    BY <1>0, <1>3, <1>5, <2>1
       DEF WorkflowService, SubmitStationSequenceTask, AdmitQueuedMissions, PauseWorkflow,
           ResumeWorkflow, profileVars, goalVars, QueuedIds
<1>6. CASE TrafficService \/ PriorityService
  <2>1. ASSUME NEW n \in Mission, NEW p \in Priority, ReprioritizeQueuedMission(n, p)
        PROVE  kept
    BY <1>0, <2>1, ReprioritizeKeepsQueue, TypesSplit, MissionRunnerAssumption
       DEF CoreInv, ReprioritizeQueuedMission, profileVars, goalVars
  <2> QED
    BY <1>0, <1>6, <2>1 DEF TrafficService, PriorityService, queueVars, profileVars, goalVars, QueuedIds
<1>7. CASE DockService
  <2>1. ~RequestDockReturn
    BY <1>0, <1>3 DEF RequestDockReturn, QueueDockMission, Live, ActiveMission, QueuedIds, queueVars,
                      profileVars, goalVars
  <2> QED
    BY <1>0, <1>7, <2>1 DEF DockService, ReturnToDock, HandleBatteryOk, HandleLowBattery,
                            ResetMissionRecoveryState, queueVars, profileVars, goalVars, QueuedIds
<1>8. CASE GoalResponse \/ \E p \in BOOLEAN : Feedback(p)
  BY <1>0, <1>8 DEF GoalResponse, GoalAccepted, GoalRejected, Feedback, queueVars, profileVars, goalVars,
                    QueuedIds
<1>9. CASE GoalResult
  <2>1. QueuedIds \subseteq QueuedIds'
    BY <1>9 DEF GoalResult, ResultCanceled, ResultSucceeded, ResultFailed, HandleMissionFailure,
                RecoverByRetry, RecoverByDock, RecoverByStopping, QueueDockMission, PushEntries, QueuedIds
  <2>2. m = profile
    BY <2>1 DEF Live, ActiveMission
  <2>3. ReleaseRouteLocksForMissions({profile}) \/ profile = DockMission
    BY <1>9 DEF GoalResult, ResultCanceled, ResultSucceeded, ResultFailed, CompletedDock
  <2> QED
    BY <2>2, <2>3, MissionRunnerAssumption
<1>10. CASE Tick
  BY <1>0, <1>2, <1>10 DEF Tick, CoreInv, RunnerTypeOK
<1>11. CASE UNCHANGED vars
  BY <1>0, <1>11 DEF vars, queueVars, profileVars, goalVars, QueuedIds
<1> QED
  BY <1>4, <1>5, <1>6, <1>7, <1>8, <1>9, <1>10, <1>11 DEF Next, NextInQueueOrder

\* Without ERROR no lock is left without a mission.
LEMMA OrphansStep ==
    ASSUME RunnerInv, OrdersOwn, [Next]_vars, current_state' # "ERROR"
    PROVE  Orphans' \subseteq Orphans
<1> SUFFICES ASSUME NEW m \in Orphans'  PROVE m \in Orphans
  OBVIOUS
<1>0. TrafficTypeOK /\ m \in Mission /\ OwnedBy(m)' # {} /\ m \notin Live'
  BY DEF Orphans, RunnerInv, TypeOK
<1>1. OwnedBy(m)' \subseteq OwnedBy(m)
  BY <1>0, OwnedGrows DEF Live
<1>2. m \notin Live
  BY <1>0, <1>1, EndReleases, ReleaseOwned, MissionRunnerAssumption DEF OrdersOwn
<1> QED
  BY <1>0, <1>1, <1>2 DEF Orphans

\* A mission leaves locks behind only in a step that gives it up with ERROR: every
\* other end of a mission, for any routes and any number of orders, releases them.
THEOREM LocksAreReleased == Spec => LocksAreLeakedOnlyByErrors
<1>1. RunnerInv /\ OrdersOwn /\ [Next]_vars
        => [Orphans' \subseteq Orphans \/ current_state' = "ERROR"]_vars
  BY OrphansStep
<1> QED
  BY <1>1, RunnerInvariance, OrdersOwnInvariance, PTL DEF Spec, LocksAreLeakedOnlyByErrors

\* What takes the route of a station order away that stays live.
LEMMA LiveRouteStep ==
    ASSUME RunnerInv, [Next]_vars, NEW m \in StationOrder,
           m \in Live, m \in Live', OwnedBy(m)' # OwnedBy(m)
    PROVE  \/ TrafficService
           \/ m \in ActiveMission /\ current_state' = "RECOVERING"
           \/ m \in ActiveMission /\ \E o \in Order : CancelWorkflow(o, TRUE)
<1>0. TrafficTypeOK /\ m \in Mission /\ m # None /\ CoreInv
  BY MissionRunnerAssumption DEF RunnerInv, TypeOK, CoreInv
<1>1. ASSUME NEW ms, ReleaseRouteLocksForMissions(ms) PROVE m \in ms
  BY <1>0, <1>1, ReleaseOwned
<1>2. ASSUME NEW n \in StationOrder, n \notin Live,
             ReserveRouteLocksForMission(n, BuildRouteLockIds(PathOf[n]))
      PROVE  FALSE
  BY <1>0, <1>2, ReserveOwned, MissionRunnerAssumption
<1>3. ASSUME NEW o \in Order, NEW active \in BOOLEAN, CancelWorkflow(o, active)
      PROVE  m \in ActiveMission /\ CancelWorkflow(o, TRUE)
  <2>1. m \notin QueuedWorkflowMissions(o)
    BY <1>0, <1>3 DEF CancelWorkflow, QueuedWorkflowMissions, QueuedIds, Live, CoreInv, ActiveInv,
                            ActiveMission, profileVars, goalVars
  <2>2. active /\ m \in ActiveWorkflowMission(o)
    BY <1>1, <1>3, <2>1 DEF CancelWorkflow
  <2> QED
    BY <1>3, <2>2 DEF ActiveWorkflowMission
<1>4. ASSUME goal_handle, ReleaseRouteLocksForMissions({profile}),
             profile \notin Live' \/ current_state' = "RECOVERING"
      PROVE  m \in ActiveMission /\ current_state' = "RECOVERING"
  BY <1>0, <1>1, <1>4 DEF CoreInv, ActiveInv, ActiveMission
<1>5. ~UNCHANGED trafficVars
  BY DEF trafficVars, OwnedBy
<1> QED
  BY <1>1, <1>2, <1>3, <1>4, <1>5, LockCases

\* A live station order keeps its route until it ends, but for the traffic services,
\* the release before a retry and the early release of cancel_workflow.
THEOREM LiveOrdersKeepRoutes == Spec => LiveOrderKeepsItsRoute
<1>1. RunnerInv /\ [Next]_vars
        => [\A m \in StationOrder :
              /\ m \in Live /\ OwnedBy(m) # {}
              /\ m \in Live' /\ OwnedBy(m)' # OwnedBy(m)
              => \/ TrafficService
                 \/ m \in ActiveMission /\ current_state' = "RECOVERING"
                 \/ m \in ActiveMission /\ \E o \in Order : CancelWorkflow(o, TRUE)]_vars
  BY LiveRouteStep
<1> QED
  BY <1>1, RunnerInvariance, PTL DEF Spec, LiveOrderKeepsItsRoute

-----------------------------------------------------------------------------
(* The legs of a station sequence.                                          *)

\* A retried leg is put before the legs that wait for it.
RetriesComeFirst == RecoveryPolicy \in RetryPolicies => \A p \in Priority : p < RecoveryPriority

\* While leg a has to come before leg b: b is not executed before a, it is listed
\* after a, and it has none of the priorities of a retry as long as a is there.
InOrder(a, b) ==
    /\ b \in ActiveMission => a \notin QueuedIds
    /\ \A e, f \in mission_queue : e.id = a /\ f.id = b => Before(e, f)
    /\ RecoveryPolicy \in RetryPolicies =>
           \A f \in mission_queue : f.id = b /\ a \in Live => f.priority < RecoveryPriority

LegsInv == \A o \in Order : \A i, j \in DOMAIN Legs[o] : i < j => InOrder(Legs[o][i], Legs[o][j])

LegIds(o) == {Legs[o][i] : i \in DOMAIN Legs[o]}

LEMMA LegFacts ==
    ASSUME NEW o \in Order
    PROVE  /\ Legs[o] \in Seq(Mission)
           /\ LegIds(o) \subseteq Mission
           /\ LegIds(o) \cap (FileMission \cup StationOrder \cup TransportOrder \cup {DockMission}) = {}
           /\ \A m \in LegIds(o) : WorkflowOf[m] = o
           /\ \A i, j \in DOMAIN Legs[o] : Legs[o][i] = Legs[o][j] => i = j
  BY MissionRunnerAssumption DEF LegIds

\* Retrying the active mission.
Retries ==
    /\ RecoveryPolicy \in RetryPolicies /\ profile \in ActiveMission
    /\ mission_queue' = mission_queue \cup {Entry(profile, RecoveryPriority, next_queue_sequence)}
    /\ ActiveMission' = {}

SubmitsSequence(o) == \E p \in Priority : \E start, preempt \in BOOLEAN :
                         SubmitStationSequenceTask(o, p, start, preempt)

\* A step that queues no leg of ids and starts none.
LegQuiet(ids) ==
    /\ \A e \in mission_queue' : e.id \in ids => e \in mission_queue
    /\ ActiveMission' \cap ids \subseteq ActiveMission

LEMMA QuietKeepsOrder ==
    ASSUME NEW ids, NEW a \in ids, NEW b \in ids, InOrder(a, b), LegQuiet(ids)
    PROVE  InOrder(a, b)'
<1>1. QueuedIds' \cap ids \subseteq QueuedIds /\ Live' \cap ids \subseteq Live
  BY DEF LegQuiet, QueuedIds, Live
<1> QED
  BY <1>1 DEF InOrder, LegQuiet, Before

LEMMA StartKeepsOrder ==
    ASSUME CoreInv, NEW a, NEW b, InOrder(a, b), a # b, WorkflowOf[a] = WorkflowOf[b],
           NEW n \in mission_queue, Starts(n)
    PROVE  InOrder(a, b)'
<1>1. /\ mission_queue' \subseteq mission_queue /\ ActiveMission' \subseteq {n.id}
      /\ n.id \in QueuedIds /\ QueuedIds' \subseteq QueuedIds /\ Live' \subseteq Live
  BY DEF Starts, QueuedIds, Live
<1>2. b \in ActiveMission' => a \notin QueuedIds'
  <2> SUFFICES ASSUME b \in ActiveMission', NEW e \in mission_queue', e.id = a
               PROVE  FALSE
    BY DEF QueuedIds
  <2>1. n.id = b /\ e \in mission_queue /\ e # n
    BY <1>1
  <2>2. Before(e, n)
    BY <2>1 DEF InOrder
  <2>3. e \in Runnable /\ Before(n, e)
    BY <2>1 DEF Starts, NextRunnable, Runnable, BelongsToPausedWorkflow
  <2>4. {n.priority, n.sequence, e.priority, e.sequence} \subseteq Int
    BY <2>1 DEF CoreInv, RunnerTypeOK, QueueEntry
  <2> QED
    BY <2>2, <2>3, <2>4 DEF Before
<1> QED
  BY <1>1, <1>2 DEF InOrder, Before

LEMMA RetryKeepsOrder ==
    ASSUME CoreInv, NEW a, NEW b, InOrder(a, b), a # b, Retries
    PROVE  InOrder(a, b)'
<1> DEFINE new == Entry(profile, RecoveryPriority, next_queue_sequence)
<1>1. new.id = profile /\ new.priority = RecoveryPriority
  BY DEF Entry
<1>2. /\ mission_queue' = mission_queue \cup {new}
      /\ ActiveMission' = {} /\ profile \in ActiveMission /\ ActiveMission \subseteq {profile}
  BY DEF Retries, ActiveMission
<1> HIDE DEF new
<1>3. QueuedIds' = QueuedIds \cup {profile} /\ Live' = Live
  BY <1>1, <1>2 DEF QueuedIds, Live
<1>4. ASSUME NEW e \in mission_queue', NEW f \in mission_queue', e.id = a, f.id = b
      PROVE  Before(e, f)
  <2>1. CASE e \in mission_queue /\ f \in mission_queue
    BY <1>4, <2>1 DEF InOrder
  <2>2. CASE f = new
    BY <1>1, <1>2, <1>4, <2>2 DEF InOrder, QueuedIds
  <2>3. CASE e = new /\ f \in mission_queue
    <3>1. f.priority < RecoveryPriority
      BY <1>1, <1>2, <1>4, <2>3 DEF InOrder, Live, Retries
    <3>2. f.priority \in Int /\ RecoveryPriority \in Int
      BY <2>3, MissionRunnerAssumption DEF CoreInv, RunnerTypeOK, QueueEntry
    <3> QED
      BY <1>1, <2>3, <3>1, <3>2 DEF Before
  <2> QED
    BY <1>2, <2>1, <2>2, <2>3
<1>5. ASSUME NEW f \in mission_queue', f.id = b, a \in Live', RecoveryPolicy \in RetryPolicies
      PROVE  f.priority < RecoveryPriority
  <2>1. CASE f = new
    BY <1>1, <1>2, <1>3, <1>5, <2>1 DEF InOrder, Live
  <2> QED
    BY <1>2, <1>3, <1>5, <2>1 DEF InOrder
<1> QED
  BY <1>2, <1>4, <1>5 DEF InOrder, Before

LEMMA SubmitKeepsOrder ==
    ASSUME CoreInv, RetriesComeFirst, NEW o \in Order, SubmitsSequence(o),
           NEW i \in DOMAIN Legs[o], NEW j \in DOMAIN Legs[o], i < j
    PROVE  InOrder(Legs[o][i], Legs[o][j])'
<1> DEFINE a == Legs[o][i]
           b == Legs[o][j]
<1>0. PICK p \in Priority : \E start, preempt \in BOOLEAN :
          SubmitStationSequenceTask(o, p, start, preempt)
  BY DEF SubmitsSequence
<1> DEFINE leg(k) == Entry(Legs[o][k], p, next_queue_sequence + k - 1)
<1>1. /\ mission_queue' = mission_queue \cup {leg(k) : k \in DOMAIN Legs[o]}
      /\ a \notin QueuedIds /\ b \notin QueuedIds
      /\ a \notin ActiveMission /\ b \notin ActiveMission /\ ActiveMission' = ActiveMission
  BY <1>0 DEF SubmitStationSequenceTask, AdmitQueuedMissions, PushEntries, MissionIdActiveOrQueued,
              ActiveMission, profileVars, goalVars
<1>2. \A k \in DOMAIN Legs[o] : /\ leg(k).id = Legs[o][k] /\ leg(k).priority = p
                               /\ leg(k).sequence = next_queue_sequence + k - 1
  BY DEF Entry
<1> HIDE DEF leg
<1>3. ASSUME NEW e \in mission_queue', NEW k \in DOMAIN Legs[o], e.id = Legs[o][k], k \in {i, j}
      PROVE  e = leg(k)
  BY <1>1, <1>2, <1>3, LegFacts DEF QueuedIds
<1>4. ASSUME NEW e \in mission_queue', NEW f \in mission_queue', e.id = a, f.id = b
      PROVE  Before(e, f)
  <2>1. e = leg(i) /\ f = leg(j)
    BY <1>3, <1>4
  <2>2. i \in Int /\ j \in Int /\ next_queue_sequence \in Int
    BY LegFacts DEF CoreInv, RunnerTypeOK
  <2> QED
    BY <1>2, <2>1, <2>2 DEF Before
<1>5. ASSUME NEW f \in mission_queue', f.id = b, RecoveryPolicy \in RetryPolicies
      PROVE  f.priority < RecoveryPriority
  BY <1>2, <1>3, <1>5 DEF RetriesComeFirst
<1> QED
  BY <1>1, <1>4, <1>5 DEF InOrder, Before

\* What a step of the runner, the service reprioritize_queued_mission left out, is
\* for the legs of a sequence.
LEMMA LegCases ==
    ASSUME CoreInv, [NextInQueueOrder]_vars, NEW o \in Order
    PROVE  \/ LegQuiet(LegIds(o))
           \/ \E e \in mission_queue : Starts(e)
           \/ Retries
           \/ SubmitsSequence(o)
           \/ mission_queue' = {}
<1>0. ASSUME ActiveMission' \cap LegIds(o) \subseteq ActiveMission, mission_queue' \subseteq mission_queue
      PROVE  LegQuiet(LegIds(o))
  BY <1>0 DEF LegQuiet
<1>1. ASSUME NEW m, m \notin LegIds(o), NEW p, PushEntries({Entry(m, p, next_queue_sequence)}, 1),
             ActiveMission' \subseteq ActiveMission
      PROVE  LegQuiet(LegIds(o))
  <2> DEFINE new == Entry(m, p, next_queue_sequence)
  <2>1. mission_queue' = mission_queue \cup {new} /\ new.id = m
    BY <1>1 DEF PushEntries, Entry
  <2> HIDE DEF new
  <2> QED
    BY <1>1, <2>1 DEF LegQuiet
<1>2. DockMission \notin LegIds(o) /\ LegIds(o) \cap (FileMission \cup TransportOrder \cup StationOrder) = {}
  BY LegFacts
<1>3. \/ ActiveMission' \cap LegIds(o) \subseteq ActiveMission
      \/ \E e \in mission_queue : Starts(e)
      \/ mission_queue' = {}
  BY <1>2, ActiveCases DEF Next
<1>4. CASE MissionService
  <2>1. ASSUME NEW m \in FileMission \cup TransportOrder \cup StationOrder, NEW p, NEW start \in BOOLEAN,
               NEW preempt \in BOOLEAN, NEW show \in BOOLEAN,
               AdmitQueuedMissions({Entry(m, p, next_queue_sequence)}, 1, start, preempt, show)
        PROVE  LegQuiet(LegIds(o))
    BY <1>1, <1>2, <2>1 DEF AdmitQueuedMissions, ActiveMission, profileVars, goalVars
  <2>2. \/ LegQuiet(LegIds(o))
        \/ mission_queue' \subseteq mission_queue
    <3>1. ASSUME NEW n \in Mission, NEW p \in Priority,
                   \/ \E start \in BOOLEAN : EnqueueMission(n, p, start)
                   \/ PreemptMission(n, p)
                   \/ \E start, preempt \in BOOLEAN : SubmitStationTransportOrder(n, p, start, preempt)
          PROVE  LegQuiet(LegIds(o))
      BY <2>1, <3>1 DEF EnqueueMission, PreemptMission, SubmitStationTransportOrder
    <3>2. CASE StartMission \/ \E n \in Mission, active \in BOOLEAN : CancelQueuedMission(n, active)
      BY <3>2 DEF StartMission, StartNextQueuedMission, CancelQueuedMission, queueVars
    <3>3. CASE LoadProfile \/ PauseMission \/ ResumeMission \/ CancelMission
      BY <3>3 DEF LoadProfile, PauseMission, ResumeMission, CancelMission, queueVars
    <3> QED
      BY <1>4, <3>1, <3>2, <3>3 DEF MissionService
  <2> QED
    BY <1>0, <1>3, <2>2
<1>5. CASE WorkflowService
  <2>1. ASSUME NEW q \in Order \ {o}, SubmitsSequence(q)
        PROVE  LegQuiet(LegIds(o))
    <3>1. PICK p \in Priority : \E start, preempt \in BOOLEAN :
              SubmitStationSequenceTask(q, p, start, preempt)
      BY <2>1 DEF SubmitsSequence
    <3> DEFINE leg(k) == Entry(Legs[q][k], p, next_queue_sequence + k - 1)
    <3>2. /\ mission_queue' = mission_queue \cup {leg(k) : k \in DOMAIN Legs[q]}
          /\ ActiveMission' = ActiveMission
      BY <3>1 DEF SubmitStationSequenceTask, AdmitQueuedMissions, PushEntries, ActiveMission,
                  profileVars, goalVars
    <3>3. \A k \in DOMAIN Legs[q] : leg(k).id = Legs[q][k] /\ Legs[q][k] \notin LegIds(o)
      <4>1. \A k \in DOMAIN Legs[q] : leg(k).id = Legs[q][k] /\ Legs[q][k] \in LegIds(q)
        BY DEF Entry, LegIds
      <4>2. LegIds(q) \cap LegIds(o) = {}
        BY <2>1, LegFacts
      <4> QED
        BY <4>1, <4>2
    <3> HIDE DEF leg
    <3> QED
      BY <3>2, <3>3 DEF LegQuiet
  <2>2. ASSUME NEW q \in Order, NEW active \in BOOLEAN,
               CancelWorkflow(q, active) \/ PauseWorkflow(q, active) \/ ResumeWorkflow(q, active)
        PROVE  LegQuiet(LegIds(o))
    BY <1>0, <2>2 DEF CancelWorkflow, PauseWorkflow, ResumeWorkflow, ActiveMission, profileVars, goalVars
  <2> QED
    BY <1>5, <2>1, <2>2 DEF WorkflowService, SubmitsSequence
<1>6. CASE TrafficService \/ GoalResponse \/ (\E p \in BOOLEAN : Feedback(p)) \/ Tick
           \/ UNCHANGED vars
  <2>1. mission_queue' \subseteq mission_queue
    BY <1>6 DEF TrafficService, GoalResponse, GoalAccepted, GoalRejected, Feedback, Tick,
                StartNextQueuedMission, vars, queueVars
  <2> QED
    BY <1>0, <1>3, <2>1
<1>7. CASE DockService
  <2>1. (QueueDockMission /\ UNCHANGED <<profileVars, goalVars>>) \/ mission_queue' = mission_queue
    BY <1>7 DEF DockService, ReturnToDock, HandleBatteryOk, HandleLowBattery, RequestDockReturn,
                ResetMissionRecoveryState, queueVars
  <2> QED
    BY <1>0, <1>1, <1>2, <1>3, <2>1 DEF QueueDockMission, ActiveMission, profileVars, goalVars
<1>8. CASE GoalResult
  <2>1. ~mission_active' => ActiveMission' = {}
    BY DEF ActiveMission
  <2>2. CASE RecoverByRetry(CompletedDock)
    <3>1. mission_active /\ ~mission_active' /\ profile # None
      BY <2>2 DEF RecoverByRetry, MissionEnds, CoreInv, ActiveInv
    <3>2. RecoveryPolicy \in RetryPolicies
      BY <2>2 DEF RecoverByRetry, RecoveryAction
    <3> QED
      BY <2>1, <2>2, <3>1, <3>2 DEF RecoverByRetry, PushEntries, Retries, ActiveMission
  <2>3. CASE ResultSucceeded(CompletedDock)
    <3>1. ActiveMission' = {} /\ (QueueDockMission \/ mission_queue' = mission_queue)
      BY <2>1, <2>3 DEF ResultSucceeded, MissionEnds
    <3> QED
      BY <1>0, <1>1, <1>2, <3>1 DEF QueueDockMission
  <2>4. CASE mission_queue' = mission_queue
    BY <1>0, <1>3, <2>4
  <2> QED
    BY <1>8, <2>2, <2>3, <2>4 DEF GoalResult, ResultCanceled, ResultFailed, HandleMissionFailure,
                                  RecoverByDock, RecoverByStopping
<1> QED
  BY <1>4, <1>5, <1>6, <1>7, <1>8 DEF NextInQueueOrder

LEMMA LegsStep == RetriesComeFirst /\ RunnerInv /\ LegsInv /\ [NextInQueueOrder]_vars => LegsInv'
<1> SUFFICES ASSUME RetriesComeFirst, RunnerInv, LegsInv, [NextInQueueOrder]_vars,
                    NEW o \in Order, NEW i \in DOMAIN Legs[o], NEW j \in DOMAIN Legs[o], i < j
             PROVE  InOrder(Legs[o][i], Legs[o][j])'
  BY DEF LegsInv
<1>1. CoreInv /\ InOrder(Legs[o][i], Legs[o][j])
  BY DEF RunnerInv, TypeOK, CoreInv, LegsInv
<1>2. /\ Legs[o][i] \in LegIds(o) /\ Legs[o][j] \in LegIds(o)
      /\ Legs[o][i] # Legs[o][j] /\ WorkflowOf[Legs[o][i]] = WorkflowOf[Legs[o][j]]
  <2>1. i \in Int /\ j \in Int
    BY LegFacts
  <2> QED
    BY <2>1, LegFacts DEF LegIds
<1>3. CASE mission_queue' = {}
  BY <1>3 DEF InOrder, QueuedIds
<1> QED
  BY <1>1, <1>2, <1>3, LegCases, QuietKeepsOrder, StartKeepsOrder, RetryKeepsOrder, SubmitKeepsOrder

\* A leg of a station sequence is not started while an earlier leg is queued, through
\* pauses, cancellations, preemption and recovery - provided that clients ask for
\* priorities below failure_recovery_priority, or a retried leg would be queued
\* behind the legs that wait for it, and that no operator reprioritizes the legs.
THEOREM LegsKeepOrder ==
    ASSUME RetriesComeFirst
    PROVE  SpecWithoutReprioritize => []LegsInOrder
<1>1. Init => RunnerInv /\ LegsInv
  BY RunnerInvInit DEF Init, LegsInv, InOrder, ActiveMission, Live, QueuedIds
<1>2. RunnerInv /\ LegsInv /\ [NextInQueueOrder]_vars => RunnerInv' /\ LegsInv'
  BY RunnerInvStep, LegsStep DEF Next
<1>3. LegsInv => LegsInOrder
  BY DEF LegsInv, InOrder, LegsInOrder
<1> QED
  BY <1>1, <1>2, <1>3, PTL DEF SpecWithoutReprioritize

=============================================================================
