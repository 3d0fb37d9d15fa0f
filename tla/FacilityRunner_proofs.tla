------------------------- MODULE FacilityRunner_proofs -------------------------
(***************************************************************************)
(* Proofs about the docks, chargers, doors and lifts of the mission        *)
(* runner.  RunnerInv stays invariant under their handlers; FacilityInv    *)
(* ties the reservations to what the missions know of them.  A handler     *)
(* changes the reservations in one of a few ways, each with a lemma.       *)
(***************************************************************************)
EXTENDS FacilityRunner, MissionRunner_proofs

-----------------------------------------------------------------------------
(* The runner under the handlers of facilities.                            *)

LEMMA CoreOfRunner == RunnerInv <=> CoreInv /\ TrafficInv
  BY DEF RunnerInv, TypeOK, CoreInv, TrafficInv

LEMMA RunnerLeftAlone ==
    ASSUME RunnerInv, UNCHANGED vars
    PROVE  RunnerInv' /\ Live' = Live
<1>1. RunnerInv'
  BY RunnerInvStep
<1> QED
  BY <1>1 DEF vars, queueVars, profileVars, goalVars, Live, ActiveMission, QueuedIds

\* The steps of the runner that leave the facilities alone give up no mission
\* without ERROR.
LEMMA RunnerStepCases ==
    ASSUME RunnerInv, RunnerStep
    PROVE  RunnerInv' /\ (Live \subseteq Live' \/ current_state' = "ERROR")
<1>1. CoreInv
  BY CoreOfRunner
<1>2. RunnerInv'
  BY RunnerInvStep DEF RunnerStep, Next, NextInQueueOrder, MissionService, DockService
<1> SUFFICES Live \subseteq Live' \/ current_state' = "ERROR"
  BY <1>2
<1>3. ASSUME UNCHANGED <<profile, mission_active>>, QueuedIds \subseteq QueuedIds'
      PROVE  Live \subseteq Live'
  BY <1>3 DEF Live, ActiveMission
<1>4. ASSUME ~mission_active, NEW e \in mission_queue, Starts(e)
      PROVE  Live \subseteq Live' \/ current_state' = "ERROR"
  <2>1. e.id # None
    BY <1>1, MissionRunnerAssumption DEF CoreInv, RunnerTypeOK, QueueEntry
  <2>2. CASE mission_active'
    <3>1. ActiveMission' = {e.id}
      BY <1>4, <2>1, <2>2 DEF Starts, ActiveMission
    <3>2. QueuedIds \subseteq QueuedIds' \cup {e.id}
      BY <1>4 DEF Starts, QueuedIds
    <3> QED
      BY <1>4, <3>1, <3>2 DEF Live, ActiveMission
  <2> QED
    BY <1>4, <2>2 DEF Starts
<1>5. ASSUME ~mission_active, NEW running \in BOOLEAN, NEW requested \in BOOLEAN,
             StartNextQueuedMission(running, requested),
             UNCHANGED <<next_queue_sequence, paused_workflow_orders, trafficVars>>
      PROVE  Live \subseteq Live' \/ current_state' = "ERROR"
  BY <1>1, <1>3, <1>4, <1>5, StartNextCases DEF QueuedIds
<1>6. CASE LoadProfile
  <2>1. UNCHANGED <<mission_queue, mission_active>>
    BY <1>6 DEF LoadProfile, queueVars, goalVars
  <2>2. CASE mission_file \in FileMission
    <3>1. profile' = mission_file
      BY <1>6, <2>2 DEF LoadProfile
    <3>2. ActiveMission \subseteq ActiveMission'
      BY <1>1, <2>1, <3>1, <2>2 DEF CoreInv, ActiveInv, ActiveMission
    <3> QED
      BY <2>1, <3>2 DEF Live, QueuedIds
  <2> QED
    BY <1>6, <2>2 DEF LoadProfile
<1>7. CASE StartMission
  <2>1. CASE mission_queue # {}
    BY <1>1, <1>5, <1>7, <2>1 DEF StartMission, CoreInv, RunnerTypeOK
  <2>2. CASE mission_queue = {}
    BY <1>7, <2>2 DEF StartMission, Live, ActiveMission, QueuedIds
  <2> QED
    BY <2>1, <2>2
<1>8. CASE CancelMission
  BY <1>3, <1>8 DEF CancelMission, queueVars, profileVars, goalVars, QueuedIds
<1>9. CASE Tick
  BY <1>1, <1>5, <1>9 DEF Tick, CoreInv, RunnerTypeOK
<1>10. CASE GoalResponse
  <2>1. CASE GoalAccepted
    BY <1>3, <2>1 DEF GoalAccepted, queueVars, profileVars, QueuedIds
  <2> QED
    BY <1>10, <2>1 DEF GoalResponse, GoalRejected
<1>11. CASE ReturnToDock
  <2>1. ASSUME NEW entries, NEW n, PushEntries(entries, n) PROVE QueuedIds \subseteq QueuedIds'
    BY <2>1 DEF PushEntries, QueuedIds
  <2>2. CASE ~mission_active /\ UNCHANGED mission_queue
    BY <2>2 DEF Live, ActiveMission, QueuedIds
  <2> QED
    BY <1>3, <1>11, <2>1, <2>2
    DEF ReturnToDock, RequestDockReturn, QueueDockMission, queueVars, profileVars, goalVars,
        QueuedIds
<1> QED
  BY <1>6, <1>7, <1>8, <1>9, <1>10, <1>11 DEF RunnerStep

\* Nor do its other services.
LEMMA RunnerServiceCases ==
    ASSUME RunnerInv, RunnerService
    PROVE  RunnerInv' /\ (Live \subseteq Live' \/ current_state' = "ERROR")
<1>1. CoreInv
  BY CoreOfRunner
<1>2. RunnerInv'
  BY RunnerInvStep DEF RunnerService, Next, NextInQueueOrder, MissionService, WorkflowService, DockService
<1> SUFFICES Live \subseteq Live' \/ current_state' = "ERROR"
  BY <1>2
<1>3. ASSUME UNCHANGED <<profile, mission_active>>, QueuedIds \subseteq QueuedIds'
      PROVE  Live \subseteq Live'
  BY <1>3 DEF Live, ActiveMission
<1>4. ASSUME NEW entries, NEW n, PushEntries(entries, n)
      PROVE  QueuedIds \subseteq QueuedIds'
  BY <1>4 DEF PushEntries, QueuedIds
<1>5. ASSUME NEW entries, NEW n, NEW start, NEW preempt, NEW shown,
             AdmitQueuedMissions(entries, n, start, preempt, shown)
      PROVE  Live \subseteq Live'
  BY <1>3, <1>4, <1>5 DEF AdmitQueuedMissions, profileVars, goalVars
<1>6. CASE UNCHANGED <<queueVars, profile, mission_active>>
  BY <1>3, <1>6 DEF queueVars, QueuedIds
<1>7. CASE \/ PauseMission \/ ResumeMission \/ \E p \in BOOLEAN : Feedback(p)
           \/ TrafficService \/ HandleBatteryOk \/ ResetMissionRecoveryState
  BY <1>6, <1>7 DEF PauseMission, ResumeMission, Feedback, TrafficService, HandleBatteryOk,
                    ResetMissionRecoveryState, profileVars, goalVars
<1>8. CASE \E m \in Mission, p \in Priority :
              \/ PreemptMission(m, p)
              \/ \E start \in BOOLEAN : EnqueueMission(m, p, start)
              \/ \E start, preempt \in BOOLEAN : SubmitStationTransportOrder(m, p, start, preempt)
  BY <1>5, <1>8 DEF PreemptMission, EnqueueMission, SubmitStationTransportOrder
<1>9. ASSUME NEW o \in Order,
             \/ \E p \in Priority : \E start, preempt \in BOOLEAN :
                   SubmitStationSequenceTask(o, p, start, preempt)
             \/ \E active \in BOOLEAN : PauseWorkflow(o, active) \/ ResumeWorkflow(o, active)
      PROVE  Live \subseteq Live'
  <2>1. CASE \E active \in BOOLEAN : PauseWorkflow(o, active) \/ ResumeWorkflow(o, active)
    BY <1>3, <2>1 DEF PauseWorkflow, ResumeWorkflow, profileVars, goalVars, QueuedIds
  <2> QED
    BY <1>5, <1>9, <2>1 DEF SubmitStationSequenceTask
<1>10. ASSUME NEW m \in Mission, NEW p \in Priority, ReprioritizeQueuedMission(m, p)
       PROVE  Live \subseteq Live'
  BY <1>1, <1>3, <1>10, ReprioritizeKeepsQueue, TypesSplit, MissionRunnerAssumption
     DEF CoreInv, ReprioritizeQueuedMission, profileVars, goalVars
<1>11. CASE HandleLowBattery
  <2>1. CASE ~mission_active /\ UNCHANGED mission_queue
    BY <2>1 DEF Live, ActiveMission, QueuedIds
  <2> QED
    BY <1>3, <1>4, <1>11, <2>1
       DEF HandleLowBattery, RequestDockReturn, QueueDockMission, queueVars, profileVars, goalVars,
           QueuedIds
<1> QED
  BY <1>7, <1>8, <1>9, <1>10, <1>11 DEF RunnerService, PriorityService

\* A request for a facility queues its mission.
LEMMA FacilityAdmission ==
    ASSUME RunnerInv, NEW m \in Mission, NEW p \in Priority,
           NEW start \in BOOLEAN, NEW preempt \in BOOLEAN,
           AdmitFacilityMission(m, p, start, preempt)
    PROVE  RunnerInv' /\ m \notin Live /\ Live' = Live \cup {m}
<1>1. /\ ~MissionIdActiveOrQueued(m) /\ UNCHANGED trafficVars
      /\ AdmitQueuedMissions({Entry(m, p, next_queue_sequence)}, 1, start, preempt, TRUE)
  BY DEF AdmitFacilityMission
<1>2. CoreInv'
  BY <1>1, AdmitOneStep, CoreOfRunner
<1>3. TrafficInv'
  BY <1>1, TrafficInvStep, CoreOfRunner
<1>4. QueuedIds' = QueuedIds \cup {m} /\ ActiveMission' = ActiveMission
  BY <1>1, PushedIds DEF AdmitQueuedMissions, profileVars, goalVars, ActiveMission
<1>5. m \notin Live /\ Live' = Live \cup {m}
  BY <1>1, <1>4 DEF Live, MissionIdActiveOrQueued
<1>6. RunnerInv'
  BY <1>2, <1>3 DEF RunnerInv, TypeOK, CoreInv, TrafficInv
<1> QED
  BY <1>5, <1>6

\* A cancellation removes the mission it names or asks the active one to stop.
LEMMA CancelCases ==
    ASSUME RunnerInv, NEW m \in Mission, NEW cancel_active \in BOOLEAN,
           CancelQueuedMission(m, cancel_active)
    PROVE  /\ RunnerInv'
           /\ m \in QueuedIds => Live' = Live \ {m}
           /\ m \notin QueuedIds => Live' = Live
<1>1. RunnerInv'
  BY RunnerInvStep DEF Next, NextInQueueOrder, MissionService
<1>2. ActiveMission' = ActiveMission /\ ActiveMission \cap QueuedIds = {}
  BY CoreOfRunner DEF CancelQueuedMission, profileVars, goalVars, ActiveMission, CoreInv, ActiveInv
<1>3. CASE m \in QueuedIds
  <2>1. QueuedIds' = QueuedIds \ {m}
    BY <1>3 DEF CancelQueuedMission, QueuedIds
  <2> QED
    BY <1>1, <1>2, <1>3, <2>1 DEF Live
<1>4. CASE m \notin QueuedIds
  BY <1>1, <1>2, <1>4 DEF CancelQueuedMission, Live, QueuedIds
<1> QED
  BY <1>3, <1>4

\* The cancellation of a workflow removes its queued missions and asks its active
\* one to stop.
LEMMA CancelWorkflowCases ==
    ASSUME RunnerInv, NEW o \in Order, NEW cancel_active \in BOOLEAN,
           CancelWorkflow(o, cancel_active)
    PROVE  RunnerInv' /\ Live' = Live \ QueuedWorkflowMissions(o)
<1>1. RunnerInv'
  BY RunnerInvStep DEF Next, NextInQueueOrder, WorkflowService
<1>2. ActiveMission' = ActiveMission /\ ActiveMission \cap QueuedIds = {}
  BY CoreOfRunner DEF CancelWorkflow, profileVars, goalVars, ActiveMission, CoreInv, ActiveInv
<1>3. QueuedIds' = QueuedIds \ QueuedWorkflowMissions(o)
  BY DEF CancelWorkflow, QueuedWorkflowMissions, QueuedIds
<1> QED
  BY <1>1, <1>2, <1>3 DEF Live, QueuedWorkflowMissions
-----------------------------------------------------------------------------
(* The result of a mission ends it, queues it again or starts the dock      *)
(* return; the missions behind it stay.                                     *)

ResultStep ==
    \/ \E code \in BOOLEAN : ResultCanceled(code)
    \/ \E completed \in BOOLEAN : ResultSucceeded(completed) \/ ResultFailed(completed)
    \/ /\ ~cancellation_requested
       /\ ContactFailureRecovery
       /\ UNCHANGED <<paused_workflow_orders, low_battery_dock_request_sent, trafficVars>>

\* What a result does to the route locks is an operation of their table.
LEMMA ResultTraffic ==
    ASSUME RunnerInv, ResultStep
    PROVE  [TrafficNext]_trafficVars
<1>1. profile \in Mission \cup {None} /\ TrafficTypeOK
  BY DEF RunnerInv, TypeOK, RunnerTypeOK
<1>2. ASSUME ReleaseRouteLocksForMissions({profile}) PROVE [TrafficNext]_trafficVars
  BY <1>1, <1>2, ReleaseLoaded
<1>3. ASSUME ReleaseRouteLocksForMissions({}) PROVE [TrafficNext]_trafficVars
  BY <1>1, <1>3, ReleaseNone
<1> QED
  BY <1>2, <1>3 DEF ResultStep, ResultCanceled, ResultSucceeded, ResultFailed

LEMMA ResultKeepsRunnerInv ==
    ASSUME RunnerInv, ResultStep
    PROVE  RunnerInv'
<1>1. CoreInv /\ TrafficInv
  BY CoreOfRunner
<1>2. TrafficInv'
  BY <1>1, ResultTraffic, TrafficInvStep
<1>3. CASE ContactFailureRecovery /\ UNCHANGED <<paused_workflow_orders, low_battery_dock_request_sent>>
  <2>1. CASE RecoverByRetry(FALSE) \/ RecoverByStopping(FALSE) \/ RecoverByDock(FALSE)
    <3>1. CoreInv'
      BY <1>1, <1>3, <2>1, FailureStep DEF HandleMissionFailure
    <3> QED
      BY <1>2, <3>1 DEF RunnerInv, TypeOK, CoreInv, TrafficInv
  <2>2. CASE /\ MissionEnds
             /\ current_state' = "RECOVERING"
             /\ UNCHANGED <<queueVars, profileVars, cancellation_requested, recoveryVars>>
    <3>1. FlagsTyped'
      BY <1>1, <1>3, <2>2 DEF MissionEnds, CoreInv, RunnerTypeOK, FlagsTyped, State, queueVars,
                              recoveryVars
    <3>2. CoreInv'
      BY <1>1, <2>2, <3>1, QuietStep DEF MissionEnds, queueVars
    <3> QED
      BY <1>2, <3>2 DEF RunnerInv, TypeOK, CoreInv, TrafficInv
  <2> QED
    BY <1>3, <2>1, <2>2 DEF ContactFailureRecovery
<1>4. CASE \/ \E code \in BOOLEAN : ResultCanceled(code)
           \/ \E completed \in BOOLEAN : ResultSucceeded(completed) \/ ResultFailed(completed)
  <2>1. CoreInv'
    BY <1>1, <1>4, CanceledResultStep, SuccessResultStep, FailureStep DEF ResultFailed
  <2> QED
    BY <1>2, <2>1 DEF RunnerInv, TypeOK, CoreInv, TrafficInv
<1> QED
  BY <1>3, <1>4 DEF ResultStep

LEMMA ResultCases ==
    ASSUME RunnerInv, ResultStep
    PROVE  /\ ActiveMission = {profile} \ {None}
           /\ Live \ {profile} \subseteq Live'
           /\ profile \in Mission \ {DockMission} =>
                  profile \notin Live' \/ current_state' = "RECOVERING"
<1>1. /\ goal_handle => mission_active
      /\ mission_active => {profile} \cap QueuedIds \subseteq {None}
  BY DEF RunnerInv, ActiveInv, ActiveMission
<1>2. /\ goal_handle
      /\ \/ UNCHANGED mission_queue
         \/ QueueDockMission
         \/ PushEntries({Entry(profile, RecoveryPriority, next_queue_sequence)}, 1)
  BY DEF ResultStep, ResultCanceled, ResultSucceeded, ResultFailed, ContactFailureRecovery,
         HandleMissionFailure, RecoverByRetry, RecoverByDock, RecoverByStopping, MissionEnds,
         queueVars
<1>3. ActiveMission = {profile} \ {None} /\ QueuedIds \subseteq QueuedIds'
  <2>1. ASSUME QueueDockMission PROVE QueuedIds \subseteq QueuedIds'
    BY <2>1, PushedIds DEF QueueDockMission
  <2>2. ASSUME PushEntries({Entry(profile, RecoveryPriority, next_queue_sequence)}, 1)
        PROVE  QueuedIds \subseteq QueuedIds'
    BY <2>2, PushedIds
  <2> QED
    BY <1>1, <1>2, <2>1, <2>2 DEF ActiveMission, QueuedIds
<1>4. ASSUME profile \in Mission \ {DockMission}, current_state' # "RECOVERING"
      PROVE  profile \notin Live'
  <2>0. profile \notin QueuedIds
    BY <1>1, <1>2, <1>4, MissionRunnerAssumption
  <2>1. CASE ~mission_active' /\ UNCHANGED mission_queue
    BY <2>0, <2>1 DEF Live, ActiveMission, QueuedIds
  <2>2. CASE ~mission_active' /\ QueueDockMission
    BY <1>4, <2>0, <2>2, PushedIds DEF QueueDockMission, Live, ActiveMission
  <2>3. CASE UNCHANGED mission_queue /\ DispatchMission(DockMission)
    BY <1>4, <2>0, <2>3 DEF DispatchMission, Live, ActiveMission, QueuedIds
  <2> QED
    BY <1>4, <2>1, <2>2, <2>3
       DEF ResultStep, ResultCanceled, ResultSucceeded, ResultFailed, ContactFailureRecovery,
           HandleMissionFailure, RecoverByRetry, RecoverByDock, RecoverByStopping, MissionEnds
<1> QED
  BY <1>3, <1>4 DEF Live
-----------------------------------------------------------------------------
(* The values a reservation takes.                                         *)

GoodReservation ==
    {r \in [holder : Mission \cup Client \cup {None}, mission : Mission \cup Client \cup {None},
            status : ReservationStatus, hold : BOOLEAN] :
        /\ r.holder = None <=> r = Unreserved
        /\ r.mission \in DockingMission => r.hold}

FacilityMapsTyped ==
    /\ facility_resource_by_mission \in [Mission -> Facility \cup {None}]
    /\ dock_states \in [Dock -> [mission : Mission \cup Client \cup {None, UndockRequest}, state : DockStatus,
                                 contact_success : BOOLEAN, contact_attempts : {0, 1}]]
    /\ dock_by_mission \in [Mission -> Dock \cup {None}]

LEMMA FacilityInvParts ==
    FacilityInv => /\ facility_reservations \in [Facility -> GoodReservation]
                   /\ FacilityMapsTyped /\ NotesInv
  BY DEF FacilityInv, FacilityTypeOK, ReservationsInv, GoodReservation, FacilityMapsTyped

LEMMA FacilityInvNext ==
    ASSUME facility_reservations' \in [Facility -> GoodReservation], FacilityMapsTyped', NotesInv'
    PROVE  FacilityInv'
<1>1. \A f \in Facility : facility_reservations'[f] \in GoodReservation
  OBVIOUS
<1>2. facility_reservations' \in
         [Facility -> [holder : Mission \cup Client \cup {None},
                       mission : Mission \cup Client \cup {None},
                       status : ReservationStatus, hold : BOOLEAN]]
  BY DEF GoodReservation
<1>3. ReservationsInv'
  BY <1>1 DEF ReservationsInv, GoodReservation
<1>4. \A f \in Facility : facility_reservations'[f].holder = None
                             <=> facility_reservations'[f] = Unreserved
  BY <1>1 DEF GoodReservation
<1>5. FacilityTypeOK'
  BY <1>2, <1>4 DEF FacilityTypeOK, FacilityMapsTyped
<1> QED
  BY <1>3, <1>5 DEF FacilityInv

LEMMA UnreservedIsGood == Unreserved \in GoodReservation /\ Unreserved.mission = None
  BY MissionRunnerAssumption, FacilityRunnerAssumption
     DEF Unreserved, Reservation, ReservationStatus, GoodReservation, FacilityMission

LEMMA ClientReservation ==
    ASSUME NEW c \in Client, NEW n \in Client \cup {None}, NEW s \in ReservationStatus
    PROVE  /\ Reservation(c, n, s, TRUE) \in GoodReservation
           /\ Reservation(c, n, s, TRUE).holder = c
  BY MissionRunnerAssumption, FacilityRunnerAssumption
     DEF Unreserved, Reservation, GoodReservation

LEMMA MissionReservation ==
    ASSUME NEW m \in FacilityMission, NEW s \in ReservationStatus, NEW hold \in BOOLEAN,
           m \in DockingMission => hold
    PROVE  /\ Reservation(m, m, s, hold) \in GoodReservation
           /\ Reservation(m, m, s, hold).mission = m
           /\ Reservation(m, m, s, hold).holder = m
  BY MissionRunnerAssumption, FacilityRunnerAssumption
     DEF Unreserved, Reservation, GoodReservation

LEMMA RestatedReservation ==
    ASSUME NEW r \in GoodReservation, r # Unreserved, NEW s \in ReservationStatus
    PROVE  /\ [r EXCEPT !.status = s] \in GoodReservation
           /\ [r EXCEPT !.status = s].mission = r.mission
           /\ [r EXCEPT !.status = s].holder = r.holder
           /\ [r EXCEPT !.status = s].status = s
  BY DEF Unreserved, Reservation, GoodReservation

\* What a good reservation says about its holder.
LEMMA HolderFacts ==
    ASSUME NEW r \in GoodReservation
    PROVE  /\ r.holder = None <=> r = Unreserved
           /\ r.mission \in Mission => r # Unreserved
           /\ r.mission \in DockingMission => r.hold
           /\ r.hold \in BOOLEAN
           /\ r.mission \in Mission \cup Client \cup {None}
  BY MissionRunnerAssumption, FacilityRunnerAssumption
     DEF GoodReservation, Unreserved, Reservation, FacilityMission
-----------------------------------------------------------------------------
(* The ways in which the reservations change.                              *)

\* A step that changes the notes of one mission only.
LEMMA NotesInvStep ==
    ASSUME FacilityInv, NEW m,
           \A n \in Mission \ {m} :
               /\ facility_resource_by_mission'[n] = facility_resource_by_mission[n]
               /\ dock_by_mission'[n] = dock_by_mission[n],
           m \in Mission \ FacilityMission => facility_resource_by_mission'[m] = None,
           m \in DockingMission /\ dock_by_mission'[m] # None =>
               facility_resource_by_mission'[m] \in {ChargerOf[dock_by_mission'[m]], None}
    PROVE  NotesInv'
<1>1. DockingMission \subseteq Mission
  BY FacilityRunnerAssumption DEF FacilityMission
<1> QED
  BY <1>1 DEF FacilityInv, NotesInv

LEMMA FacilitiesLeftAlone ==
    ASSUME FacilityInv, UNCHANGED facilityVars
    PROVE  FacilityInv'
  BY DEF facilityVars, FacilityInv, FacilityTypeOK, ReservationsInv, NotesInv

\* Clients take what is free, what they hold and what is not exclusive, and anything
\* may be released.
LEMMA ServiceCases ==
    ASSUME FacilityInv, FacilityService
    PROVE  /\ UNCHANGED <<vars, facility_resource_by_mission, dock_states, dock_by_mission>>
           /\ facility_reservations' \in [Facility -> GoodReservation]
           /\ \A f \in Facility :
                 \/ facility_reservations'[f] = facility_reservations[f]
                 \/ facility_reservations'[f] = Unreserved
                 \/ f \notin Exclusive \/ facility_reservations[f] = Unreserved
                 \/ facility_reservations[f].holder = facility_reservations'[f].holder
<1> DEFINE r == facility_reservations
<1>0. r \in [Facility -> GoodReservation] /\ Unreserved \in GoodReservation
  BY FacilityInvParts, UnreservedIsGood
<1>1. ASSUME NEW c \in Client, NEW release \in BOOLEAN
      PROVE  /\ WithoutHolder(c) \in [Facility -> GoodReservation]
             /\ \A f \in Facility :
                   \/ WithoutHolder(c)[f] = r[f]
                   \/ r[f].holder = c /\ WithoutHolder(c)[f] = Unreserved
  BY <1>0 DEF WithoutHolder
<1>2. ASSUME NEW c \in Client, NEW f \in Facility, NEW n \in Client \cup {None},
             NEW release \in BOOLEAN, ReserveFacilityResource(f, c, n, release)
      PROVE  /\ r' \in [Facility -> GoodReservation]
             /\ \A g \in Facility :
                   \/ r'[g] = r[g] \/ r'[g] = Unreserved
                   \/ g \notin Exclusive \/ r[g] = Unreserved \/ r[g].holder = r'[g].holder
  <2> DEFINE kept == IF release THEN WithoutHolder(c) ELSE r
             new  == Reservation(c, n, "reserved", TRUE)
  <2>1. /\ kept \in [Facility -> GoodReservation]
        /\ \A g \in Facility : \/ kept[g] = r[g]
                               \/ r[g].holder = c /\ kept[g] = Unreserved
    BY <1>0, <1>1
  <2>2. new \in GoodReservation /\ new.holder = c
    BY ClientReservation DEF ReservationStatus
  <2>3. \/ r' = kept
        \/ /\ r' = [kept EXCEPT ![f] = new]
           /\ f \notin Exclusive \/ kept[f] = Unreserved \/ kept[f].holder = c
    BY <1>2 DEF ReserveFacilityResource
  <2> HIDE DEF kept, new
  <2> QED
    BY <2>1, <2>2, <2>3
<1>3. ASSUME NEW c \in Client, NEW f \in Facility, NEW n \in Client,
             NEW release \in BOOLEAN, RequestLiftSession(f, n, c, release)
      PROVE  /\ r' \in [Facility -> GoodReservation]
             /\ \A g \in Facility :
                   \/ r'[g] = r[g] \/ r'[g] = Unreserved
                   \/ g \notin Exclusive \/ r[g] = Unreserved \/ r[g].holder = r'[g].holder
  <2> DEFINE kept == IF release THEN WithoutHolder(c) ELSE r
             new  == Reservation(c, n, "lift_session", TRUE)
  <2>1. /\ kept \in [Facility -> GoodReservation]
        /\ \A g \in Facility : \/ kept[g] = r[g]
                               \/ r[g].holder = c /\ kept[g] = Unreserved
    BY <1>0, <1>1
  <2>2. new \in GoodReservation /\ new.holder = c
    BY ClientReservation DEF ReservationStatus
  <2>3. \/ r' = kept
        \/ /\ r' = [kept EXCEPT ![f] = new]
           /\ kept[f] = Unreserved \/ kept[f].holder = c
    BY <1>3 DEF RequestLiftSession, ReserveLiftSessionResource
  <2> HIDE DEF kept, new
  <2> QED
    BY <2>1, <2>2, <2>3
<1>4. ASSUME NEW c \in Client \cup {None}, NEW f \in Facility,
             ReleaseFacilityResource(f, c) \/ ReleaseLiftSession(f, c)
      PROVE  /\ r' \in [Facility -> GoodReservation]
             /\ \A g \in Facility : r'[g] = r[g] \/ r'[g] = Unreserved
  BY <1>0, <1>4 DEF ReleaseFacilityResource, ReleaseLiftSession
<1>5. UNCHANGED <<vars, facility_resource_by_mission, dock_states, dock_by_mission>>
  BY DEF FacilityService, ReserveFacilityResource, RequestLiftSession, ReleaseFacilityResource,
         ReleaseLiftSession
<1> QED
  BY <1>2, <1>3, <1>4, <1>5 DEF FacilityService

\* A mission that comes for a resource takes its reservation.
LEMMA RequestCases ==
    ASSUME FacilityInv, NEW m \in FacilityMission, NEW f \in Facility,
           NEW status \in ReservationStatus, NEW hold \in BOOLEAN, m \in DockingMission => hold,
           ReserveForMission(m, f, status, hold)
    PROVE  /\ facility_reservations' \in [Facility -> GoodReservation]
           /\ facility_reservations'[f].mission = m /\ facility_reservations'[f].holder = m
           /\ facility_resource_by_mission' \in [Mission -> Facility \cup {None}]
           /\ facility_resource_by_mission'[m] = f
           /\ \A g \in Facility \ {f} : facility_reservations'[g] = facility_reservations[g]
           /\ \A n \in Mission \ {m} :
                 facility_resource_by_mission'[n] = facility_resource_by_mission[n]
<1>1. /\ facility_reservations \in [Facility -> GoodReservation] /\ m \in Mission
      /\ facility_resource_by_mission \in [Mission -> Facility \cup {None}]
  BY FacilityInvParts, FacilityRunnerAssumption DEF FacilityMapsTyped
<1> DEFINE new == Reservation(m, m, status, hold)
<1>2. new \in GoodReservation /\ new.mission = m /\ new.holder = m
  BY MissionReservation
<1>3. /\ facility_reservations' = [facility_reservations EXCEPT ![f] = new]
      /\ facility_resource_by_mission' = [facility_resource_by_mission EXCEPT ![m] = f]
  BY DEF ReserveForMission
<1> HIDE DEF new
<1> QED
  BY <1>1, <1>2, <1>3

\* A mission gives up the reservation of the resource it came for.
LEMMA ReleaseCases ==
    ASSUME FacilityInv, NEW m \in Mission, ReleaseResourceForMission(m)
    PROVE  /\ facility_reservations' \in [Facility -> GoodReservation]
           /\ facility_resource_by_mission' \in [Mission -> Facility \cup {None}]
           /\ facility_resource_by_mission'[m] = None
           /\ \A n \in Mission \ {m} :
                 facility_resource_by_mission'[n] = facility_resource_by_mission[n]
           /\ \A g \in Facility :
                 IF g = facility_resource_by_mission[m] /\ facility_reservations[g].mission = m
                 THEN facility_reservations'[g] = Unreserved
                 ELSE facility_reservations'[g] = facility_reservations[g]
<1>1. /\ facility_reservations \in [Facility -> GoodReservation]
      /\ facility_resource_by_mission \in [Mission -> Facility \cup {None}]
  BY FacilityInvParts DEF FacilityMapsTyped
<1> QED
  BY <1>1, UnreservedIsGood DEF ReleaseResourceForMission

\* A canceled workflow gives up what its missions came for; only its active mission
\* goes on.
LEMMA WorkflowCases ==
    ASSUME RunnerInv, FacilityInv, NEW o \in Order, NEW cancel_active \in BOOLEAN,
           CancelFacilityWorkflow(o, cancel_active)
    PROVE  \E ms \in SUBSET Mission :
              /\ Live \ ms \subseteq Live'
              /\ \A m \in ms : m \in Live' => m \in ActiveMission /\ CancelFacilityWorkflow(o, TRUE)
              /\ facility_reservations' \in [Facility -> GoodReservation]
              /\ \A f \in Facility :
                    \/ facility_reservations'[f] = facility_reservations[f]
                    \/ /\ facility_reservations'[f] = Unreserved
                       /\ facility_reservations[f].mission \in ms
              /\ \A m \in ms : \A f \in Facility :
                    facility_resource_by_mission[m] = f /\ facility_reservations[f].mission = m
                       => facility_reservations'[f] = Unreserved
              /\ facility_resource_by_mission' =
                     [m \in Mission |-> IF m \in ms THEN None ELSE facility_resource_by_mission[m]]
              /\ UNCHANGED <<dock_states, dock_by_mission>>
<1> DEFINE queued == QueuedWorkflowMissions(o)
           active == IF cancel_active THEN ActiveWorkflowMission(o) ELSE {}
           ms == queued \cup active
<1>0. CoreInv /\ facility_reservations \in [Facility -> GoodReservation]
      /\ Unreserved \in GoodReservation
  BY CoreOfRunner, FacilityInvParts, UnreservedIsGood
<1>1. ms \subseteq Mission
  <2>1. QueuedIds \subseteq Mission /\ profile \in Mission \cup {None}
    BY <1>0 DEF CoreInv, RunnerTypeOK, QueueEntry, QueuedIds
  <2> QED
    BY <2>1 DEF QueuedWorkflowMissions, ActiveWorkflowMission, ActiveMission
<1>2. Live' = Live \ queued
  BY CancelWorkflowCases DEF CancelFacilityWorkflow
<1>3. ASSUME NEW m \in ms, m \in Live'
      PROVE  m \in ActiveMission /\ CancelFacilityWorkflow(o, TRUE)
  <2>1. m \in active /\ cancel_active = TRUE
    BY <1>2, <1>3
  <2> QED
    BY <2>1 DEF ActiveWorkflowMission
<1>4. /\ facility_reservations' = [f \in Facility |->
             IF \E m \in ms : facility_resource_by_mission[m] = f
                                  /\ facility_reservations[f].mission = m
             THEN Unreserved ELSE facility_reservations[f]]
      /\ facility_resource_by_mission' =
             [m \in Mission |-> IF m \in ms THEN None ELSE facility_resource_by_mission[m]]
      /\ UNCHANGED <<dock_states, dock_by_mission>>
  BY DEF CancelFacilityWorkflow
<1> HIDE DEF ms
<1>5. Live \ ms \subseteq Live'
  BY <1>2 DEF ms
<1> QED
  BY <1>0, <1>1, <1>3, <1>4, <1>5

\* An undocking releases the charger of the mission that holds the dock.
LEMMA UndockingCases ==
    ASSUME FacilityInv, NEW d \in Dock, NEW named \in BOOLEAN, NEW release \in BOOLEAN,
           RequestUndocking(d, named, release)
    PROVE  /\ UNCHANGED <<vars, dock_by_mission>>
           /\ facility_reservations' \in [Facility -> GoodReservation]
           /\ FacilityMapsTyped'
           /\ \A m \in Mission \ {DockHolder(d)} :
                 facility_resource_by_mission'[m] = facility_resource_by_mission[m]
           /\ \/ UNCHANGED <<facility_reservations, facility_resource_by_mission>>
              \/ /\ release
                 /\ \A g \in Facility :
                       IF g = ChargerOf[d] /\ facility_reservations[g].mission = DockHolder(d)
                       THEN facility_reservations'[g] = Unreserved
                       ELSE facility_reservations'[g] = facility_reservations[g]
                 /\ DockHolder(d) \in Mission =>
                       facility_resource_by_mission'[DockHolder(d)] =
                           IF facility_resource_by_mission[DockHolder(d)] = ChargerOf[d] THEN None
                           ELSE facility_resource_by_mission[DockHolder(d)]
<1> DEFINE holder == DockHolder(d)
<1>1. /\ facility_reservations \in [Facility -> GoodReservation] /\ FacilityMapsTyped
      /\ Unreserved \in GoodReservation /\ ChargerOf[d] \in Facility
  BY FacilityInvParts, UnreservedIsGood, FacilityRunnerAssumption
<1>2. UNCHANGED <<vars, dock_by_mission>>
  BY DEF RequestUndocking
<1>3. dock_states' \in [Dock -> [mission : Mission \cup Client \cup {None, UndockRequest}, state : DockStatus,
                                contact_success : BOOLEAN, contact_attempts : {0, 1}]]
  <2>0. holder \in Mission \cup Client \cup {None, UndockRequest}
    BY <1>1, HolderFacts DEF DockHolder, FacilityMapsTyped
  <2>1. PICK m \in Mission \cup Client \cup {UndockRequest} :
            dock_states' = [dock_states EXCEPT ![d] = DockState(m, "UNDOCKED", TRUE, 0)]
    BY <2>0 DEF RequestUndocking
  <2>2. DockState(m, "UNDOCKED", TRUE, 0) \in
            [mission : Mission \cup Client \cup {None, UndockRequest}, state : DockStatus,
             contact_success : BOOLEAN, contact_attempts : {0, 1}]
    BY DEF DockState, DockStatus
  <2> QED
    BY <1>1, <2>1, <2>2 DEF FacilityMapsTyped
<1> HIDE DEF holder
<1>4. CASE ReleaseCharger(ChargerOf[d], holder) /\ release
  <2>1. facility_reservations' = [facility_reservations EXCEPT ![ChargerOf[d]] =
            IF facility_reservations[ChargerOf[d]].mission = holder
            THEN Unreserved ELSE facility_reservations[ChargerOf[d]]]
    BY <1>4 DEF ReleaseCharger
  <2>2. /\ facility_reservations' \in [Facility -> GoodReservation]
        /\ \A g \in Facility :
              IF g = ChargerOf[d] /\ facility_reservations[g].mission = holder
              THEN facility_reservations'[g] = Unreserved
              ELSE facility_reservations'[g] = facility_reservations[g]
    BY <1>1, <2>1
  <2>3. /\ facility_resource_by_mission' \in [Mission -> Facility \cup {None}]
        /\ \A m \in Mission \ {holder} :
              facility_resource_by_mission'[m] = facility_resource_by_mission[m]
        /\ holder \in Mission =>
              facility_resource_by_mission'[holder] =
                  IF facility_resource_by_mission[holder] = ChargerOf[d] THEN None
                  ELSE facility_resource_by_mission[holder]
    BY <1>1, <1>4 DEF ReleaseCharger, FacilityMapsTyped
  <2> QED
    BY <1>1, <1>2, <1>3, <1>4, <2>2, <2>3 DEF FacilityMapsTyped, holder
<1>5. CASE UNCHANGED <<facility_reservations, facility_resource_by_mission>>
  BY <1>1, <1>2, <1>3, <1>5 DEF FacilityMapsTyped
<1> QED
  BY <1>4, <1>5 DEF RequestUndocking, holder

\* The resource of a mission that has arrived stays reserved when it is to be held.
LEMMA OccupiedCases ==
    ASSUME FacilityInv, NEW m \in Mission, MarkResourceOccupiedForMission(m, "CHARGING")
    PROVE  LET f == facility_resource_by_mission[m]
           IN  /\ facility_reservations' \in [Facility -> GoodReservation]
               /\ facility_resource_by_mission' \in [Mission -> Facility \cup {None}]
               /\ \A g \in Facility \ {f} : facility_reservations'[g] = facility_reservations[g]
               /\ \A n \in Mission \ {m} :
                     facility_resource_by_mission'[n] = facility_resource_by_mission[n]
               /\ \/ UNCHANGED <<facility_reservations, facility_resource_by_mission>>
                     /\ (f = None \/ facility_reservations[f] = Unreserved)
                  \/ /\ f # None
                     /\ facility_reservations'[f] = Unreserved
                     /\ facility_resource_by_mission'[m] = None
                     /\ ~facility_reservations[f].hold
                  \/ /\ f # None
                     /\ facility_reservations'[f] =
                            [facility_reservations[f] EXCEPT !.status = "CHARGING"]
                     /\ facility_reservations[f] # Unreserved
                     /\ facility_resource_by_mission'[m] = f
<1> DEFINE f == facility_resource_by_mission[m]
           r == facility_reservations[f]
<1>1. /\ facility_reservations \in [Facility -> GoodReservation]
      /\ facility_resource_by_mission \in [Mission -> Facility \cup {None}]
      /\ f \in Facility \cup {None} /\ None \notin Facility
  BY FacilityInvParts, FacilityRunnerAssumption DEF FacilityMapsTyped
<1>2. CASE f = None \/ r = Unreserved
  BY <1>1, <1>2 DEF MarkResourceOccupiedForMission
<1>3. CASE f # None /\ r # Unreserved
  <2>1. f \in Facility /\ r \in GoodReservation /\ r.hold \in BOOLEAN
    BY <1>1, <1>3, HolderFacts
  <2>2. [r EXCEPT !.status = "CHARGING"] \in GoodReservation /\ Unreserved \in GoodReservation
    BY <1>3, <2>1, RestatedReservation, UnreservedIsGood DEF ReservationStatus
  <2>3. /\ facility_reservations' = [facility_reservations EXCEPT ![f] =
               IF r.hold THEN [r EXCEPT !.status = "CHARGING"] ELSE Unreserved]
        /\ facility_resource_by_mission' =
               [facility_resource_by_mission EXCEPT ![m] = IF r.hold THEN f ELSE None]
    BY <1>3 DEF MarkResourceOccupiedForMission
  <2> QED
    BY <1>1, <1>3, <2>1, <2>2, <2>3
<1> QED
  BY <1>2, <1>3

\* A failed contact is noted at the dock and at the charger.
LEMMA ContactFailureCases ==
    ASSUME FacilityInv, NEW m \in Mission, NEW d \in Dock, ContactFails(d),
           HandleDockingContactFailure(m, d)
    PROVE  /\ facility_reservations' \in [Facility -> GoodReservation]
           /\ FacilityMapsTyped'
           /\ UNCHANGED <<facility_resource_by_mission, dock_by_mission>>
           /\ \A g \in Facility :
                 IF g = facility_resource_by_mission[m] /\ facility_reservations[g] # Unreserved
                 THEN facility_reservations'[g] =
                          [facility_reservations[g] EXCEPT !.status = "DOCKING_CONTACT_FAILED"]
                 ELSE facility_reservations'[g] = facility_reservations[g]
<1>1. facility_reservations \in [Facility -> GoodReservation] /\ FacilityMapsTyped
  BY FacilityInvParts
<1>2. \A g \in Facility : facility_reservations[g] # Unreserved =>
          [facility_reservations[g] EXCEPT !.status = "DOCKING_CONTACT_FAILED"] \in GoodReservation
  BY <1>1, RestatedReservation DEF ReservationStatus
<1>3. /\ facility_reservations' \in [Facility -> GoodReservation]
      /\ \A g \in Facility :
            IF g = facility_resource_by_mission[m] /\ facility_reservations[g] # Unreserved
            THEN facility_reservations'[g] =
                     [facility_reservations[g] EXCEPT !.status = "DOCKING_CONTACT_FAILED"]
            ELSE facility_reservations'[g] = facility_reservations[g]
  BY <1>1, <1>2 DEF HandleDockingContactFailure
<1>4. dock_states' \in [Dock -> [mission : Mission \cup Client \cup {None, UndockRequest}, state : DockStatus,
                                contact_success : BOOLEAN, contact_attempts : {0, 1}]]
  <2>1. /\ dock_states[d] \in [mission : Mission \cup Client \cup {None, UndockRequest}, state : DockStatus,
                              contact_success : BOOLEAN, contact_attempts : {0, 1}]
        /\ dock_states[d].contact_attempts = 0
    BY <1>1 DEF FacilityMapsTyped, ContactFails
  <2> DEFINE new == DockState(dock_states[d].mission, "FAILED", TRUE,
                              dock_states[d].contact_attempts + 1)
  <2>2. new \in [mission : Mission \cup Client \cup {None, UndockRequest}, state : DockStatus,
                contact_success : BOOLEAN, contact_attempts : {0, 1}]
    BY <2>1 DEF DockState, DockStatus
  <2>3. dock_states' = [dock_states EXCEPT ![d] = new]
    BY DEF HandleDockingContactFailure
  <2> HIDE DEF new
  <2> QED
    BY <1>1, <2>2, <2>3 DEF FacilityMapsTyped
<1> QED
  BY <1>1, <1>3, <1>4 DEF HandleDockingContactFailure, FacilityMapsTyped
-----------------------------------------------------------------------------
(* FacilityInv is inductive.                                               *)

LEMMA ReleaseKeepsFacilityInv ==
    ASSUME FacilityInv, NEW m \in Mission, ReleaseResourceForMission(m),
           \/ UNCHANGED <<dock_states, dock_by_mission>>
           \/ \E state \in DockStatus : MarkDockingMissionTerminal(m, state)
    PROVE  FacilityInv'
<1>1. /\ facility_reservations \in [Facility -> GoodReservation] /\ FacilityMapsTyped
      /\ Unreserved.mission = None
  BY FacilityInvParts, UnreservedIsGood
<1>2. /\ FacilityMapsTyped'
      /\ \A n \in Mission \ {m} : dock_by_mission'[n] = dock_by_mission[n]
      /\ dock_by_mission'[m] \in {dock_by_mission[m], None}
  <2>1. CASE UNCHANGED <<dock_states, dock_by_mission>>
    BY <1>1, <2>1, ReleaseCases DEF FacilityMapsTyped
  <2>2. ASSUME NEW state \in DockStatus, MarkDockingMissionTerminal(m, state)
        PROVE  /\ dock_states' \in [Dock -> [mission : Mission \cup Client \cup {None, UndockRequest},
                                             state : DockStatus, contact_success : BOOLEAN,
                                             contact_attempts : {0, 1}]]
               /\ dock_by_mission' = [dock_by_mission EXCEPT ![m] = None]
    <3>1. DockState(m, state, TRUE, 0) \in [mission : Mission \cup Client \cup {None, UndockRequest},
                                            state : DockStatus, contact_success : BOOLEAN,
                                            contact_attempts : {0, 1}]
      BY DEF DockState
    <3> QED
      BY <1>1, <2>2, <3>1 DEF MarkDockingMissionTerminal, FacilityMapsTyped
  <2>3. CASE \E state \in DockStatus : MarkDockingMissionTerminal(m, state)
    BY <1>1, <2>2, <2>3, ReleaseCases DEF FacilityMapsTyped
  <2> QED
    BY <2>1, <2>3
<1>3. NotesInv'
  BY <1>2, ReleaseCases, NotesInvStep
<1> QED
  BY <1>2, <1>3, ReleaseCases, FacilityInvNext

LEMMA ServiceKeepsFacilityInv ==
    ASSUME FacilityInv, FacilityService
    PROVE  FacilityInv'
<1>1. /\ facility_reservations' \in [Facility -> GoodReservation]
      /\ UNCHANGED <<facility_resource_by_mission, dock_states, dock_by_mission>>
  BY ServiceCases
<1>2. FacilityMapsTyped' /\ NotesInv'
  BY <1>1, FacilityInvParts DEF FacilityMapsTyped, NotesInv
<1> QED
  BY <1>1, <1>2, FacilityInvNext

\* A request that writes no dock, and a docking request.
LEMMA RequestKeepsFacilityInv ==
    ASSUME FacilityInv, NEW m \in FacilityMission, NEW f \in Facility,
           NEW status \in ReservationStatus, NEW hold \in BOOLEAN, m \in DockingMission => hold,
           ReserveForMission(m, f, status, hold),
           \/ m \notin DockingMission /\ UNCHANGED <<dock_states, dock_by_mission>>
           \/ \E d \in Dock : \E contact_success \in BOOLEAN :
                 /\ f = ChargerOf[d]
                 /\ dock_states' = [dock_states EXCEPT
                                       ![d] = DockState(m, "APPROACHING", contact_success, 0)]
                 /\ dock_by_mission' = [dock_by_mission EXCEPT ![m] = d]
    PROVE  FacilityInv'
<1>1. FacilityMapsTyped /\ m \in Mission
  BY FacilityInvParts, FacilityRunnerAssumption
<1>2. /\ \A n \in Mission \ {m} :
            /\ facility_resource_by_mission'[n] = facility_resource_by_mission[n]
            /\ dock_by_mission'[n] = dock_by_mission[n]
      /\ m \in DockingMission => facility_resource_by_mission'[m] = ChargerOf[dock_by_mission'[m]]
  BY <1>1, RequestCases DEF FacilityMapsTyped
<1>4. FacilityMapsTyped'
  <2>1. CASE UNCHANGED <<dock_states, dock_by_mission>>
    BY <1>1, <2>1, RequestCases DEF FacilityMapsTyped
  <2>2. ASSUME NEW d \in Dock, NEW contact_success \in BOOLEAN,
               dock_states' = [dock_states EXCEPT
                                 ![d] = DockState(m, "APPROACHING", contact_success, 0)],
               dock_by_mission' = [dock_by_mission EXCEPT ![m] = d]
        PROVE  FacilityMapsTyped'
    <3>1. DockState(m, "APPROACHING", contact_success, 0) \in
              [mission : Mission \cup Client \cup {None, UndockRequest}, state : DockStatus,
               contact_success : BOOLEAN, contact_attempts : {0, 1}]
      BY <1>1 DEF DockState, DockStatus
    <3> QED
      BY <1>1, <2>2, <3>1, RequestCases DEF FacilityMapsTyped
  <2> QED
    BY <2>1, <2>2
<1>5. NotesInv'
  BY <1>2, NotesInvStep
<1> QED
  BY <1>4, <1>5, RequestCases, FacilityInvNext

LEMMA UndockingKeepsFacilityInv ==
    ASSUME FacilityInv, NEW d \in Dock, NEW named \in BOOLEAN, NEW release \in BOOLEAN,
           RequestUndocking(d, named, release)
    PROVE  FacilityInv'
<1> DEFINE holder == DockHolder(d)
<1>1. /\ \A n \in Mission \ {holder} :
            /\ facility_resource_by_mission'[n] = facility_resource_by_mission[n]
            /\ dock_by_mission'[n] = dock_by_mission[n]
      /\ dock_by_mission' = dock_by_mission
      /\ holder \in Mission => facility_resource_by_mission'[holder] \in
                                   {facility_resource_by_mission[holder], None}
  BY UndockingCases
<1>2. DockingMission \subseteq Mission
  BY FacilityRunnerAssumption DEF FacilityMission
<1> HIDE DEF holder
<1>3. NotesInv'
  BY <1>1, <1>2, NotesInvStep DEF FacilityInv, NotesInv
<1> QED
  BY <1>3, UndockingCases, FacilityInvNext

LEMMA FacilityInvInit == FacilityInit => FacilityInv
<1> SUFFICES ASSUME FacilityInit PROVE FacilityInv
  OBVIOUS
<1>1. Unreserved \in [holder : Mission \cup Client \cup {None}, mission : Mission \cup Client \cup {None},
                     status : ReservationStatus, hold : BOOLEAN]
  BY DEF Unreserved, Reservation, ReservationStatus
<1>2. NoDockState \in [mission : Mission \cup Client \cup {None, UndockRequest}, state : DockStatus,
                      contact_success : BOOLEAN, contact_attempts : {0, 1}]
  BY DEF NoDockState, DockState, DockStatus
<1>3. FacilityTypeOK
  BY <1>1, <1>2 DEF FacilityInit, FacilityTypeOK, Unreserved, Reservation
<1>4. ReservationsInv
  BY UnreservedIsGood DEF FacilityInit, ReservationsInv, GoodReservation
<1>5. NotesInv
  BY FacilityRunnerAssumption DEF FacilityInit, NotesInv, FacilityMission
<1> QED
  BY <1>3, <1>4, <1>5 DEF FacilityInv

\* A mission comes for a resource that is available.
Comes(m, f, p, start, preempt, hold) ==
    /\ FacilityResourceAvailable(f)
    /\ AdmitFacilityMission(m, p, start, preempt)
    /\ ReserveForMission(m, f, "reserved", hold)
    /\ UNCHANGED <<dock_states, dock_by_mission>>

LEMMA ChargingServiceCases ==
    ASSUME ChargingService
    PROVE  \E m \in FacilityMission \ DockingMission, f \in Facility, p \in Priority :
           \E start, preempt, hold \in BOOLEAN : Comes(m, f, p, start, preempt, hold)
<1>1. ChargingMission \cup ActionMission \subseteq FacilityMission \ DockingMission
  BY FacilityRunnerAssumption DEF FacilityMission
<1>2. ASSUME NEW m \in Mission, NEW f \in Facility, NEW p \in Priority, NEW start \in BOOLEAN,
             NEW preempt \in BOOLEAN, RequestCharging(m, f, p, start, preempt)
      PROVE  m \in ChargingMission /\ Comes(m, f, p, start, preempt, TRUE)
  BY <1>2 DEF RequestCharging, SelectChargingResource, Comes
<1>3. ASSUME NEW m \in Mission, NEW f \in Facility, NEW p \in Priority, NEW start \in BOOLEAN,
             NEW preempt \in BOOLEAN, NEW hold \in BOOLEAN,
             ExecuteFacilityAction(m, f, p, start, preempt, hold)
      PROVE  m \in ActionMission /\ Comes(m, f, p, start, preempt, hold)
  BY <1>3 DEF ExecuteFacilityAction, Comes
<1>4. ASSUME NEW m \in Mission, NEW f \in Facility, NEW p \in Priority, NEW start \in BOOLEAN,
             NEW preempt \in BOOLEAN, NEW critical \in BOOLEAN,
             RequestOpportunityCharging(m, f, p, start, preempt, critical)
      PROVE  \E urgent \in BOOLEAN : RequestCharging(m, f, p, start, urgent)
  <2>1. (preempt \/ critical) \in BOOLEAN
    OBVIOUS
  <2>2. RequestCharging(m, f, p, start, preempt \/ critical)
    BY <1>4 DEF RequestOpportunityCharging
  <2> QED
    BY <2>1, <2>2 DEF RequestCharging
<1>5. PICK m \in Mission, f \in Facility, p \in Priority, start \in BOOLEAN :
          \E preempt, hold \in BOOLEAN :
              \/ RequestCharging(m, f, p, start, preempt)
              \/ ExecuteFacilityAction(m, f, p, start, preempt, hold)
  BY <1>4 DEF ChargingService
<1>6. PICK preempt \in BOOLEAN, hold \in BOOLEAN :
          \/ RequestCharging(m, f, p, start, preempt)
          \/ ExecuteFacilityAction(m, f, p, start, preempt, hold)
  BY <1>5
<1>7. m \in FacilityMission \ DockingMission /\ \E h \in BOOLEAN : Comes(m, f, p, start, preempt, h)
  <2>1. CASE RequestCharging(m, f, p, start, preempt)
    BY <1>1, <1>2, <2>1
  <2>2. CASE ExecuteFacilityAction(m, f, p, start, preempt, hold)
    BY <1>1, <1>3, <2>2
  <2> QED
    BY <1>6, <2>1, <2>2
<1> QED
  BY <1>7

\* What a result does with docks and facilities.
LEMMA FacilityResultCases ==
    ASSUME RunnerInv, FacilityResult
    PROVE  /\ ResultStep
           /\ \/ /\ profile \in DockingMission
                 /\ \E d \in Dock :
                       /\ dock_by_mission[profile] = d
                       /\ MarkResourceOccupiedForMission(profile, "CHARGING")
                       /\ dock_states' = [dock_states EXCEPT
                                             ![d] = DockState(profile, "CHARGING", TRUE, 0)]
                       /\ UNCHANGED dock_by_mission
              \/ /\ profile \in DockingMission
                 /\ \E d \in Dock : /\ dock_by_mission[profile] = d /\ ContactFails(d)
                                     /\ HandleDockingContactFailure(profile, d)
              \/ UNCHANGED facilityVars /\ profile \in {None, DockMission}
              \/ /\ profile \in Mission
                 /\ ReleaseResourceForMission(profile)
                 /\ \/ UNCHANGED <<dock_states, dock_by_mission>>
                    \/ \E state \in {"CANCELED", "FAILED"} : MarkDockingMissionTerminal(profile, state)
<1>1. profile \in Mission \cup {None}
  BY DEF RunnerInv, TypeOK, RunnerTypeOK
<1>2. CompletedDock \in BOOLEAN /\ CompletedDockOrDocking \in BOOLEAN
  BY DEF CompletedDock, CompletedDockOrDocking
<1>3. ASSUME NEW m \in DockingMission, NEW d \in Dock, DockingSucceeded(m, d)
      PROVE  /\ ResultStep /\ profile \in DockingMission /\ dock_by_mission[profile] = d
             /\ MarkResourceOccupiedForMission(profile, "CHARGING")
             /\ dock_states' = [dock_states EXCEPT ![d] = DockState(profile, "CHARGING", TRUE, 0)]
             /\ UNCHANGED dock_by_mission
  BY <1>3 DEF DockingSucceeded, ResultStep
<1>4. ASSUME NEW m \in DockingMission, NEW d \in Dock, DockingContactFailed(m, d)
      PROVE  /\ ResultStep /\ profile \in DockingMission /\ dock_by_mission[profile] = d
             /\ ContactFails(d) /\ HandleDockingContactFailure(profile, d)
  BY <1>4 DEF DockingContactFailed, ResultStep
<1>5. ASSUME OtherMissionSucceeded
      PROVE  /\ ResultStep
             /\ \/ UNCHANGED facilityVars /\ profile \in {None, DockMission}
                \/ /\ profile \in Mission /\ ReleaseResourceForMission(profile)
                   /\ UNCHANGED <<dock_states, dock_by_mission>>
  BY <1>1, <1>2, <1>5 DEF OtherMissionSucceeded, ResultStep, CompletedDock, facilityVars
<1>6. ASSUME NEW state \in {"CANCELED", "FAILED"}, EndWithoutSuccess(state)
      PROVE  \/ UNCHANGED facilityVars /\ profile \in {None, DockMission}
             \/ /\ profile \in Mission /\ ReleaseResourceForMission(profile)
                /\ MarkDockingMissionTerminal(profile, state)
  BY <1>1, <1>6 DEF EndWithoutSuccess
<1>7. CASE MissionFailed \/ \E code \in BOOLEAN : MissionCanceled(code)
  <2>1. ResultStep
    BY <1>2, <1>7 DEF MissionFailed, MissionCanceled, ResultStep
  <2>2. PICK state \in {"CANCELED", "FAILED"} : EndWithoutSuccess(state)
    BY <1>7 DEF MissionFailed, MissionCanceled
  <2> QED
    BY <1>6, <2>1, <2>2
<1> QED
  BY <1>3, <1>4, <1>5, <1>7 DEF FacilityResult

LEMMA ResultKeepsFacilityInv ==
    ASSUME RunnerInv, FacilityInv, FacilityResult
    PROVE  FacilityInv'
<1>1. FacilityMapsTyped /\ DockingMission \subseteq Mission /\ None \notin Mission
  BY FacilityInvParts, FacilityRunnerAssumption, MissionRunnerAssumption DEF FacilityMission
<1>2. ASSUME NEW d \in Dock, profile \in DockingMission, dock_by_mission[profile] = d,
             MarkResourceOccupiedForMission(profile, "CHARGING"),
             dock_states' = [dock_states EXCEPT ![d] = DockState(profile, "CHARGING", TRUE, 0)],
             UNCHANGED dock_by_mission
      PROVE  FacilityInv'
  <2> DEFINE m == profile
             f == facility_resource_by_mission[m]
  <2>1. m \in Mission /\ f \in Facility \cup {None} /\ None \notin Facility
    BY <1>1, <1>2, FacilityRunnerAssumption DEF FacilityMapsTyped
  <2>2. DockState(m, "CHARGING", TRUE, 0) \in
            [mission : Mission \cup Client \cup {None, UndockRequest}, state : DockStatus,
             contact_success : BOOLEAN, contact_attempts : {0, 1}]
    BY <2>1 DEF DockState, DockStatus
  <2>3. FacilityMapsTyped'
    BY <1>1, <1>2, <2>1, <2>2, OccupiedCases DEF FacilityMapsTyped
  <2>5. NotesInv'
    <3>1. /\ facility_resource_by_mission'[m] \in {f, None}
          /\ \A n \in Mission \ {m} : /\ facility_resource_by_mission'[n] = facility_resource_by_mission[n]
                                      /\ dock_by_mission'[n] = dock_by_mission[n]
      BY <1>2, <2>1, OccupiedCases
    <3> HIDE DEF f
    <3>2. f \in {ChargerOf[d], None} /\ m \in FacilityMission
      BY <1>2, FacilityRunnerAssumption DEF FacilityInv, NotesInv, FacilityMission, f
    <3> QED
      BY <1>2, <3>1, <3>2, NotesInvStep
  <2>6. facility_reservations' \in [Facility -> GoodReservation]
    BY <1>2, <2>1, OccupiedCases
  <2> QED
    BY <2>3, <2>5, <2>6, FacilityInvNext
<1>3. ASSUME NEW d \in Dock, profile \in DockingMission, ContactFails(d),
             HandleDockingContactFailure(profile, d)
      PROVE  FacilityInv'
  <2>1. /\ facility_reservations' \in [Facility -> GoodReservation] /\ FacilityMapsTyped'
        /\ UNCHANGED <<facility_resource_by_mission, dock_by_mission>>
    BY <1>1, <1>3, ContactFailureCases
  <2>3. NotesInv'
    BY <2>1 DEF FacilityInv, NotesInv
  <2> QED
    BY <2>1, <2>3, FacilityInvNext
<1> QED
  BY <1>2, <1>3, FacilityResultCases, FacilitiesLeftAlone, ReleaseKeepsFacilityInv DEF DockStatus

LEMMA CancelKeepsFacilityInv ==
    ASSUME FacilityInv, NEW m \in Mission, NEW cancel_active \in BOOLEAN,
           CancelFacilityMission(m, cancel_active)
    PROVE  FacilityInv'
  BY FacilitiesLeftAlone, ReleaseKeepsFacilityInv DEF CancelFacilityMission, facilityVars

LEMMA WorkflowKeepsFacilityInv ==
    ASSUME RunnerInv, FacilityInv, NEW o \in Order, NEW cancel_active \in BOOLEAN,
           CancelFacilityWorkflow(o, cancel_active)
    PROVE  FacilityInv'
<1>1. FacilityMapsTyped /\ NotesInv /\ DockingMission \subseteq Mission
  BY FacilityInvParts, FacilityRunnerAssumption DEF FacilityMission
<1>2. PICK ms \in SUBSET Mission :
          /\ facility_reservations' \in [Facility -> GoodReservation]
          /\ facility_resource_by_mission' =
                 [m \in Mission |-> IF m \in ms THEN None ELSE facility_resource_by_mission[m]]
          /\ UNCHANGED <<dock_states, dock_by_mission>>
  BY WorkflowCases
<1>3. FacilityMapsTyped' /\ NotesInv'
  BY <1>1, <1>2 DEF FacilityMapsTyped, NotesInv
<1> QED
  BY <1>2, <1>3, FacilityInvNext

LEMMA FacilityInvStep ==
    RunnerInv /\ FacilityInv /\ [FacilityNext]_facilityRunnerVars => RunnerInv' /\ FacilityInv'
<1> SUFFICES ASSUME RunnerInv, FacilityInv, [FacilityNext]_facilityRunnerVars
             PROVE  RunnerInv' /\ FacilityInv'
  OBVIOUS
<1>1. CASE RunnerStep \/ RunnerService
  BY <1>1, RunnerStepCases, RunnerServiceCases, FacilitiesLeftAlone DEF RunnerStep, RunnerService
<1>2. CASE FacilityService
  BY <1>2, ServiceCases, ServiceKeepsFacilityInv, RunnerLeftAlone
<1>3. ASSUME NEW d \in Dock, NEW m \in DockingMission, NEW p \in Priority,
             NEW contact_success \in BOOLEAN, NEW start \in BOOLEAN, NEW preempt \in BOOLEAN,
             RequestDocking(m, d, contact_success, p, start, preempt)
      PROVE  RunnerInv' /\ FacilityInv'
  <2>1. /\ m \in FacilityMission /\ m \in Mission
        /\ ChargerOf[d] \in Facility /\ "APPROACHING" \in ReservationStatus
    BY FacilityRunnerAssumption DEF FacilityMission, ReservationStatus
  <2>2. RunnerInv'
    BY <1>3, <2>1, FacilityAdmission DEF RequestDocking
  <2>3. FacilityInv'
    BY <1>3, <2>1, RequestKeepsFacilityInv DEF RequestDocking
  <2> QED
    BY <2>2, <2>3
<1>4. ASSUME NEW d \in Dock, NEW named \in BOOLEAN, NEW release \in BOOLEAN,
             RequestUndocking(d, named, release)
      PROVE  RunnerInv' /\ FacilityInv'
  BY <1>4, UndockingCases, UndockingKeepsFacilityInv, RunnerLeftAlone
<1>5. CASE ChargingService
  <2>1. PICK m \in FacilityMission \ DockingMission, f \in Facility, p \in Priority :
           \E start, preempt, hold \in BOOLEAN : Comes(m, f, p, start, preempt, hold)
    BY <1>5, ChargingServiceCases
  <2>2. m \in Mission /\ "reserved" \in ReservationStatus
    BY FacilityRunnerAssumption DEF ReservationStatus
  <2>3. RunnerInv'
    BY <2>1, <2>2, FacilityAdmission DEF Comes
  <2>4. FacilityInv'
    BY <2>1, <2>2, RequestKeepsFacilityInv DEF Comes
  <2> QED
    BY <2>3, <2>4
<1>6. ASSUME NEW m \in Mission, NEW cancel_active \in BOOLEAN,
             CancelFacilityMission(m, cancel_active)
      PROVE  RunnerInv' /\ FacilityInv'
  BY <1>6, CancelCases, CancelKeepsFacilityInv DEF CancelFacilityMission
<1>7. ASSUME NEW o \in Order, NEW cancel_active \in BOOLEAN,
             CancelFacilityWorkflow(o, cancel_active)
      PROVE  RunnerInv' /\ FacilityInv'
  BY <1>7, CancelWorkflowCases, WorkflowKeepsFacilityInv DEF CancelFacilityWorkflow
<1>8. CASE FacilityResult
  BY <1>8, FacilityResultCases, ResultKeepsRunnerInv, ResultKeepsFacilityInv
<1>9. CASE UNCHANGED facilityRunnerVars
  BY <1>9, RunnerLeftAlone, FacilitiesLeftAlone DEF facilityRunnerVars
<1> QED
  BY <1>1, <1>2, <1>3, <1>4, <1>5, <1>6, <1>7, <1>8, <1>9
     DEF FacilityNext, DockingService, Cancellation

\* The runner's invariant holds under the handlers of facilities as well, whatever
\* missions clients name in their reservations: the maps keep their types, what is
\* reserved in the name of a docking mission is always held, and a docking mission
\* came for the charger of the dock it approaches or has lost its note of it.
THEOREM FacilityInvariance == FacilitySpec => [](RunnerInv /\ FacilityInv)
<1>1. FacilityInit => RunnerInv /\ FacilityInv
  BY RunnerInvInit, FacilityInvInit DEF FacilityInit
<1> QED
  BY <1>1, FacilityInvStep, PTL DEF FacilitySpec

\* Docking, charging and facility missions leave the exclusion of deadlocks as it is.
COROLLARY FacilitiesExcludeDeadlock == FacilitySpec => []IntersectionLocksExcludeDeadlock
<1>1. RunnerInv => IntersectionLocksExcludeDeadlock
  BY CoreOfRunner, OneMissionPerStation
<1> QED
  BY <1>1, FacilityInvariance, PTL
-----------------------------------------------------------------------------
(* The promises of the runner, with docks and facilities.                  *)

\* For the runner a step is one of its own, an admission or a result.
LEMMA FacilityAsRunner ==
    ASSUME [FacilityNext]_facilityRunnerVars
    PROVE  \/ [Next]_vars
           \/ \E m \in FacilityMission, p \in Priority : \E start, preempt \in BOOLEAN :
                 AdmitFacilityMission(m, p, start, preempt)
           \/ FacilityResult
<1>1. CASE RunnerStep \/ RunnerService
  BY <1>1 DEF RunnerStep, RunnerService, Next, NextInQueueOrder, MissionService, WorkflowService,
              DockService
<1>2. CASE FacilityService
  <2>1. UNCHANGED vars
    BY <1>2 DEF FacilityService, ReserveFacilityResource, RequestLiftSession, ReleaseFacilityResource,
                ReleaseLiftSession
  <2> QED
    BY <2>1
<1>3. CASE DockingService
  <2>1. ASSUME NEW d \in Dock, NEW m \in DockingMission, NEW p \in Priority,
               NEW contact \in BOOLEAN, NEW start \in BOOLEAN, NEW preempt \in BOOLEAN,
               RequestDocking(m, d, contact, p, start, preempt)
        PROVE  m \in FacilityMission /\ AdmitFacilityMission(m, p, start, preempt)
    BY <2>1 DEF RequestDocking, FacilityMission
  <2>2. ASSUME NEW d \in Dock, NEW named \in BOOLEAN, NEW release \in BOOLEAN,
               RequestUndocking(d, named, release)
        PROVE  UNCHANGED vars
    BY <2>2 DEF RequestUndocking
  <2> QED
    BY <1>3, <2>1, <2>2 DEF DockingService
<1>4. CASE ChargingService
  BY <1>4, ChargingServiceCases DEF Comes
<1>5. CASE Cancellation
  BY <1>5 DEF Cancellation, CancelFacilityMission, CancelFacilityWorkflow, Next, NextInQueueOrder,
              MissionService, WorkflowService
<1>6. CASE UNCHANGED facilityRunnerVars
  BY <1>6 DEF facilityRunnerVars
<1> QED
  BY <1>1, <1>2, <1>3, <1>4, <1>5, <1>6 DEF FacilityNext

\* An admission makes nothing active and takes no lock.
LEMMA AdmissionIsQuiet ==
    ASSUME NEW m \in FacilityMission, NEW p \in Priority, NEW start \in BOOLEAN,
           NEW preempt \in BOOLEAN, AdmitFacilityMission(m, p, start, preempt)
    PROVE  UNCHANGED <<profile, mission_active, trafficVars>> /\ ActiveMission' = ActiveMission
  BY DEF AdmitFacilityMission, AdmitQueuedMissions, profileVars, goalVars, ActiveMission

LEMMA FacilityTrafficStep ==
    RunnerInv /\ [FacilityNext]_facilityRunnerVars => [TrafficNext]_trafficVars
  BY FacilityAsRunner, AdmissionIsQuiet, FacilityResultCases, ResultTraffic, TrafficStep DEF RunnerInv

\* Whatever docks, chargers, doors and lifts do with missions, the runner's route
\* locks behave as the route reservation table.
THEOREM FacilitiesImplementTraffic == FacilitySpec => ImplementsTraffic
<1>1. FacilityInit => TrafficInit
  BY DEF FacilityInit, Init
<1> QED
  BY <1>1, FacilityTrafficStep, FacilityInvariance, PTL DEF FacilitySpec, ImplementsTraffic, TrafficSpec

\* So the runner with its facilities is a reservation service: a route is taken as a
\* whole or not at all, and from nobody.
THEOREM FacilitiesImplementReservations == FacilitySpec => ImplementsReservations
  BY FacilitiesImplementTraffic, TableImplementsReservations, PTL DEF ImplementsTraffic

\* And no docking, charging or contact failure ends a traffic block in passing.
THEOREM FacilitiesKeepBlocks == FacilitySpec => BlockOutlivesMissions
  BY FacilitiesImplementTraffic, BlocksOutliveMissions, PTL DEF ImplementsTraffic

\* Nor is a mission whose cancellation was requested recovered when it comes back
\* from a dock: neither a missing contact nor a late success of the docking queues it
\* again or calls the dock return.
THEOREM FacilitiesEndCanceledMissions == FacilitySpec => CanceledIsNotRecovered
<1>1. ASSUME RunnerInv, [FacilityNext]_facilityRunnerVars, mission_active, cancellation_requested,
             ~mission_active' \/ profile' \notin {profile, None}
      PROVE  current_state' \in {"CANCELED", "ERROR"} /\ mission_queue' = mission_queue
  <2>1. CASE [Next]_vars
    BY <1>1, <2>1, CanceledStep
  <2>2. CASE ResultStep
    BY <1>1, <2>2 DEF ResultStep, ResultCanceled, ResultSucceeded, ResultFailed
  <2> QED
    BY <1>1, <2>1, <2>2, FacilityAsRunner, AdmissionIsQuiet, FacilityResultCases
<1>2. RunnerInv /\ [FacilityNext]_facilityRunnerVars
        => [mission_active /\ cancellation_requested
              /\ (~mission_active' \/ profile' \notin {profile, None})
              => /\ current_state' \in {"CANCELED", "ERROR"}
                 /\ mission_queue' = mission_queue]_vars
  BY <1>1
<1> QED
  BY <1>2, FacilityInvariance, PTL DEF FacilitySpec, CanceledIsNotRecovered

\* Nor does a result at a dock start a queued mission of a paused workflow.
THEOREM FacilitiesKeepPausedMissions == FacilitySpec => PausedMissionsAreNotStarted
<1>1. ASSUME RunnerInv, [FacilityNext]_facilityRunnerVars, NEW m \in QueuedIds,
             BelongsToPausedWorkflow(m)
      PROVE  m \notin ActiveMission'
  <2>1. m \notin ActiveMission
    BY <1>1 DEF RunnerInv, ActiveInv
  <2>2. CASE [Next]_vars
    BY <1>1, <2>2, PausedStep
  <2>3. CASE ResultStep
    BY <1>1, <2>3
       DEF ResultStep, ResultCanceled, ResultSucceeded, ResultFailed, ContactFailureRecovery,
           HandleMissionFailure, RecoverByRetry, RecoverByDock, RecoverByStopping, MissionEnds,
           DispatchMission, ActiveMission
  <2> QED
    BY <1>1, <2>1, <2>2, <2>3, FacilityAsRunner, AdmissionIsQuiet, FacilityResultCases
<1>2. RunnerInv /\ [FacilityNext]_facilityRunnerVars
        => [\A m \in QueuedIds : BelongsToPausedWorkflow(m) => m \notin ActiveMission']_vars
  BY <1>1
<1> QED
  BY <1>2, FacilityInvariance, PTL DEF FacilitySpec, PausedMissionsAreNotStarted

\* A running queue stalls unseen in exactly one case: the contact of a docking fails
\* with a dock return in the queue.
THEOREM FacilitiesShowStalls == FacilitySpec => StallIsShownButForLostContact
<1>1. ASSUME RunnerInv, [FacilityNext]_facilityRunnerVars, AutoStartQueue, Stalled', ~Stalled,
             current_state' \notin {"ERROR", "WORKFLOW_PAUSED"}
      PROVE  /\ DockMission \in QueuedIds
             /\ \E m \in DockingMission, d \in Dock : DockingContactFailed(m, d)
  <2>1. ~[Next]_vars
    BY <1>1, StallStep
  <2>2. ~\E m \in FacilityMission, p \in Priority : \E start, preempt \in BOOLEAN :
            AdmitFacilityMission(m, p, start, preempt)
    BY <1>1, AdmissionDoesNotStall DEF AdmitFacilityMission
  <2>3. CompletedDock \in BOOLEAN /\ CompletedDockOrDocking \in BOOLEAN
    BY DEF CompletedDock, CompletedDockOrDocking
  <2>4. /\ \A m \in DockingMission, d \in Dock : ~DockingSucceeded(m, d)
        /\ ~OtherMissionSucceeded /\ ~MissionFailed /\ \A code \in BOOLEAN : ~MissionCanceled(code)
    BY <1>1, <2>3, ResultDoesNotStall
       DEF DockingSucceeded, OtherMissionSucceeded, MissionFailed, ResultFailed, MissionCanceled
  <2>5. PICK m \in DockingMission, d \in Dock : DockingContactFailed(m, d)
    BY <1>1, <2>1, <2>2, <2>4, FacilityAsRunner DEF FacilityResult
  <2>6. ~RecoverByRetry(FALSE) /\ ~RecoverByStopping(FALSE) /\ ~RecoverByDock(FALSE)
    BY <1>1, ResultDoesNotStall DEF HandleMissionFailure
  <2>7. DockMission \in QueuedIds
    BY <2>5, <2>6 DEF DockingContactFailed, ContactFailureRecovery
  <2> QED
    BY <2>5, <2>7
<1>2. RunnerInv /\ [FacilityNext]_facilityRunnerVars
        => [AutoStartQueue /\ Stalled'
              => \/ Stalled \/ current_state' \in {"ERROR", "WORKFLOW_PAUSED"}
                 \/ /\ DockMission \in QueuedIds
                    /\ \E m \in DockingMission, d \in Dock :
                          DockingContactFailed(m, d)]_facilityRunnerVars
  BY <1>1
<1> QED
  BY <1>2, FacilityInvariance, PTL DEF FacilitySpec, StallIsShownButForLostContact

\* A result releases the locks of the mission that ends, unless it is one that
\* never has any.
LEMMA FacilityResultLocks ==
    ASSUME FacilityResult
    PROVE  \/ ReleaseRouteLocksForMissions({profile})
           \/ profile \notin StationOrder
                 /\ (UNCHANGED trafficVars \/ ReleaseRouteLocksForMissions({}))
<1>1. DockMission \notin StationOrder /\ DockingMission \cap StationOrder = {}
  BY MissionRunnerAssumption, FacilityRunnerAssumption DEF FacilityMission
<1>2. ASSUME NEW m \in DockingMission, NEW d \in Dock, DockingSucceeded(m, d)
      PROVE  profile \notin StationOrder /\ ReleaseRouteLocksForMissions({})
  BY <1>1, <1>2 DEF DockingSucceeded, ResultSucceeded
<1>3. ASSUME NEW m \in DockingMission, NEW d \in Dock, DockingContactFailed(m, d)
      PROVE  profile \notin StationOrder /\ UNCHANGED trafficVars
  BY <1>1, <1>3 DEF DockingContactFailed
<1>4. CASE OtherMissionSucceeded
  BY <1>1, <1>4 DEF OtherMissionSucceeded, ResultSucceeded, CompletedDock
<1>5. CASE MissionFailed \/ \E code \in BOOLEAN : MissionCanceled(code)
  BY <1>5 DEF MissionFailed, MissionCanceled, ResultFailed, ResultCanceled
<1> QED
  BY <1>2, <1>3, <1>4, <1>5 DEF FacilityResult

\* No step gives a mission locks that does not drive a route, and a mission that is
\* given up without ERROR has none afterwards.
LEMMA FacilityOrphansStep ==
    ASSUME RunnerInv, OrdersOwn, [FacilityNext]_facilityRunnerVars
    PROVE  OrdersOwn' /\ (Orphans' \subseteq Orphans \/ current_state' = "ERROR")
<1>0. TrafficTypeOK /\ StationOrder \subseteq Mission
  BY MissionRunnerAssumption DEF RunnerInv, TypeOK
<1>1. CASE [Next]_vars
  BY <1>1, OrphansStep, OrdersOwnStep
<1>2. ASSUME UNCHANGED trafficVars, Live \subseteq Live'
      PROVE  OrdersOwn' /\ Orphans' \subseteq Orphans
  <2>1. \A m \in Mission : OwnedBy(m)' = OwnedBy(m)
    BY <1>2 DEF trafficVars, OwnedBy
  <2> QED
    BY <1>2, <2>1 DEF OrdersOwn, Orphans
<1>3. ASSUME NEW m \in FacilityMission, NEW p \in Priority, NEW start \in BOOLEAN,
             NEW preempt \in BOOLEAN, AdmitFacilityMission(m, p, start, preempt)
      PROVE  OrdersOwn' /\ Orphans' \subseteq Orphans
  <2>1. m \in Mission
    BY FacilityRunnerAssumption DEF FacilityMission
  <2> QED
    BY <1>2, <1>3, <2>1, FacilityAdmission, AdmissionIsQuiet
<1>4. ASSUME FacilityResult
      PROVE  OrdersOwn' /\ Orphans' \subseteq Orphans
  <2>1. Live \ {profile} \subseteq Live'
    BY <1>4, FacilityResultCases, ResultCases
  <2>2. CASE ReleaseRouteLocksForMissions({profile})
    <3>1. \A m \in Mission : OwnedBy(m)' = IF m = profile THEN {} ELSE OwnedBy(m)
      BY <1>0, <2>2, ReleaseOwned
    <3> QED
      BY <2>1, <3>1 DEF OrdersOwn, Orphans
  <2>3. CASE /\ profile \notin StationOrder
             /\ UNCHANGED trafficVars \/ ReleaseRouteLocksForMissions({})
    <3>1. \A m \in Mission : OwnedBy(m)' = OwnedBy(m)
      BY <1>0, <2>3, ReleaseOwned DEF trafficVars, OwnedBy
    <3>2. \A m \in Mission : m = profile => OwnedBy(m)' = {}
      BY <2>3, <3>1 DEF OrdersOwn
    <3> QED
      BY <2>1, <3>1, <3>2 DEF OrdersOwn, Orphans
  <2> QED
    BY <1>4, <2>2, <2>3, FacilityResultLocks
<1> QED
  BY <1>1, <1>3, <1>4, FacilityAsRunner

\* A mission leaves locks behind only in a step that gives it up with ERROR, however
\* docks, contact failures and undockings end the missions in between.
THEOREM FacilitiesReleaseLocks == FacilitySpec => LocksAreLeakedOnlyByErrors
<1>1. FacilityInit => OrdersOwn
  BY OrdersOwnInit DEF FacilityInit
<1>2. FacilitySpec => []OrdersOwn
  BY <1>1, FacilityOrphansStep, FacilityInvariance, PTL DEF FacilitySpec
<1>3. RunnerInv /\ OrdersOwn /\ [FacilityNext]_facilityRunnerVars
        => [Orphans' \subseteq Orphans \/ current_state' = "ERROR"]_vars
  BY FacilityOrphansStep
<1> QED
  BY <1>2, <1>3, FacilityInvariance, PTL DEF FacilitySpec, LocksAreLeakedOnlyByErrors

\* And a live station order keeps its route while robots dock and charge.
THEOREM FacilitiesKeepRoutes == FacilitySpec => LiveOrderKeepsItsRoute
<1>1. ASSUME RunnerInv, [FacilityNext]_facilityRunnerVars, ~[Next]_vars, NEW m \in StationOrder,
             m \in Live, m \in Live', OwnedBy(m)' # OwnedBy(m)
      PROVE  m \in ActiveMission /\ current_state' = "RECOVERING"
  <2>0. /\ TrafficTypeOK /\ m \in Mission /\ m # DockMission /\ m # None
        /\ ~UNCHANGED trafficVars
    BY <1>1, MissionRunnerAssumption DEF RunnerInv, TypeOK, trafficVars, OwnedBy
  <2>1. FacilityResult
    BY <1>1, <2>0, FacilityAsRunner, AdmissionIsQuiet
  <2>2. m = profile
    BY <1>1, <2>0, <2>1, FacilityResultLocks, ReleaseOwned
  <2> QED
    BY <1>1, <2>0, <2>1, <2>2, FacilityResultCases, ResultCases
<1>2. RunnerInv /\ [FacilityNext]_facilityRunnerVars
        => [\A m \in StationOrder :
              /\ m \in Live /\ OwnedBy(m) # {}
              /\ m \in Live' /\ OwnedBy(m)' # OwnedBy(m)
              => \/ TrafficService
                 \/ m \in ActiveMission /\ current_state' = "RECOVERING"
                 \/ m \in ActiveMission /\ \E o \in Order : CancelWorkflow(o, TRUE)]_vars
  BY <1>1, LiveRouteStep
<1> QED
  BY <1>2, FacilityInvariance, PTL DEF FacilitySpec, LiveOrderKeepsItsRoute
-----------------------------------------------------------------------------
(* What a step does to missions and facilities together.                   *)

NoDockCharges ==
    \A d \in Dock : dock_states'[d].state = "CHARGING" => dock_states[d].state = "CHARGING"

\* Facility missions stay where they are or are lost with ERROR.
Untouched ==
    /\ UNCHANGED facilityVars
    /\ Live \cap FacilityMission \subseteq Live' \/ current_state' = "ERROR"

Requested(m, f) ==
    /\ m \notin Live /\ Live' = Live \cup {m}
    /\ f \notin Exclusive \/ facility_reservations[f] = Unreserved
    /\ facility_reservations'[f].mission = m /\ facility_resource_by_mission'[m] = f
    /\ \A g \in Facility \ {f} : facility_reservations'[g] = facility_reservations[g]
    /\ \A n \in Mission \ {m} :
          facility_resource_by_mission'[n] = facility_resource_by_mission[n]
    /\ NoDockCharges

GivenUp(m) ==
    /\ ReleaseResourceForMission(m)
    /\ Live \ {m} \subseteq Live'
    /\ m \in FacilityMission /\ m \in Live' => m \in ActiveMission /\ current_state' = "RECOVERING"
    /\ NoDockCharges

Arrived(m, d) ==
    /\ m \in ActiveMission /\ Live \ {m} \subseteq Live'
    /\ dock_by_mission[m] = d
    /\ MarkResourceOccupiedForMission(m, "CHARGING")
    /\ dock_states' = [dock_states EXCEPT ![d] = DockState(m, "CHARGING", TRUE, 0)]

ContactLost(m, d) ==
    /\ m \in ActiveMission /\ Live \ {m} \subseteq Live'
    /\ ContactFails(d) /\ HandleDockingContactFailure(m, d)

LEMMA FacilityResultKinds ==
    ASSUME RunnerInv, FacilityInv, FacilityResult
    PROVE  \/ Untouched
           \/ \E m \in Mission : GivenUp(m)
           \/ \E m \in DockingMission, d \in Dock : Arrived(m, d) \/ ContactLost(m, d)
<1>1. /\ ActiveMission = {profile} \ {None} /\ Live \ {profile} \subseteq Live'
      /\ profile \in Mission \ {DockMission} => profile \notin Live' \/ current_state' = "RECOVERING"
  BY FacilityResultCases, ResultCases
<1>2. /\ DockMission \notin FacilityMission /\ None \notin Mission
      /\ FacilityMission \subseteq Mission /\ DockingMission \subseteq FacilityMission
  BY FacilityRunnerAssumption, MissionRunnerAssumption DEF FacilityMission
<1>3. CASE UNCHANGED facilityVars /\ profile \in {None, DockMission}
  BY <1>1, <1>2, <1>3 DEF Untouched
<1>4. CASE /\ profile \in Mission /\ ReleaseResourceForMission(profile)
           /\ \/ UNCHANGED <<dock_states, dock_by_mission>>
              \/ \E state \in {"CANCELED", "FAILED"} : MarkDockingMissionTerminal(profile, state)
  <2>1. NoDockCharges
    BY <1>4 DEF NoDockCharges, MarkDockingMissionTerminal, DockState
  <2>2. GivenUp(profile)
    BY <1>1, <1>2, <1>4, <2>1 DEF GivenUp
  <2> QED
    BY <1>4, <2>2
<1>5. ASSUME NEW d \in Dock, profile \in DockingMission, dock_by_mission[profile] = d,
             MarkResourceOccupiedForMission(profile, "CHARGING"),
             dock_states' = [dock_states EXCEPT ![d] = DockState(profile, "CHARGING", TRUE, 0)]
      PROVE  Arrived(profile, d)
  BY <1>1, <1>2, <1>5 DEF Arrived
<1>6. ASSUME NEW d \in Dock, profile \in DockingMission, ContactFails(d),
             HandleDockingContactFailure(profile, d)
      PROVE  ContactLost(profile, d)
  BY <1>1, <1>2, <1>6 DEF ContactLost
<1> QED
  BY <1>3, <1>4, <1>5, <1>6, FacilityResultCases

LEMMA FacilityCases ==
    ASSUME RunnerInv, FacilityInv, [FacilityNext]_facilityRunnerVars
    PROVE  \/ Untouched
           \/ FacilityService
           \/ \E m \in FacilityMission, f \in Facility : Requested(m, f)
           \/ \E d \in Dock, named, release \in BOOLEAN : RequestUndocking(d, named, release)
           \/ \E m \in Mission : GivenUp(m)
           \/ \E o \in Order, active \in BOOLEAN : CancelFacilityWorkflow(o, active)
           \/ \E m \in DockingMission, d \in Dock : Arrived(m, d) \/ ContactLost(m, d)
<1>0. /\ FacilityMission \subseteq Mission /\ DockingMission \subseteq FacilityMission
      /\ dock_states \in [Dock -> [mission : Mission \cup Client \cup {None, UndockRequest}, state : DockStatus,
                                   contact_success : BOOLEAN, contact_attempts : {0, 1}]]
  BY FacilityRunnerAssumption DEF FacilityMission, FacilityInv, FacilityTypeOK
<1>1. CASE RunnerStep \/ RunnerService
  BY <1>1, RunnerStepCases, RunnerServiceCases DEF RunnerStep, RunnerService, Untouched
<1>2. ASSUME NEW d \in Dock, NEW m \in DockingMission, NEW p \in Priority,
             NEW contact_success \in BOOLEAN, NEW start \in BOOLEAN, NEW preempt \in BOOLEAN,
             RequestDocking(m, d, contact_success, p, start, preempt)
      PROVE  m \in FacilityMission /\ ChargerOf[d] \in Facility /\ Requested(m, ChargerOf[d])
  <2>1. /\ m \in FacilityMission /\ m \in Mission
        /\ ChargerOf[d] \in Facility /\ "APPROACHING" \in ReservationStatus
    BY <1>0, FacilityRunnerAssumption DEF ReservationStatus
  <2>2. m \notin Live /\ Live' = Live \cup {m}
    BY <1>2, <2>1, FacilityAdmission DEF RequestDocking
  <2>3. NoDockCharges
    BY <1>0, <1>2 DEF RequestDocking, NoDockCharges, DockState
  <2>4. /\ ReserveForMission(m, ChargerOf[d], "APPROACHING", TRUE)
        /\ facility_reservations[ChargerOf[d]] = Unreserved
    BY <1>2 DEF RequestDocking, DockAvailable
  <2> DEFINE f == ChargerOf[d]
  <2>5. /\ facility_reservations'[f].mission = m /\ facility_resource_by_mission'[m] = f
        /\ \A g \in Facility \ {f} : facility_reservations'[g] = facility_reservations[g]
        /\ \A n \in Mission \ {m} :
              facility_resource_by_mission'[n] = facility_resource_by_mission[n]
    <3>1. /\ facility_reservations' =
                [facility_reservations EXCEPT ![f] = Reservation(m, m, "APPROACHING", TRUE)]
          /\ facility_resource_by_mission' = [facility_resource_by_mission EXCEPT ![m] = f]
      BY <2>4 DEF ReserveForMission
    <3>2. /\ facility_reservations \in [Facility -> GoodReservation]
          /\ facility_resource_by_mission \in [Mission -> Facility \cup {None}]
      BY FacilityInvParts DEF FacilityMapsTyped
    <3>3. Reservation(m, m, "APPROACHING", TRUE).mission = m
      BY DEF Reservation
    <3> HIDE DEF f
    <3> QED
      BY <2>1, <3>1, <3>2, <3>3 DEF f
  <2> QED
    BY <2>1, <2>2, <2>3, <2>4, <2>5 DEF Requested
<1>3. CASE ChargingService
  <2>1. PICK m \in FacilityMission \ DockingMission, f \in Facility, p \in Priority :
           \E start, preempt, hold \in BOOLEAN : Comes(m, f, p, start, preempt, hold)
    BY <1>3, ChargingServiceCases
  <2>2. m \notin Live /\ Live' = Live \cup {m}
    BY <1>0, <2>1, FacilityAdmission DEF Comes
  <2>3. NoDockCharges
    BY <2>1 DEF Comes, NoDockCharges
  <2>4. /\ f \notin Exclusive \/ facility_reservations[f] = Unreserved
        /\ \E hold \in BOOLEAN : ReserveForMission(m, f, "reserved", hold)
    BY <2>1 DEF Comes, FacilityResourceAvailable
  <2>5. "reserved" \in ReservationStatus
    BY DEF ReservationStatus
  <2>6. Requested(m, f)
    BY <2>1, <2>2, <2>3, <2>4, <2>5, RequestCases DEF Requested
  <2> QED
    BY <2>6
<1>4. ASSUME NEW m \in Mission, NEW cancel_active \in BOOLEAN,
             CancelFacilityMission(m, cancel_active)
      PROVE  Untouched \/ GivenUp(m)
  <2>1. NoDockCharges
    BY <1>4 DEF CancelFacilityMission, NoDockCharges
  <2>2. CASE m \in QueuedIds
    <3>1. Live' = Live \ {m}
      BY <1>4, <2>2, CancelCases DEF CancelFacilityMission
    <3> QED
      BY <1>4, <2>1, <2>2, <3>1 DEF CancelFacilityMission, GivenUp
  <2>3. CASE m \notin QueuedIds
    <3>1. Live' = Live
      BY <1>4, <2>3, CancelCases DEF CancelFacilityMission
    <3> QED
      BY <1>4, <2>3, <3>1 DEF CancelFacilityMission, Untouched, facilityVars
  <2> QED
    BY <2>2, <2>3
<1>5. CASE UNCHANGED facilityRunnerVars
  BY <1>5, RunnerLeftAlone DEF facilityRunnerVars, Untouched
<1> QED
  BY <1>1, <1>2, <1>3, <1>4, <1>5, FacilityResultKinds DEF FacilityNext, DockingService, Cancellation

\* What an arrival does with a reservation.
LEMMA ArrivedReservation ==
    ASSUME FacilityInv, NEW m \in DockingMission, NEW d \in Dock, Arrived(m, d), NEW f \in Facility
    PROVE  \/ facility_reservations'[f] = facility_reservations[f] /\
                 (f # facility_resource_by_mission[m] \/ facility_reservations[f] = Unreserved)
           \/ /\ f = facility_resource_by_mission[m]
              /\ facility_reservations'[f] = Unreserved /\ ~facility_reservations[f].hold
           \/ /\ f = facility_resource_by_mission[m]
              /\ facility_reservations'[f].mission = facility_reservations[f].mission
              /\ facility_reservations'[f].holder = facility_reservations[f].holder
              /\ facility_reservations'[f].status = "CHARGING"
              /\ facility_resource_by_mission'[m] = f
<1> DEFINE g == facility_resource_by_mission[m]
<1>1. m \in Mission /\ facility_reservations[f] \in GoodReservation /\ f # None
  BY FacilityRunnerAssumption, FacilityInvParts DEF FacilityMission
<1>2. facility_reservations[f] # Unreserved =>
          /\ [facility_reservations[f] EXCEPT !.status = "CHARGING"].mission
                 = facility_reservations[f].mission
          /\ [facility_reservations[f] EXCEPT !.status = "CHARGING"].holder
                 = facility_reservations[f].holder
          /\ [facility_reservations[f] EXCEPT !.status = "CHARGING"].status = "CHARGING"
  BY <1>1, RestatedReservation DEF ReservationStatus
<1>3. f # g => facility_reservations'[f] = facility_reservations[f]
  BY <1>1, OccupiedCases DEF Arrived
<1>4. \/ facility_reservations' = facility_reservations /\ (g = None \/ facility_reservations[g] = Unreserved)
      \/ facility_reservations'[g] = Unreserved /\ ~facility_reservations[g].hold
      \/ /\ facility_reservations[g] # Unreserved
         /\ facility_reservations'[g] = [facility_reservations[g] EXCEPT !.status = "CHARGING"]
         /\ facility_resource_by_mission'[m] = g
  BY <1>1, OccupiedCases DEF Arrived
<1> QED
  BY <1>1, <1>2, <1>3, <1>4

\* What a lost contact does with it.
LEMMA ContactLostReservation ==
    ASSUME FacilityInv, NEW m \in DockingMission, NEW d \in Dock, ContactLost(m, d), NEW f \in Facility
    PROVE  /\ facility_reservations'[f].mission = facility_reservations[f].mission
           /\ facility_reservations'[f].holder = facility_reservations[f].holder
           /\ \/ facility_reservations'[f] = facility_reservations[f]
                    /\ (f # facility_resource_by_mission[m] \/ facility_reservations[f] = Unreserved)
              \/ /\ f = facility_resource_by_mission[m]
                 /\ facility_reservations'[f].status = "DOCKING_CONTACT_FAILED"
           /\ UNCHANGED facility_resource_by_mission
<1>1. m \in Mission /\ facility_reservations[f] \in GoodReservation
  BY FacilityRunnerAssumption, FacilityInvParts DEF FacilityMission
<1>2. facility_reservations[f] # Unreserved =>
          /\ [facility_reservations[f] EXCEPT !.status = "DOCKING_CONTACT_FAILED"].mission
                 = facility_reservations[f].mission
          /\ [facility_reservations[f] EXCEPT !.status = "DOCKING_CONTACT_FAILED"].holder
                 = facility_reservations[f].holder
          /\ [facility_reservations[f] EXCEPT !.status = "DOCKING_CONTACT_FAILED"].status
                 = "DOCKING_CONTACT_FAILED"
  BY <1>1, RestatedReservation DEF ReservationStatus
<1> QED
  BY <1>1, <1>2, ContactFailureCases DEF ContactLost

LEMMA TakenOverStep ==
    ASSUME RunnerInv, FacilityInv, [FacilityNext]_facilityRunnerVars, NEW f \in Exclusive,
           facility_reservations[f] # Unreserved, facility_reservations'[f] # Unreserved
    PROVE  facility_reservations'[f].holder = facility_reservations[f].holder
<1>1. f \in Facility
  BY FacilityRunnerAssumption
<1>2. CASE Untouched
  BY <1>2 DEF Untouched, facilityVars
<1>3. CASE FacilityService
  BY <1>1, <1>3, ServiceCases
<1>4. ASSUME NEW m \in FacilityMission, NEW g \in Facility, Requested(m, g)
      PROVE  facility_reservations'[f].holder = facility_reservations[f].holder
  BY <1>1, <1>4 DEF Requested
<1>5. ASSUME NEW d \in Dock, NEW named \in BOOLEAN, NEW release \in BOOLEAN,
             RequestUndocking(d, named, release)
      PROVE  facility_reservations'[f].holder = facility_reservations[f].holder
  BY <1>1, <1>5, UndockingCases
<1>6. ASSUME NEW m \in Mission, GivenUp(m)
      PROVE  facility_reservations'[f].holder = facility_reservations[f].holder
  BY <1>1, <1>6, ReleaseCases DEF GivenUp
<1>7. ASSUME NEW m \in DockingMission, NEW d \in Dock, Arrived(m, d) \/ ContactLost(m, d)
      PROVE  facility_reservations'[f].holder = facility_reservations[f].holder
  BY <1>1, <1>7, ArrivedReservation, ContactLostReservation
<1>8. ASSUME NEW o \in Order, NEW active \in BOOLEAN, CancelFacilityWorkflow(o, active)
      PROVE  facility_reservations'[f].holder = facility_reservations[f].holder
  BY <1>1, <1>8, WorkflowCases
<1> QED
  BY <1>2, <1>3, <1>4, <1>5, <1>6, <1>7, <1>8, FacilityCases

\* Nobody takes over an exclusive resource: whatever requests, results, undockings
\* and lift sessions come, it is free between two holders.
THEOREM ExclusiveResourcesAreKept == FacilitySpec => NothingIsTakenOver
<1>1. (RunnerInv /\ FacilityInv) /\ [FacilityNext]_facilityRunnerVars
        => [\A f \in Exclusive :
              /\ facility_reservations[f] # Unreserved
              /\ facility_reservations'[f] # Unreserved
              => facility_reservations'[f].holder = facility_reservations[f].holder]_facilityRunnerVars
  BY TakenOverStep
<1> QED
  BY <1>1, FacilityInvariance, PTL DEF FacilitySpec, NothingIsTakenOver

LEMMA DockedStep ==
    ASSUME RunnerInv, FacilityInv, [FacilityNext]_facilityRunnerVars,
           NEW m \in DockingMission, NEW d \in Dock,
           dock_states'[d].state = "CHARGING", dock_states'[d].mission = m,
           dock_states[d].state # "CHARGING",
           facility_resource_by_mission[m] # None,
           facility_reservations[ChargerOf[d]].mission = m
    PROVE  /\ facility_reservations'[ChargerOf[d]].mission = m
           /\ facility_reservations'[ChargerOf[d]].status = "CHARGING"
<1>0. /\ m \in Mission /\ ChargerOf[d] \in Facility /\ None \notin Dock
      /\ facility_reservations[ChargerOf[d]] \in GoodReservation
      /\ dock_states \in [Dock -> [mission : Mission \cup Client \cup {None, UndockRequest}, state : DockStatus,
                                   contact_success : BOOLEAN, contact_attempts : {0, 1}]]
  BY FacilityRunnerAssumption, FacilityInvParts DEF FacilityMission, FacilityMapsTyped
<1>1. ~NoDockCharges
  BY DEF NoDockCharges
<1>2. ~Untouched /\ ~FacilityService
  BY <1>1, ServiceCases DEF NoDockCharges, Untouched, facilityVars
<1>3. ASSUME NEW e \in Dock, NEW named \in BOOLEAN, NEW release \in BOOLEAN,
             RequestUndocking(e, named, release)
      PROVE  FALSE
  BY <1>0, <1>1, <1>3 DEF RequestUndocking, NoDockCharges, DockState
<1>4. ASSUME NEW n \in DockingMission, NEW e \in Dock, ContactLost(n, e)
      PROVE  FALSE
  BY <1>0, <1>1, <1>4 DEF ContactLost, HandleDockingContactFailure, NoDockCharges, DockState
<1>5. PICK n \in DockingMission, e \in Dock : Arrived(n, e)
  BY <1>1, <1>2, <1>3, <1>4, FacilityCases
     DEF Requested, GivenUp, CancelFacilityWorkflow, NoDockCharges
<1>6. n = m /\ e = d
  BY <1>0, <1>5 DEF Arrived, DockState
<1>7. facility_resource_by_mission[m] = ChargerOf[d]
  BY <1>0, <1>5, <1>6 DEF Arrived, FacilityInv, NotesInv
<1>8. facility_reservations[ChargerOf[d]] # Unreserved /\ facility_reservations[ChargerOf[d]].hold
  BY <1>0, HolderFacts
<1> QED
  BY <1>0, <1>5, <1>6, <1>7, <1>8, ArrivedReservation

\* A robot that arrives at a dock with the charger still in its name, and its own note
\* of it, is shown charging there by dock and charger alike, and the charger stays
\* taken, whoever else reserves resources in its name.
THEOREM DockedRobotsHoldTheirChargers == FacilitySpec => DockedRobotHoldsItsCharger
<1>1. (RunnerInv /\ FacilityInv) /\ [FacilityNext]_facilityRunnerVars
        => [\A m \in DockingMission, d \in Dock :
              /\ dock_states'[d].state = "CHARGING" /\ dock_states'[d].mission = m
              /\ dock_states[d].state # "CHARGING"
              /\ facility_resource_by_mission[m] # None
              /\ facility_reservations[ChargerOf[d]].mission = m
              => /\ facility_reservations'[ChargerOf[d]].mission = m
                 /\ facility_reservations'[ChargerOf[d]].status = "CHARGING"]_facilityRunnerVars
  BY DockedStep
<1> QED
  BY <1>1, FacilityInvariance, PTL DEF FacilitySpec, DockedRobotHoldsItsCharger

LEMMA KeptFacilityStep ==
    ASSUME RunnerInv, FacilityInv, [FacilityNext]_facilityRunnerVars,
           NEW f \in Exclusive, NEW m \in FacilityMission,
           facility_reservations[f].mission = m, facility_reservations'[f].mission # m,
           m \in Live, m \in Live'
    PROVE  \/ FacilityService
           \/ \E d \in Dock : \E named \in BOOLEAN : RequestUndocking(d, named, TRUE)
           \/ /\ m \in ActiveMission
              /\ \/ current_state' = "RECOVERING"
                 \/ \E o \in Order : CancelFacilityWorkflow(o, TRUE)
           \/ \E n \in ActiveMission \ {m} : facility_resource_by_mission[n] = f
<1>1. /\ f \in Facility /\ m \in Mission /\ facility_reservations[f] \in GoodReservation
      /\ facility_reservations[f] # Unreserved
  BY FacilityRunnerAssumption, FacilityInvParts, UnreservedIsGood, MissionRunnerAssumption
<1>2. ~Untouched
  BY DEF Untouched, facilityVars
<1>3. ASSUME NEW n \in FacilityMission, NEW g \in Facility, Requested(n, g)
      PROVE  FALSE
  BY <1>1, <1>3 DEF Requested
<1>4. ASSUME NEW d \in Dock, NEW named \in BOOLEAN, NEW release \in BOOLEAN,
             RequestUndocking(d, named, release)
      PROVE  RequestUndocking(d, named, TRUE)
  <2>1. release
    BY <1>1, <1>4, UndockingCases
  <2> QED
    BY <1>4, <2>1 DEF RequestUndocking
<1>5. ASSUME NEW n \in Mission, GivenUp(n)
      PROVE  m \in ActiveMission /\ current_state' = "RECOVERING"
  <2>1. n = m
    BY <1>1, <1>5, ReleaseCases DEF GivenUp
  <2> QED
    BY <1>5, <2>1 DEF GivenUp
<1>6. ASSUME NEW n \in DockingMission, NEW d \in Dock, Arrived(n, d)
      PROVE  n \in ActiveMission \ {m} /\ facility_resource_by_mission[n] = f
  <2>1. f = facility_resource_by_mission[n] /\ ~facility_reservations[f].hold
    BY <1>1, <1>6, ArrivedReservation
  <2>2. n # m
    BY <1>1, <2>1, HolderFacts
  <2> QED
    BY <1>6, <2>1, <2>2 DEF Arrived
<1>7. ASSUME NEW n \in DockingMission, NEW d \in Dock, ContactLost(n, d)
      PROVE  FALSE
  BY <1>1, <1>7, ContactLostReservation
<1>8. ASSUME NEW o \in Order, NEW active \in BOOLEAN, CancelFacilityWorkflow(o, active)
      PROVE  m \in ActiveMission /\ CancelFacilityWorkflow(o, TRUE)
  BY <1>1, <1>8, WorkflowCases
<1> QED
  BY <1>2, <1>3, <1>4, <1>5, <1>6, <1>7, <1>8, FacilityCases

\* A mission under way keeps its exclusive resource, except where a client or an
\* undocking releases it, a retry follows its own result, its workflow is canceled, or
\* a docking mission ends whose note still names that resource.
THEOREM LiveMissionsKeepFacilities == FacilitySpec => LiveMissionKeepsItsFacility
<1>1. (RunnerInv /\ FacilityInv) /\ [FacilityNext]_facilityRunnerVars
        => [\A f \in Exclusive, m \in FacilityMission :
              /\ facility_reservations[f].mission = m /\ facility_reservations'[f].mission # m
              /\ m \in Live /\ m \in Live'
              => \/ FacilityService
                 \/ \E d \in Dock : \E named \in BOOLEAN : RequestUndocking(d, named, TRUE)
                 \/ /\ m \in ActiveMission
                    /\ \/ current_state' = "RECOVERING"
                       \/ \E o \in Order : CancelFacilityWorkflow(o, TRUE)
                 \/ \E n \in ActiveMission \ {m} :
                       facility_resource_by_mission[n] = f]_facilityRunnerVars
  BY KeptFacilityStep
<1> QED
  BY <1>1, FacilityInvariance, PTL DEF FacilitySpec, LiveMissionKeepsItsFacility

LEMMA LeftBehindStep ==
    ASSUME RunnerInv, FacilityInv, [FacilityNext]_facilityRunnerVars,
           NEW f \in Facility, f \in LeftBehind', f \notin LeftBehind, current_state' # "ERROR"
    PROVE  \/ FacilityService /\ facility_reservations'[f] # facility_reservations[f]
           \/ /\ facility_reservations'[f].status \in {"CHARGING", "DOCKING_CONTACT_FAILED"}
              /\ \E m \in ActiveMission : facility_resource_by_mission[m] = f
<1>0. PICK m \in Mission : /\ facility_reservations'[f].mission = m
                           /\ m \notin Live' \/ facility_resource_by_mission'[m] # f
  BY DEF LeftBehind
<1> DEFINE before == /\ facility_reservations[f].mission = m
                     /\ m \notin Live \/ facility_resource_by_mission[m] # f
<1>1. ~before
  BY DEF LeftBehind
<1>2. /\ facility_reservations[f] \in GoodReservation /\ facility_reservations'[f] # Unreserved
      /\ facility_resource_by_mission[m] = f => m \in FacilityMission
      /\ Unreserved.mission \notin Mission
      /\ \A n \in DockingMission : n \in Mission
  BY <1>0, FacilityInvParts, UnreservedIsGood, MissionRunnerAssumption, HolderFacts,
     FacilityRunnerAssumption DEF FacilityMission, NotesInv
<1>3. CASE Untouched
  BY <1>0, <1>1, <1>2, <1>3 DEF Untouched, facilityVars
<1>4. ASSUME FacilityService
      PROVE  facility_reservations'[f] # facility_reservations[f]
  <2>1. UNCHANGED <<Live, facility_resource_by_mission>>
    BY <1>4, ServiceCases, RunnerLeftAlone
  <2> QED
    BY <1>0, <1>1, <2>1
<1>5. ASSUME NEW n \in FacilityMission, NEW g \in Facility, Requested(n, g)
      PROVE  FALSE
  <2>1. CASE f = g
    BY <1>0, <1>5, <2>1 DEF Requested
  <2>2. CASE f # g
    BY <1>0, <1>1, <1>5, <2>2 DEF Requested
  <2> QED
    BY <2>1, <2>2
<1>6. ASSUME NEW d \in Dock, NEW named \in BOOLEAN, NEW release \in BOOLEAN,
             RequestUndocking(d, named, release)
      PROVE  FALSE
  <2>1. Live' = Live
    BY <1>6, UndockingCases, RunnerLeftAlone
  <2>2. facility_reservations'[f] = facility_reservations[f]
    BY <1>0, <1>2, <1>6, UndockingCases
  <2>3. m = DockHolder(d) /\ ~UNCHANGED <<facility_reservations, facility_resource_by_mission>>
    BY <1>0, <1>1, <1>6, <2>1, <2>2, UndockingCases
  <2>4. /\ f # ChargerOf[d]
        /\ facility_resource_by_mission'[m] = IF facility_resource_by_mission[m] = ChargerOf[d] THEN None
                                              ELSE facility_resource_by_mission[m]
    BY <1>0, <1>2, <1>6, <2>2, <2>3, UndockingCases
  <2> QED
    BY <1>0, <1>1, <2>1, <2>2, <2>4
<1>7. ASSUME NEW n \in Mission, GivenUp(n)
      PROVE  FALSE
  <2>1. facility_reservations'[f] = facility_reservations[f]
    BY <1>2, <1>7, ReleaseCases DEF GivenUp
  <2>2. n = m
    BY <1>0, <1>1, <1>7, <2>1, ReleaseCases DEF GivenUp
  <2>3. facility_resource_by_mission[m] # f
    BY <1>0, <1>2, <1>7, <2>1, <2>2, ReleaseCases DEF GivenUp
  <2> QED
    BY <1>0, <1>1, <2>1, <2>3
<1>8. ASSUME NEW n \in DockingMission, NEW d \in Dock, Arrived(n, d)
      PROVE  /\ facility_reservations'[f].status = "CHARGING"
             /\ n \in ActiveMission /\ facility_resource_by_mission[n] = f
  <2>1. \A k \in Mission \ {n} :
            facility_resource_by_mission'[k] = facility_resource_by_mission[k]
    BY <1>2, <1>8, OccupiedCases DEF Arrived
  <2>2. CASE f # facility_resource_by_mission[n]
    <3>1. facility_reservations'[f] = facility_reservations[f]
      BY <1>8, <2>2, ArrivedReservation
    <3>2. m # n
      BY <1>0, <1>1, <2>2, <3>1
    <3> QED
      BY <1>0, <1>1, <1>8, <2>1, <3>1, <3>2 DEF Arrived
  <2>3. CASE f = facility_resource_by_mission[n]
    BY <1>2, <1>8, <2>3, ArrivedReservation DEF Arrived
  <2> QED
    BY <2>2, <2>3
<1>9. ASSUME NEW n \in DockingMission, NEW d \in Dock, ContactLost(n, d)
      PROVE  /\ facility_reservations'[f].status = "DOCKING_CONTACT_FAILED"
             /\ n \in ActiveMission /\ facility_resource_by_mission[n] = f
  <2>1. UNCHANGED facility_resource_by_mission
        /\ facility_reservations'[f].mission = facility_reservations[f].mission
    BY <1>9, ContactLostReservation
  <2>2. CASE f # facility_resource_by_mission[n]
    BY <1>0, <1>1, <1>9, <2>1, <2>2 DEF ContactLost
  <2>3. CASE f = facility_resource_by_mission[n]
    BY <1>2, <1>9, <2>3, ContactLostReservation DEF ContactLost
  <2> QED
    BY <2>2, <2>3
<1>10. ASSUME NEW o \in Order, NEW active \in BOOLEAN, CancelFacilityWorkflow(o, active)
       PROVE  FALSE
  <2>1. PICK ms \in SUBSET Mission :
            /\ Live \ ms \subseteq Live'
            /\ \A g \in Facility : \/ facility_reservations'[g] = facility_reservations[g]
                                  \/ /\ facility_reservations'[g] = Unreserved
                                     /\ facility_reservations[g].mission \in ms
            /\ \A k \in ms : \A g \in Facility :
                  facility_resource_by_mission[k] = g /\ facility_reservations[g].mission = k
                     => facility_reservations'[g] = Unreserved
            /\ facility_resource_by_mission' =
                   [k \in Mission |-> IF k \in ms THEN None ELSE facility_resource_by_mission[k]]
    BY <1>10, WorkflowCases
  <2>2. facility_reservations'[f] = facility_reservations[f]
    BY <1>2, <2>1
  <2> QED
    BY <1>0, <1>1, <1>2, <2>1, <2>2
<1> QED
  BY <1>3, <1>4, <1>5, <1>6, <1>7, <1>8, <1>9, <1>10, FacilityCases

\* A resource outlives the mission it was reserved for only under a robot that has
\* docked there or whose charging contact failed, or in a step that shows ERROR:
\* results, cancellations, workflows and new requests leave nothing else behind, and a
\* client only what it has just reserved itself.
THEOREM ResourcesAreGivenBack == FacilitySpec => ResourcesAreLeftOnlyUnderDockedRobot
<1>1. (RunnerInv /\ FacilityInv) /\ [FacilityNext]_facilityRunnerVars
        => [\A f \in LeftBehind' \ LeftBehind :
              \/ current_state' = "ERROR"
              \/ FacilityService /\ facility_reservations'[f] # facility_reservations[f]
              \/ facility_reservations'[f].status \in {"CHARGING", "DOCKING_CONTACT_FAILED"}
                    /\ \E m \in ActiveMission : facility_resource_by_mission[m] = f]_facilityRunnerVars
  BY LeftBehindStep DEF LeftBehind
<1> QED
  BY <1>1, FacilityInvariance, PTL DEF FacilitySpec, ResourcesAreLeftOnlyUnderDockedRobot
=============================================================================
