--------------------------- MODULE FacilityRunner ---------------------------
(***************************************************************************)
(* Docks, chargers, doors and lifts of the mission runner: who has         *)
(* reserved a resource, which resource a mission came for, and what a dock *)
(* shows.  The four maps live in the same node as the queue, so every      *)
(* handler is one step, and a mission's result changes queue and           *)
(* reservations together (mission_runner_node.cpp, docking_workflow.cpp,   *)
(* facility_reservation.cpp, facility_workflow.cpp).                       *)
(***************************************************************************)
EXTENDS MissionRunner

CONSTANTS
    Facility,         \* the enabled resources of the facility catalog
    Exclusive,        \* those of them that are exclusive
    Charger, Lift,    \* resources of type charger and elevator
    Dock, ChargerOf,  \* the docks of the dock catalog and their chargers
    DockingMission,   \* docking_request_<id>
    ChargingMission,  \* charging_request_<id>
    ActionMission,    \* facility_action_<id>
    Client,           \* ids that clients give as holder, as lift session or as mission
    UndockRequest     \* undocking_request_<id>

FacilityMission == DockingMission \cup ChargingMission \cup ActionMission

ASSUME FacilityRunnerAssumption ==
    /\ Exclusive \subseteq Facility /\ Charger \subseteq Facility /\ Lift \subseteq Facility
    /\ ChargerOf \in [Dock -> Charger]
    /\ FacilityMission \subseteq Mission \ (FileMission \cup StationOrder \cup TransportOrder)
    /\ DockingMission \cap (ChargingMission \cup ActionMission) = {}
    /\ None \notin Client \cup Facility \cup Dock
    /\ UndockRequest \notin Mission \cup {None}

VARIABLES
    facility_reservations,         \* resource -> reservation, Unreserved without an entry
    facility_resource_by_mission,  \* mission -> the resource it came for
    dock_states,                   \* dock -> what it shows, NoDockState without an entry
    dock_by_mission                \* mission -> the dock it approaches

facilityVars == <<facility_reservations, facility_resource_by_mission, dock_states,
                  dock_by_mission>>
facilityRunnerVars == <<vars, facilityVars>>

\* hold is hold_after_completion.
Reservation(holder, mission, status, hold) ==
    [holder |-> holder, mission |-> mission, status |-> status, hold |-> hold]

Unreserved == Reservation(None, None, "available", FALSE)

DockState(mission, state, contact_success, contact_attempts) ==
    [mission |-> mission, state |-> state, contact_success |-> contact_success,
     contact_attempts |-> contact_attempts]

NoDockState == DockState(None, "AVAILABLE", TRUE, 0)

ReservationStatus == {"available", "reserved", "APPROACHING", "CHARGING",
                      "DOCKING_CONTACT_FAILED", "occupied", "lift_session"}
DockStatus == {"AVAILABLE", "APPROACHING", "CHARGING", "FAILED", "CANCELED", "UNDOCKED"}

FacilityTypeOK ==
    /\ facility_reservations \in
           [Facility -> [holder : Mission \cup Client \cup {None},
                         mission : Mission \cup Client \cup {None},
                         status : ReservationStatus, hold : BOOLEAN]]
    /\ \A f \in Facility : facility_reservations[f].holder = None
                               <=> facility_reservations[f] = Unreserved
    /\ facility_resource_by_mission \in [Mission -> Facility \cup {None}]
    /\ dock_states \in [Dock -> [mission : Mission \cup Client \cup {None, UndockRequest},
                                 state : DockStatus, contact_success : BOOLEAN,
                                 contact_attempts : {0, 1}]]
    /\ dock_by_mission \in [Mission -> Dock \cup {None}]

FacilityInit ==
    /\ Init
    /\ facility_reservations = [f \in Facility |-> Unreserved]
    /\ facility_resource_by_mission = [m \in Mission |-> None]
    /\ dock_states = [d \in Dock |-> NoDockState]
    /\ dock_by_mission = [m \in Mission |-> None]
-----------------------------------------------------------------------------
(* Reservations.                                                           *)

FacilityResourceAvailable(f) == f \notin Exclusive \/ facility_reservations[f] = Unreserved

\* The reservations without those of the holder, for release_existing.
WithoutHolder(holder) ==
    [f \in Facility |-> IF facility_reservations[f].holder = holder THEN Unreserved
                                                                    ELSE facility_reservations[f]]

\* The old reservations of the holder go although the new one is refused.  The
\* request may name any mission, which learns nothing of it.
ReserveFacilityResource(f, holder, mission, release_existing) ==
    LET kept == IF release_existing THEN WithoutHolder(holder) ELSE facility_reservations
    IN  /\ facility_reservations' =
               IF f \in Exclusive /\ kept[f] # Unreserved /\ kept[f].holder # holder
               THEN kept
               ELSE [kept EXCEPT ![f] = Reservation(holder, mission, "reserved", TRUE)]
        /\ UNCHANGED <<vars, facility_resource_by_mission, dock_states, dock_by_mission>>

\* Without a holder anybody's reservation is released; the mission's own note
\* of the resource stays.
ReleaseFacilityResource(f, holder) ==
    /\ holder \in {None, facility_reservations[f].holder}
    /\ facility_reservations' = [facility_reservations EXCEPT ![f] = Unreserved]
    /\ UNCHANGED <<vars, facility_resource_by_mission, dock_states, dock_by_mission>>

\* A lift has one holder even when the catalog does not call it exclusive.
ReserveLiftSessionResource(f, session, holder, kept) ==
    IF kept[f] # Unreserved /\ kept[f].holder # holder
    THEN kept
    ELSE [kept EXCEPT ![f] = Reservation(holder, session, "lift_session", TRUE)]

RequestLiftSession(f, session, holder, release_existing) ==
    /\ f \in Lift
    /\ facility_reservations' =
           ReserveLiftSessionResource(f, session, holder,
               IF release_existing THEN WithoutHolder(holder) ELSE facility_reservations)
    /\ UNCHANGED <<vars, facility_resource_by_mission, dock_states, dock_by_mission>>

ReleaseLiftSession(f, session) ==
    /\ facility_reservations[f] # Unreserved
    /\ session \in {None, facility_reservations[f].mission, facility_reservations[f].holder}
    /\ facility_reservations' = [facility_reservations EXCEPT ![f] = Unreserved]
    /\ UNCHANGED <<vars, facility_resource_by_mission, dock_states, dock_by_mission>>

\* Faulty: the resource is freed whoever holds it by now.
FaultyReleaseResourceForMission(m) ==
    LET f == facility_resource_by_mission[m]
    IN  /\ facility_reservations' = [g \in Facility |->
               IF g = f THEN Unreserved ELSE facility_reservations[g]]
        /\ facility_resource_by_mission' = [facility_resource_by_mission EXCEPT ![m] = None]

ReleaseResourceForMission(m) ==
    LET f == facility_resource_by_mission[m]
    IN  /\ facility_reservations' = [g \in Facility |->
               IF g = f /\ facility_reservations[g].mission = m THEN Unreserved
                                                               ELSE facility_reservations[g]]
        /\ facility_resource_by_mission' = [facility_resource_by_mission EXCEPT ![m] = None]
-----------------------------------------------------------------------------
(* Requests for a resource: the reservation is written and the mission that *)
(* drives there is admitted.                                                *)

ReserveForMission(m, f, status, hold) ==
    /\ facility_reservations' =
           [facility_reservations EXCEPT ![f] = Reservation(m, m, status, hold)]
    /\ facility_resource_by_mission' = [facility_resource_by_mission EXCEPT ![m] = f]

AdmitFacilityMission(m, priority, start_if_idle, preempt_current) ==
    /\ ~MissionIdActiveOrQueued(m)
    /\ AdmitQueuedMissions({Entry(m, priority, next_queue_sequence)}, 1, start_if_idle,
                           preempt_current, TRUE)
    /\ UNCHANGED trafficVars

SelectChargingResource(f) == f \in Charger /\ FacilityResourceAvailable(f)

RequestCharging(m, f, priority, start_if_idle, preempt_current) ==
    /\ m \in ChargingMission
    /\ SelectChargingResource(f)
    /\ AdmitFacilityMission(m, priority, start_if_idle, preempt_current)
    /\ ReserveForMission(m, f, "reserved", TRUE)
    /\ UNCHANGED <<dock_states, dock_by_mission>>

\* The battery is below the opportunity threshold.  A runner that is busy is
\* disturbed only by a critical battery, which preempts.
RequestOpportunityCharging(m, f, priority, start_if_idle, preempt_current, critical) ==
    /\ critical \/ (~mission_active /\ mission_queue = {})
    /\ RequestCharging(m, f, priority, start_if_idle, preempt_current \/ critical)

ExecuteFacilityAction(m, f, priority, start_if_idle, preempt_current, hold_after_action) ==
    /\ m \in ActionMission
    /\ FacilityResourceAvailable(f)
    /\ AdmitFacilityMission(m, priority, start_if_idle, preempt_current)
    /\ ReserveForMission(m, f, "reserved", hold_after_action)
    /\ UNCHANGED <<dock_states, dock_by_mission>>

\* Faulty: the dock is asked, not the charger.
FaultyDockAvailable(d) == dock_states[d].state \in {"AVAILABLE", "UNDOCKED", "CANCELED", "FAILED"}

\* A dock needs its charger to be free, exclusive or not.
DockAvailable(d) == facility_reservations[ChargerOf[d]] = Unreserved

RequestDocking(m, d, contact_success, priority, start_if_idle, preempt_current) ==
    /\ m \in DockingMission
    /\ DockAvailable(d)
    /\ AdmitFacilityMission(m, priority, start_if_idle, preempt_current)
    /\ ReserveForMission(m, ChargerOf[d], "APPROACHING", TRUE)
    /\ dock_states' = [dock_states EXCEPT ![d] = DockState(m, "APPROACHING", contact_success, 0)]
    /\ dock_by_mission' = [dock_by_mission EXCEPT ![m] = d]

\* The mission that holds the dock, by the dock's own state if it has one.
DockHolder(d) ==
    IF dock_states[d] # NoDockState THEN dock_states[d].mission
                                    ELSE facility_reservations[ChargerOf[d]].mission

ReleaseCharger(f, holder) ==
    /\ facility_reservations' = [facility_reservations EXCEPT ![f] =
           IF @.mission = holder THEN Unreserved ELSE @]
    /\ facility_resource_by_mission' = [m \in Mission |->
           IF m = holder /\ facility_resource_by_mission[m] = f
           THEN None ELSE facility_resource_by_mission[m]]

\* An undocking never touches the mission that may still approach the dock.
RequestUndocking(d, named, release_charger) ==
    LET holder == DockHolder(d)
    IN  /\ dock_states' = [dock_states EXCEPT ![d] =
               DockState(IF named \/ holder = None THEN UndockRequest ELSE holder,
                         "UNDOCKED", TRUE, 0)]
        /\ IF release_charger THEN ReleaseCharger(ChargerOf[d], holder)
           ELSE UNCHANGED <<facility_reservations, facility_resource_by_mission>>
        /\ UNCHANGED <<vars, dock_by_mission>>
-----------------------------------------------------------------------------
(* Ends of missions.                                                       *)

\* Faulty: the resource of a queued mission stays reserved.
FaultyCancelFacilityMission(m, cancel_active) ==
    /\ CancelQueuedMission(m, cancel_active)
    /\ UNCHANGED facilityVars

\* The facilities of the canceled missions go with their routes, the active
\* mission's too; its dock changes when it ends.
CancelFacilityWorkflow(o, cancel_active) ==
    LET canceled == QueuedWorkflowMissions(o)
                        \cup (IF cancel_active THEN ActiveWorkflowMission(o) ELSE {})
    IN  /\ CancelWorkflow(o, cancel_active)
        /\ facility_reservations' = [f \in Facility |->
               IF \E m \in canceled : facility_resource_by_mission[m] = f
                                          /\ facility_reservations[f].mission = m
               THEN Unreserved ELSE facility_reservations[f]]
        /\ facility_resource_by_mission' = [m \in Mission |->
               IF m \in canceled THEN None ELSE facility_resource_by_mission[m]]
        /\ UNCHANGED <<dock_states, dock_by_mission>>

\* The dock of a queued docking mission goes on showing APPROACHING.
CancelFacilityMission(m, cancel_active) ==
    /\ CancelQueuedMission(m, cancel_active)
    /\ IF m \in QueuedIds THEN ReleaseResourceForMission(m)
       ELSE UNCHANGED <<facility_reservations, facility_resource_by_mission>>
    /\ UNCHANGED <<dock_states, dock_by_mission>>

ApproachedDock == IF profile = None THEN None ELSE dock_by_mission[profile]

CompletedDockOrDocking == CompletedDock \/ ApproachedDock # None

MarkDockingMissionTerminal(m, state) ==
    /\ dock_states' = [d \in Dock |->
           IF d = dock_by_mission[m] THEN DockState(m, state, TRUE, 0) ELSE dock_states[d]]
    /\ dock_by_mission' = [dock_by_mission EXCEPT ![m] = None]

EndWithoutSuccess(state) ==
    IF profile = None THEN UNCHANGED facilityVars
    ELSE MarkDockingMissionTerminal(profile, state) /\ ReleaseResourceForMission(profile)

\* Without a release_for_mission before it, MarkResourceOccupiedForMission finds
\* the resource by the mission's note alone, whoever holds it by now; a docking
\* mission then shows CHARGING there.
MarkResourceOccupiedForMission(m, status) ==
    LET f == facility_resource_by_mission[m]
        hold == facility_reservations[f].hold
    IN  IF f = None \/ facility_reservations[f] = Unreserved
        THEN UNCHANGED <<facility_reservations, facility_resource_by_mission>>
        ELSE /\ facility_reservations' = [facility_reservations EXCEPT ![f] =
                    IF hold THEN [@ EXCEPT !.status = status] ELSE Unreserved]
             /\ facility_resource_by_mission' = [facility_resource_by_mission EXCEPT ![m] =
                    IF hold THEN f ELSE None]

ContactFails(d) == ~dock_states[d].contact_success /\ dock_states[d].contact_attempts = 0

\* StageDockingContactRetry
HandleDockingContactFailure(m, d) ==
    LET f == facility_resource_by_mission[m]
    IN  /\ dock_states' = [dock_states EXCEPT
               ![d] = DockState(@.mission, "FAILED", TRUE, @.contact_attempts + 1)]
        /\ facility_reservations' = [g \in Facility |->
               IF g = f /\ facility_reservations[g] # Unreserved
               THEN [facility_reservations[g] EXCEPT !.status = "DOCKING_CONTACT_FAILED"]
               ELSE facility_reservations[g]]
        /\ UNCHANGED <<facility_resource_by_mission, dock_by_mission>>

\* The post actions of a result are left out after a contact failure, so the
\* queue keeps its flags when the dock return is queued already.
ContactFailureRecovery ==
    \/ RecoverByRetry(FALSE)
    \/ RecoverByStopping(FALSE)
    \/ DockMission \notin QueuedIds /\ RecoverByDock(FALSE)
    \/ /\ RecoveryAction(FALSE) = "dock" /\ DockMission \in QueuedIds
       /\ MissionEnds
       /\ current_state' = "RECOVERING"
       /\ UNCHANGED <<queueVars, profileVars, cancellation_requested, recoveryVars>>

\* The action server reports success, the charging contact is missing.
DockingContactFailed(m, d) ==
    /\ profile = m /\ dock_by_mission[m] = d /\ ContactFails(d)
    /\ ~cancellation_requested
    /\ HandleDockingContactFailure(m, d)
    /\ ContactFailureRecovery
    /\ UNCHANGED <<paused_workflow_orders, low_battery_dock_request_sent, trafficVars>>

\* Faulty: the charger is released with the resources of the mission.
FaultyDockingSucceeded(m, d) ==
    /\ profile = m /\ dock_by_mission[m] = d /\ ~ContactFails(d)
    /\ ResultSucceeded(TRUE)
    /\ ReleaseResourceForMission(m)
    /\ dock_states' = [dock_states EXCEPT ![d] = DockState(m, "CHARGING", TRUE, 0)]
    /\ UNCHANGED dock_by_mission

DockingSucceeded(m, d) ==
    /\ profile = m /\ dock_by_mission[m] = d /\ ~ContactFails(d)
    /\ ResultSucceeded(TRUE)
    /\ MarkResourceOccupiedForMission(m, "CHARGING")
    /\ dock_states' = [dock_states EXCEPT ![d] = DockState(m, "CHARGING", TRUE, 0)]
    /\ UNCHANGED dock_by_mission

\* Any other mission that succeeds has released its resource when it would be
\* marked as occupied.
OtherMissionSucceeded ==
    /\ ApproachedDock = None
    /\ ResultSucceeded(CompletedDock)
    /\ IF profile = None \/ CompletedDock
       THEN UNCHANGED <<facility_reservations, facility_resource_by_mission>>
       ELSE ReleaseResourceForMission(profile)
    /\ UNCHANGED <<dock_states, dock_by_mission>>

MissionCanceled(canceled_code) == ResultCanceled(canceled_code) /\ EndWithoutSuccess("CANCELED")

MissionFailed == ResultFailed(CompletedDockOrDocking) /\ EndWithoutSuccess("FAILED")
-----------------------------------------------------------------------------
FacilityService ==
    \/ \E f \in Facility, holder \in Client : \E release_existing \in BOOLEAN :
          \/ \E mission \in Client \cup {None} :
                ReserveFacilityResource(f, holder, mission, release_existing)
          \/ \E session \in Client : RequestLiftSession(f, session, holder, release_existing)
    \/ \E f \in Facility, holder \in Client \cup {None} :
          ReleaseFacilityResource(f, holder) \/ ReleaseLiftSession(f, holder)

DockingService ==
    \/ \E d \in Dock : \E m \in DockingMission, p \in Priority :
          \E contact_success, start, preempt \in BOOLEAN :
              RequestDocking(m, d, contact_success, p, start, preempt)
    \/ \E d \in Dock : \E named, release \in BOOLEAN : RequestUndocking(d, named, release)

ChargingService ==
    \E m \in Mission, f \in Facility, p \in Priority : \E start, preempt \in BOOLEAN :
        \/ RequestCharging(m, f, p, start, preempt)
        \/ \E critical \in BOOLEAN :
              RequestOpportunityCharging(m, f, p, start, preempt, critical)
        \/ \E hold \in BOOLEAN : ExecuteFacilityAction(m, f, p, start, preempt, hold)

FacilityResult ==
    \/ \E m \in DockingMission, d \in Dock : DockingSucceeded(m, d) \/ DockingContactFailed(m, d)
    \/ OtherMissionSucceeded
    \/ MissionFailed
    \/ \E code \in BOOLEAN : MissionCanceled(code)

\* The steps of the runner that leave docks and facilities alone: those that
\* bring a mission to its end,
RunnerStep ==
    /\ \/ LoadProfile \/ StartMission \/ CancelMission \/ Tick
       \/ GoalResponse
       \/ ReturnToDock
    /\ UNCHANGED facilityVars

\* and the other services.
RunnerService ==
    /\ \/ PauseMission \/ ResumeMission \/ \E p \in BOOLEAN : Feedback(p)
       \/ \E m \in Mission, p \in Priority :
             \/ PreemptMission(m, p)
             \/ \E start \in BOOLEAN : EnqueueMission(m, p, start)
             \/ \E start, preempt \in BOOLEAN : SubmitStationTransportOrder(m, p, start, preempt)
       \/ \E o \in Order :
             \/ \E p \in Priority : \E start, preempt \in BOOLEAN :
                   SubmitStationSequenceTask(o, p, start, preempt)
             \/ \E active \in BOOLEAN : PauseWorkflow(o, active) \/ ResumeWorkflow(o, active)
       \/ TrafficService \/ PriorityService
       \/ HandleBatteryOk \/ HandleLowBattery \/ ResetMissionRecoveryState
    /\ UNCHANGED facilityVars

Cancellation ==
    \E cancel_active \in BOOLEAN :
        \/ \E m \in Mission : CancelFacilityMission(m, cancel_active)
        \/ \E o \in Order : CancelFacilityWorkflow(o, cancel_active)

FacilityNext ==
    \/ RunnerStep \/ RunnerService
    \/ FacilityService \/ DockingService \/ ChargingService
    \/ Cancellation \/ FacilityResult

FacilitySpec == FacilityInit /\ [][FacilityNext]_facilityRunnerVars
-----------------------------------------------------------------------------
\* A resource that is reserved in the name of a docking mission is held also
\* after it has ended.
ReservationsInv ==
    \A f \in Facility :
        facility_reservations[f].mission \in DockingMission => facility_reservations[f].hold

\* Only facility missions come for a resource, and a docking mission that
\* approaches a dock came for the charger of that dock, unless its note was
\* removed by an undocking, before a retry or with its workflow.
NotesInv ==
    /\ \A m \in Mission \ FacilityMission : facility_resource_by_mission[m] = None
    /\ \A m \in DockingMission :
          dock_by_mission[m] # None =>
              facility_resource_by_mission[m] \in {ChargerOf[dock_by_mission[m]], None}

\* The inductive invariant, besides RunnerInv.
FacilityInv == FacilityTypeOK /\ ReservationsInv /\ NotesInv

\* Nobody takes over an exclusive resource: between two holders it is free.
NothingIsTakenOver ==
    [][\A f \in Exclusive :
          /\ facility_reservations[f] # Unreserved
          /\ facility_reservations'[f] # Unreserved
          => facility_reservations'[f].holder = facility_reservations[f].holder]_facilityRunnerVars

\* Resources reserved for a mission that will not give them back: it is neither
\* queued nor active, or came again for another resource.
LeftBehind ==
    {f \in Facility : \E m \in Mission :
        /\ facility_reservations[f].mission = m
        /\ m \notin Live \/ facility_resource_by_mission[m] # f}

\* A resource outlives the mission it was reserved for only under a robot that
\* has docked there, in a step that shows ERROR, or when the contact failed and
\* the failure is not retried; or a client has just reserved it in the name of a
\* mission that has not come for it.
ResourcesAreLeftOnlyUnderDockedRobot ==
    [][\A f \in LeftBehind' \ LeftBehind :
          \/ current_state' = "ERROR"
          \/ FacilityService /\ facility_reservations'[f] # facility_reservations[f]
          \/ facility_reservations'[f].status \in {"CHARGING", "DOCKING_CONTACT_FAILED"}
                /\ \E m \in ActiveMission : facility_resource_by_mission[m] = f]_facilityRunnerVars

\* A mission that is under way keeps its exclusive resource (one that is not
\* exclusive goes to the mission that asks for it last).  Only a client, an
\* undocking, the release before a retry, the cancellation of its workflow, or the
\* end of a docking mission that still has a note of the resource takes it away.
LiveMissionKeepsItsFacility ==
    [][\A f \in Exclusive, m \in FacilityMission :
          /\ facility_reservations[f].mission = m /\ facility_reservations'[f].mission # m
          /\ m \in Live /\ m \in Live'
          => \/ FacilityService
             \/ \E d \in Dock : \E named \in BOOLEAN : RequestUndocking(d, named, TRUE)
             \/ /\ m \in ActiveMission
                /\ \/ current_state' = "RECOVERING"
                   \/ \E o \in Order : CancelFacilityWorkflow(o, TRUE)
             \/ \E n \in ActiveMission \ {m} :
                   facility_resource_by_mission[n] = f]_facilityRunnerVars

\* A robot that arrives at a dock, still has a note of the resource it came for,
\* and has the charger in its name, is shown charging there by dock and charger
\* alike, and the charger stays taken.  Without the note (an undocking or a retry
\* removes it) a charger that a client has reserved in its name shows nothing.
DockedRobotHoldsItsCharger ==
    [][\A m \in DockingMission, d \in Dock :
          /\ dock_states'[d].state = "CHARGING" /\ dock_states'[d].mission = m
          /\ dock_states[d].state # "CHARGING"
          /\ facility_resource_by_mission[m] # None
          /\ facility_reservations[ChargerOf[d]].mission = m
          => /\ facility_reservations'[ChargerOf[d]].mission = m
             /\ facility_reservations'[ChargerOf[d]].status = "CHARGING"]_facilityRunnerVars

\* StallIsShown with docks: a running queue stalls unseen only where a docking
\* contact fails while the dock return is queued already.  The code then leaves
\* the post actions of the result out, and no start is requested.
StallIsShownButForLostContact ==
    [][AutoStartQueue /\ Stalled'
          => \/ Stalled \/ current_state' \in {"ERROR", "WORKFLOW_PAUSED"}
             \/ /\ DockMission \in QueuedIds
                /\ \E m \in DockingMission, d \in Dock : DockingContactFailed(m, d)]_facilityRunnerVars

=============================================================================
