------------------------------ MODULE OrderDesk ------------------------------
(***************************************************************************)
(* Orders that become several missions in one service call: batches of     *)
(* station orders, scenario workflows, business orders, and fleet tasks,   *)
(* which may go to another robot.  The items are admitted one after the    *)
(* other, each against what the earlier ones have taken, and what was      *)
(* admitted stays when a later item is refused (mission_runner_node.cpp,   *)
(* mission_queue.cpp, scenario_catalog.cpp, fleet_runtime_state.cpp).      *)
(***************************************************************************)
EXTENDS StationDesk, Functions

CONSTANTS
    Batch, BatchOrders,      \* batches and their station orders, in turn
    Steps,                   \* workflow order -> the tasks of its steps, in turn
    BusinessOrder,           \* workflow orders of the form business_<id>
    WorkflowPriority,        \* default priority of a workflow
    VdaOrder,                \* station orders of the form vda5050_<id>
    Robot, LocalRobot,       \* catalog positions of the robots, and robot_id_
    FleetCatalog,            \* robot -> its state in the fleet catalog
    FleetReport,             \* what the fleet may report of a robot
    FleetTask,               \* fleet task ids
    RemoteTaskState,         \* states another robot may report of a task
    Approach                 \* station -> station -> distance, None without a route

\* A task is [kind, missions, facility, hold, task, capable, priority]: the
\* missions it queues, the facility it reserves and whether it keeps it, the fleet
\* task it is, the robots that can do it and its own default priority.
Task == UNION {Range(Steps[o]) : o \in DOMAIN Steps}

\* A task whose arguments are refused is not in the catalog.
TaskAssumption(t) ==
    /\ t.priority \in Int
    /\ \/ /\ t.kind = "facility_action"
          /\ \E m \in ActionMission : t.missions = <<m>>
          /\ t.facility \in Facility /\ t.hold \in BOOLEAN
       \/ /\ t.kind = "station_sequence"
          /\ t.missions \in Seq(Mission \ (FileMission \cup StationOrder \cup FacilityMission)) \ {<<>>}
          /\ IsInjective(t.missions)
       \/ /\ t.kind = "station_transport"
          /\ \E m \in StationOrder : t.missions = <<m>>
          /\ t.task \in FleetTask /\ t.capable \subseteq Robot

ASSUME OrderDeskAssumption ==
    /\ BatchOrders \in [Batch -> Seq(StationOrder)]
    /\ DOMAIN Steps \subseteq Order /\ BusinessOrder \subseteq DOMAIN Steps
    /\ \A o \in DOMAIN Steps : Steps[o] \in Seq(Task)
    /\ \A t \in Task : TaskAssumption(t)
    /\ WorkflowPriority \in Nat
    /\ VdaOrder \subseteq StationOrder
    /\ Robot \subseteq Nat /\ LocalRobot \in Robot /\ None \notin Robot
    /\ \A t \in FleetTask : t # None

VARIABLES
    fleet,         \* the catalog's robots with what was reported at runtime
    remote_tasks   \* fleet task -> [robot, state], NotDispatched without an entry

fleetVars == <<fleet, remote_tasks>>
orderDeskVars == <<facilityRunnerVars, stationVars, fleetVars>>

NotDispatched == [robot |-> None, state |-> "none"]

OrderTypeOK ==
    /\ StationTypeOK
    /\ DOMAIN fleet = Robot
    /\ remote_tasks \in [FleetTask -> [robot : Robot \cup {None},
                                       state : RemoteTaskState \cup {"none", "DISPATCHED_REMOTE"}]]

OrderInit ==
    /\ FacilityInit /\ StationInit
    /\ fleet = FleetCatalog
    /\ remote_tasks = [t \in FleetTask |-> NotDispatched]
-----------------------------------------------------------------------------
(* The fleet.                                                              *)

\* What was reported last stands in for the catalog's entry.
Reported(r, report) == [fleet EXCEPT ![r] = report]

UpdateFleetRobotState(r, report) ==
    /\ fleet' = Reported(r, report)
    /\ UNCHANGED <<facilityRunnerVars, stationVars, remote_tasks>>

\* A report of an unknown task is refused; that it comes from the task's robot
\* is not asked.
RemoteTaskUpdates(t) == remote_tasks[t] # NotDispatched

UpdateRemoteTaskState(t, state) ==
    /\ RemoteTaskUpdates(t)
    /\ remote_tasks' = [remote_tasks EXCEPT ![t].state = state]
    /\ UNCHANGED <<facilityRunnerVars, stationVars, fleet>>

Distance(r, pickup) == Approach[fleet[r].station][pickup]

Fuller(r, q) ==
    \/ fleet[r].battery > fleet[q].battery
    \/ fleet[r].battery = fleet[q].battery /\ r < q

Nearer(r, q, pickup) ==
    \/ Distance(r, pickup) < Distance(q, pickup)
    \/ Distance(r, pickup) = Distance(q, pickup) /\ Fuller(r, q)

\* The nearest robot that is free and able, or, when none has a known distance,
\* the one with the fullest battery; None without a candidate.
SelectFleetRobot(capable, pickup) ==
    LET candidates == {r \in capable : fleet[r].available}
        located    == {r \in candidates : Distance(r, pickup) # None}
    IN  CASE candidates = {} -> None
          [] located # {} ->
                 CHOOSE r \in located : \A q \in located \ {r} : Nearer(r, q, pickup)
          [] OTHER -> CHOOSE r \in candidates : \A q \in candidates \ {r} : Fuller(r, q)
-----------------------------------------------------------------------------
(* Admission of several items in one call.  A request is a record of what   *)
(* it will take when it is admitted.                                       *)

Request(missions, priority, locks, facility, hold, task, robot) ==
    [missions |-> missions, priority |-> priority, locks |-> locks, facility |-> facility,
     hold |-> hold, task |-> task, robot |-> robot]

StationRequest(m, priority) ==
    Request(<<m>>, priority, BuildRouteLockIds(PathOf[m]), None, FALSE, None, None)

\* SubmitFleetStationTask: the local robot gets a station order, another robot
\* an entry in remote_tasks_.
FleetRequest(task, priority) ==
    LET robot == SelectFleetRobot(task.capable, PathOf[task.missions[1]][1])
    IN  CASE robot = None -> None
          [] robot = LocalRobot -> StationRequest(task.missions[1], priority)
          [] OTHER -> Request(<<>>, priority, {}, None, FALSE, task.task, robot)

\* SubmitScenarioTask; a priority that is not positive is replaced by the
\* task's own.
TaskRequest(task, priority) ==
    LET p == IF priority > 0 THEN priority ELSE task.priority
    IN  CASE task.kind = "facility_action" ->
               Request(task.missions, p, {}, task.facility, task.hold, None, None)
          [] task.kind = "station_sequence" ->
               Request(task.missions, p, {}, None, FALSE, None, None)
          [] task.kind = "station_transport" -> FleetRequest(task, p)

\* Faulty: a task that another robot has already is dispatched again.
FaultyUndispatched(r) == TRUE

Undispatched(r) == r.task # None => remote_tasks[r.task] = NotDispatched

NotKnown(r) == \A i \in DOMAIN r.missions : ~MissionIdActiveOrQueued(r.missions[i])

\* Nothing that the item needs was taken before the call.
FreeBefore(r) ==
    /\ NotKnown(r)
    /\ \A l \in r.locks : route_locks[l] \in {Free, r.missions[1]}
    /\ r.facility # None => FacilityResourceAvailable(r.facility)
    /\ Undispatched(r)

\* Nor was it taken by an earlier item of the call.
Admissible(r, earlier) ==
    /\ FreeBefore(r)
    /\ \A e \in earlier :
          /\ Range(r.missions) \cap Range(e.missions) = {}
          /\ r.locks \cap e.locks = {}
          /\ r.facility \in Exclusive => e.facility # r.facility
          /\ r.task # None => e.task # r.task

\* The items are asked for in turn; unless errors are to be passed over, the
\* first refusal ends the call and keeps what was admitted before it.  taken are
\* the places of the admitted items.
AdmittedInTurn(requests, taken, continue_on_error) ==
    \A i \in DOMAIN requests :
        i \in taken <=>
            /\ continue_on_error \/ 1..(i - 1) \subseteq taken
            /\ requests[i] # None
            /\ Admissible(requests[i], {requests[j] : j \in {k \in taken : k < i}})

\* Routes and fleet tasks have one taker among the admitted items; a facility
\* that is not exclusive may have several, and shows the last.
ReserveAll(requests, taken) ==
    LET items == {requests[i] : i \in taken}
        Visits(f) == {i \in taken : requests[i].facility = f}
        Visitor(f) == requests[CHOOSE i \in Visits(f) : \A j \in Visits(f) : j <= i]
        Own(m) == {r \in items : r.missions = <<m>>}
    IN  /\ route_locks' = [l \in Resource |->
               IF \E r \in items : l \in r.locks
               THEN (CHOOSE r \in items : l \in r.locks).missions[1] ELSE route_locks[l]]
        /\ route_locks_by_mission' = [m \in Mission |->
               IF \E r \in Own(m) : r.locks # {}
               THEN UNION {r.locks : r \in Own(m)} ELSE route_locks_by_mission[m]]
        /\ facility_reservations' = [f \in Facility |->
               IF Visits(f) = {} THEN facility_reservations[f]
               ELSE Reservation(Visitor(f).missions[1], Visitor(f).missions[1], "reserved",
                                Visitor(f).hold)]
        /\ facility_resource_by_mission' = [m \in Mission |->
               IF \E r \in Own(m) : r.facility # None
               THEN (CHOOSE r \in Own(m) : TRUE).facility ELSE facility_resource_by_mission[m]]
        /\ remote_tasks' = [t \in FleetTask |->
               IF \E r \in items : r.task = t
               THEN [robot |-> (CHOOSE r \in items : r.task = t).robot,
                     state |-> "DISPATCHED_REMOTE"]
               ELSE remote_tasks[t]]

\* The missions of the admitted items: the k-th mission of the i-th item.
Places(requests, taken) == UNION {{<<i, k>> : k \in DOMAIN requests[i].missions} : i \in taken}

Precedes(p, q) == p[1] < q[1] \/ (p[1] = q[1] /\ p[2] < q[2])

\* The missions are numbered in the order in which they were asked for.
QueueAll(requests, taken, start_if_idle, preempt_current) ==
    LET places == Places(requests, taken)
    IN  IF places = {}
        THEN UNCHANGED <<queueVars, paused_workflow_orders, profileVars, goalVars, controlVars,
                         recoveryVars, low_battery_dock_request_sent, current_state>>
        ELSE \E n \in 1..MaxSequence : \E number \in Bijection(places, 1..n) :
                /\ \A p, q \in places : Precedes(p, q) => number[p] < number[q]
                /\ AdmitQueuedMissions(
                       {Entry(requests[p[1]].missions[p[2]], requests[p[1]].priority,
                              next_queue_sequence + number[p] - 1) : p \in places},
                       n, start_if_idle, preempt_current, TRUE)

\* Only the first item carries the wish to start or to preempt: when it is
\* refused or goes to another robot, the others are queued but not started.
SubmitInTurn(requests, continue_on_error) ==
    \E taken \in (SUBSET DOMAIN requests) \ {{}} :
        LET first == 1 \in taken /\ requests[1].missions # <<>>
        IN  /\ AdmittedInTurn(requests, taken, continue_on_error)
            /\ ReserveAll(requests, taken)
            /\ \E start_if_idle, preempt_current \in BOOLEAN :
                  QueueAll(requests, taken, start_if_idle /\ first, preempt_current /\ first)
            /\ UNCHANGED <<dock_states, dock_by_mission, stationVars, fleet>>
-----------------------------------------------------------------------------
(* The services.                                                           *)

SubmitStationOrderBatch(b, priority, continue_on_error) ==
    SubmitInTurn([i \in DOMAIN BatchOrders[b] |-> StationRequest(BatchOrders[b][i], priority - i + 1)],
                 continue_on_error)

SubmitScenarioTask(task, priority) ==
    SubmitInTurn(<<TaskRequest(task, priority)>>, FALSE)

SubmitFleetStationTask(task, priority) ==
    /\ task.kind = "station_transport"
    /\ SubmitInTurn(<<FleetRequest(task, priority)>>, FALSE)

SubmitScenarioWorkflow(o, priority) ==
    LET p == IF priority > 0 THEN priority ELSE WorkflowPriority
    IN  SubmitInTurn([i \in DOMAIN Steps[o] |-> TaskRequest(Steps[o][i], p - i + 1)], FALSE)

SubmitBusinessOrder(o, priority) ==
    o \in BusinessOrder /\ SubmitScenarioWorkflow(o, priority)

SubmitVda5050Order(m, priority) ==
    /\ m \in VdaOrder
    /\ SubmitInTurn(<<StationRequest(m, priority)>>, FALSE)

BatchMissions(b) == Range(BatchOrders[b])

QueueWithoutBatch(b) == {e \in mission_queue : e.id \notin BatchMissions(b)}

\* Faulty: the canceled orders keep their routes.
FaultyReleasedByBatch(b) == {}

\* The queued orders of the batch lose their routes at once, the active one when
\* it ends.
ReleasedByBatch(b) == BatchMissions(b) \cap QueuedIds

CancelStationOrderBatch(b, cancel_active) ==
    LET active == IF cancel_active THEN BatchMissions(b) \cap ActiveMission ELSE {}
    IN  /\ (BatchMissions(b) \cap QueuedIds) \cup active # {}
        /\ mission_queue' = QueueWithoutBatch(b)
        /\ ReleaseRouteLocksForMissions(ReleasedByBatch(b))
        /\ \/ active # {} /\ RequestActiveMissionCancel
           \/ active = {} /\ SetStateIfIdle("QUEUED") /\ UNCHANGED controlVars
        /\ UNCHANGED <<next_queue_sequence, queue_running, queue_start_requested,
                       paused_workflow_orders, profileVars, goalVars, recoveryVars,
                       low_battery_dock_request_sent, facilityVars, stationVars, fleetVars>>

Reprioritized(priorities) ==
    {IF e.id \in DOMAIN priorities THEN [e EXCEPT !.priority = priorities[e.id]] ELSE e :
        e \in mission_queue}

ReprioritizeBatch(priorities) ==
    /\ mission_queue' = Reprioritized(priorities)
    /\ IF DOMAIN priorities \cap QueuedIds # {} THEN SetStateIfIdle("QUEUED")
                                               ELSE UNCHANGED current_state
    /\ UNCHANGED <<next_queue_sequence, queue_running, queue_start_requested,
                   paused_workflow_orders, profileVars, goalVars, controlVars, recoveryVars,
                   low_battery_dock_request_sent, trafficVars, facilityVars, stationVars,
                   fleetVars>>

\* What another robot was asked to do is not called back.
CancelOrder(o, cancel_active) ==
    /\ CancelFacilityWorkflow(o, cancel_active)
    /\ UNCHANGED <<stationVars, fleetVars>>
-----------------------------------------------------------------------------
OrderKind == {"station batch", "workflow", "business order", "scenario task", "fleet task",
              "vda5050"}

\* The branch that is taken for an order of this kind.  Waves, replenishments and
\* milk runs are those of StationDesk; transport orders, station orders and
\* station sequences those of MissionRunner.
Branch(kind, priority) ==
    \/ /\ kind = "station batch"
       /\ \E b \in Batch, continue_on_error \in BOOLEAN :
              SubmitStationOrderBatch(b, priority, continue_on_error)
    \/ kind = "workflow" /\ \E o \in DOMAIN Steps : SubmitScenarioWorkflow(o, priority)
    \/ kind = "business order" /\ \E o \in BusinessOrder : SubmitBusinessOrder(o, priority)
    \/ kind = "scenario task" /\ \E o \in DOMAIN Steps : \E i \in DOMAIN Steps[o] :
           SubmitScenarioTask(Steps[o][i], priority)
    \/ kind = "fleet task" /\ \E o \in DOMAIN Steps : \E i \in DOMAIN Steps[o] :
           SubmitFleetStationTask(Steps[o][i], priority)
    \/ kind = "vda5050" /\ \E m \in VdaOrder : SubmitVda5050Order(m, priority)

\* Every kind of order can also be submitted through one service.
SubmitOrder(priority) == \E kind \in OrderKind : Branch(kind, priority)

OrderControl ==
    \/ \E b \in Batch : \E cancel_active \in BOOLEAN : CancelStationOrderBatch(b, cancel_active)
    \/ \E b \in Batch : \E priorities \in [BatchMissions(b) -> Priority] :
          ReprioritizeBatch(priorities)
    \/ \E o \in DOMAIN Steps : \E active \in BOOLEAN :
          \/ CancelOrder(o, active)
          \/ PauseWorkflow(o, active) /\ UNCHANGED <<facilityVars, stationVars, fleetVars>>
          \/ ResumeWorkflow(o, active) /\ UNCHANGED <<facilityVars, stationVars, fleetVars>>

FleetStep ==
    \/ \E report \in FleetReport : UpdateFleetRobotState(report.robot, report.state)
    \/ \E t \in FleetTask, state \in RemoteTaskState : UpdateRemoteTaskState(t, state)

OrderSystemStep ==
    \/ \E p \in Priority : SubmitOrder(p)
    \/ OrderControl \/ FleetStep

\* What the missions do, whoever ordered them.
MissionStep ==
    /\ \/ RunnerStep \/ FacilityResult
       \/ \E m \in Mission : \E cancel_active \in BOOLEAN : CancelFacilityMission(m, cancel_active)
    /\ UNCHANGED <<stationVars, fleetVars>>

OrderNext ==
    \/ OrderSystemStep
    \/ StationStep /\ UNCHANGED fleetVars
    \/ MissionStep

OrderSpec == OrderInit /\ [][OrderNext]_orderDeskVars
-----------------------------------------------------------------------------
\* Routes and facilities are held for missions that are queued or active.  They
\* are left behind only in a step that shows ERROR: neither an item that was
\* refused in the middle of an order nor an order that was canceled, in part or
\* whole, keeps anything.
OrdersLeaveNothingBehind ==
    [][\/ Orphans' \subseteq Orphans /\ LeftBehind' \subseteq LeftBehind
       \/ current_state' = "ERROR"]_orderDeskVars

\* A fleet task that was given to another robot stays with that robot, whatever
\* robot would be chosen now.
RemoteTaskKeepsItsRobot ==
    [][\A t \in FleetTask :
          remote_tasks[t] # NotDispatched
              => remote_tasks'[t].robot = remote_tasks[t].robot]_orderDeskVars

\* An order reserves the routes of several missions in one step; for each of them
\* the table is still a reservation service.
ImplementsJointReservations == Service!JointSpec
=============================================================================
