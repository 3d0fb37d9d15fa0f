# Verification of the factory patrol AMR software

TLA+ specifications of `ros2-factory-patrol-amr`, a ROS 2 software stack for a
mobile robot that executes patrol, transport and inspection missions in a
warehouse. The specifications are translated from the C++ sources below
`src/src/`; the paths in this document are relative to `src/` of this project.

The wheels are driven by Nav2. The program's own core is the bookkeeping around
it: which mission runs next, what it has reserved, what happens to it when an
operator, a timeout, an obstacle or a lost pose interferes, what the action
server does meanwhile in other threads, and the chain of nodes that may stop the
robot whatever the missions want. That is what is modelled.

## 1. The system

| Part | Source | State | Operations | Talks to |
|---|---|---|---|---|
| Mission runner | `robot_tasks/src/mission_runner_node.cpp` | mission queue, loaded profile, active goal, pause and cancel flags, retry count, paused workflows, displayed state | about 60 services, action client callbacks, a 200 ms timer, topic handlers | server (action and services), all planners below |
| Route reservations | `robot_tasks/src/traffic_reservation.cpp` | `route_locks_`, `route_locks_by_mission_` | reserve, release, block, unblock, clear, deadlock report | called by the runner |
| Mission queue | `mission_queue.cpp`, `*_behavior_tree.cpp` | (the runner's queue) | sort, next runnable, remove, reprioritize, start policy, batches | called by the runner |
| Results and recovery | `mission_result_workflow.cpp`, `mission_recovery_*.cpp`, `mission_runtime_workflow.cpp` | (the runner's flags) | plan for a canceled, succeeded or failed result | called by the runner |
| Workflow control | `workflow_control.cpp`, `station_sequence_workflow.cpp` | `paused_workflow_orders_` | cancel, pause, resume all missions of an order | called by the runner |
| Docking, facilities, charging | `docking_workflow.cpp`, `facility_*.cpp`, `mission_charging_workflow.cpp` | reservations, dock states, lift sessions | request, contact, retry, undock, reserve, release | called by the runner |
| Localization and safety pauses | `mission_localization_workflow.cpp`, `mission_safety_workflow.cpp` | who paused the mission | lost, recovered, blocked, cleared | called by the runner |
| Confirmations, fulfillment | `station_confirmation_workflow.cpp`, `fulfillment_workflow.cpp` | state per question and per order | request, answer, time out, pick, drop off | called by the runner |
| Fleet and orders | `fleet_runtime_state.cpp`, `submit_order_router.cpp`, `scenario_catalog.cpp` | robots, remote tasks | batches, workflows, choice of a robot | called by the runner |
| Navigate sequence server | `navigate_sequence_server_node.cpp` | atomics `active_`, `paused_`, `cancelled_`; one detached thread per goal | goal, cancel, pause, resume callbacks; waypoint loop | Nav2, two clients |
| Visual inspection | `visual_inspection_task_node.cpp`, `visual_inspection_mission.cpp` | one inspection, stamps of events taken | event, retry, result | second client of the server; perception |
| Perception | `robot_perception/src/` | targets, safety level, targets asked for | confirm, lose, stop, release | safety gate, inspection |
| Localization health | `robot_navigation/src/localization_health*.cpp` | state, issue timers | evaluate, relocalize | runner, safety gate |
| Safety gate | `robot_teleop/src/cmd_vel_safety_gate_node.cpp`, `include/robot_teleop/*.hpp` | last input per source, stop latch | resolve, limit, stop | chassis |
| Fault supervision | `robot_utils/src/` | health of the robot, requested stop | sum up, stop, clear | safety gate |
| Chassis driver | `robot_hardware/src/` | packet parser, watchdogs, fault code | command, read, report | hardware, gate |
| Velocity multiplexer, teleoperation | `robot_teleop/src/cmd_vel_mux_node.cpp`, ... | last command per source | select, resolve the safety causes | in simulation, takes the gate's place |
| Maps and zones, gateways, simulation, sensors, tracking, experiments | `robot_navigation/src/map_*`, `scripts/*.py`, `robot_simulation/`, ... | files, numeric and demonstration state | | |

What makes these parts hard, and what correct means:

* **Mission runner.** It spins on one thread, so handlers are atomic; the
  difficulty is the number of handlers that touch the same dozen variables in any
  order, and a result that arrives after the world has moved on. A mission is
  known once, a canceled mission stays canceled, a running queue goes on or says
  why not, every mission that ends gives back its locks and facilities.
* **Reservations** of routes, docks, chargers, doors and lifts. All or nothing,
  nobody loses a resource to somebody else, nothing stays behind.
* **Orders of several items.** They are admitted item by item, and what was
  admitted stays when a later item is refused.
* **Pauses.** Operator, localization and obstacles share one flag.
* **Navigate sequence server.** Real concurrency: an executor thread and a
  detached thread per goal share atomics that belong to no goal.
* **The safety chain** (perception, localization, supervision, gate, chassis).
  Messages that are late, lost, reordered or repeated; time limits; latches;
  requests that are not repeated. A reason to stop stops the robot, and when all
  reasons are gone the robot is released again.

`PROJECT.json` lists every part with its sources and its status, and the hazards
with the line where each one bites.

## 2. The modules

```
Reservations             what a reservation table promises (abstract)
    ^ implements
RouteLocks               route_locks_ of the runner          RouteLocks_proofs
    ^ EXTENDS, implements
MissionRunner            queue, goal, recovery, workflows    MissionRunner_proofs, MCMissionRunner
    ^ EXTENDS       ^ EXTENDS
ExecutionPauses     FacilityRunner                           ExecutionPauses_proofs, MCExecutionPauses,
                        ^ EXTENDS                            FacilityRunner_proofs, MCFacilityRunner
                    StationDesk   confirmations, fulfillment
                        ^ EXTENDS
                    OrderDesk     batches, workflows, fleet  OrderDesk_proofs (both), MCOrderDesk

NavigateSequenceServer   the action server, its threads      NavigateSequenceServer_proofs
                         and Nav2

TargetManager            tracking of detections
    ^ EXTENDS       ^ EXTENDS
Inspection          PerceptionSafety ----> SafetyGate        the last node before the wheels
                         Supervision ----> SafetyGate        SafetyGate_proofs (all four)
LocalizationHealth <---- SafetyChain ----> SafetyGate
ChassisLink              driver, line and chassis            SafetyChain_proofs (these three)
```

**Reservations** is the abstract service: clients hold sets of resources, ask for
several together, get all or nothing, give back everything, and an operator closes
and opens resources. In `JointSpec` several clients may acquire in one step, each what is free
and nobody else of that step takes: the service as an order of several items uses it.

**RouteLocks** is one table from resource to owner and the runner's second map
from mission to the resources it took. A resource is a string in the code
(`route_edge:a->b`, `route_node:a`) and a record of the same parts here. `Path` is
what `FindRoutePath` may return for the station catalog. Refinement: `held[m]` is what
the table gives to `m`, `closed` what it gives to the traffic block.

**MissionRunner** has the runner's members, without the trailing underscore. The
sorted vector `mission_queue_` is the set of its entries: they have distinct
sequence numbers (proved), so `Before` orders them totally and `NextRunnable` is what
`SortMissionQueue` and `FindNextRunnableMissionIndex` pick together. A profile is the
id of its mission; poses, estimates, reports, events, permissions and preflight are
left out. A request that a check of its arguments refuses changes nothing and has no
action; a service that fails because of the *state* has its guard in the action.
Services are the disjuncts of `MissionService`, `PriorityService`, `WorkflowService`,
`TrafficService` and `DockService`; `GoalResponse`, `Feedback` and `GoalResult` are the
action client's callbacks, `Tick` the timer.

**ExecutionPauses** adds the two automatic causes of a pause with their flags: every
AMCL pose, the relocalization services, and the reports of obstacles.

**FacilityRunner** adds the four maps of docks and facilities: reservations, the resource
a mission came for, what a dock shows, and the dock a mission approaches. It replaces the
runner's result by `FacilityResult`, which ends the mission and its reservations in one
step, as the callback does, and the two cancellations by ones that give resources back
too. The runner's other services (`RunnerService`) are as they were, so `FacilitySpec`
is the whole node. A client reserves for any holder and any mission it likes: the service
stores what the request says (`mission_runner_node.cpp:2485`).

**StationDesk** adds the questions to station operators with their timeout policies (a
question under `retry` is one that waits without a limit) and the fulfillment orders with
their counted pieces.

**OrderDesk** adds what queues several missions in one call. `AdmittedInTurn(requests,
taken, ...)` says which items are admitted, in a relation: each one tested against what the
earlier ones in `taken` hold. `ReserveAll` is their joint effect on locks, facilities and
remote tasks, and `QueueAll` numbers their missions in the order asked. A fleet task goes to the
nearest free robot, to `remote_tasks` when that is not this one. Scenario, fleet and station catalogs are constants.

**NavigateSequenceServer** has the executor's callbacks and, for each accepted goal, a
thread with a program counter. A thread step ends where the code reads an atomic again.
Nav2 is external and modelled by what the server can see of it: it may reject,
fail, miss waypoints and go on, and its answers take arbitrarily long. `visited` records
what happened to each waypoint on the floor. Goals have lengths of their own (`NumGoals`),
and `total_goals` is the last one's. A cancel request to Nav2 is sent and not waited for:
until Nav2 handles it, the cancelled FollowWaypoints goal is a `straggler` that drives on and
reports, and its feedback writes `current_goal_index`, whichever sequence is executed by
then; `misled` remembers the sequences to which that happened. `ServerSpec` has one goal at
the server at a time, as the mission runner has. `canceled()` throws when the goal is
not CANCELING and nothing catches it in the thread: that is the end of the process,
`alive = FALSE`.

**TargetManager** is the tracking of detections as operators on sets of targets, shared by
**PerceptionSafety** (policy, events under way, gate) and **Inspection** (the request for an
inspection, the task node that drives there, the completion that comes back). Places are
whole numbers on a line. A target is at its filtered position (`EmaAlpha` is `ema_alpha` in
tenths; the result is rounded down), so it lags behind a person who walks.

**LocalizationHealth** keeps each stored stamp as an age. **SafetyGate** has every
callback and service of the gate and its timer; a twist is its speed, a topic is in
`fresh` while its last message is young enough, in `seen` once it had one. When the clock
goes back, all stamps lie ahead: what was seen is fresh again and the startup grace runs
again (`ClockReset`). **SafetyChain** joins both by `/localization/health`, with takeovers and
speed limits. **Supervision** joins monitor, supervisor and gate; a topic is the
last message published. A service request is counted in `pending` until the gate handles it or
it is lost (`LoseRequest`); stops and clears are two services, so they may overtake each other,
and the supervisor's cooldown ends whatever is pending.

**ChassisLink** has the driver's timer, the command callback, the adapter that applies
packets, and a chassis at the other end of a line that cuts, mixes and loses. A state packet
carries the chassis's emergency stop and its fault code; the stop frame of a command time out
is written once and may fail or get lost.

Every checked module also holds `Faulty...` operators: a definition with a plausible
programming error. They are no part of a specification; each property of a passing run
is violated when one of them takes the place of the definition it varies.

## 3. What is model-checked

| Run | Question | Properties |
|---|---|---|
| `runner_pauses` | the queue with preemption, dock return, retries and reloads while three parties pause the mission | `RunnerInv`, `CanceledIsNotRecovered`, `LostRobotIsHeld` (liveness), `LocalizationPauseIsEnded` |
| `runner_traffic` | two station orders whose routes meet, blocks of operators, one order in a workflow | `TrafficInv`, `IntersectionLocksExcludeDeadlock`, `ImplementsReservations`, `ImplementsTraffic`, `BlockOutlivesMissions`, `LocksAreLeakedOnlyByErrors`, `LiveOrderKeepsItsRoute` |
| `runner_workflow` | a sequence of two legs that is paused, resumed, canceled, recovered | `LegsInOrder`, `PausedMissionsAreNotStarted`, `StallIsShown` |
| `facilities` | docking, charging, undocking and a lift at one dock, with contact failures and a client that reserves in a mission's name | `NothingIsTakenOver`, `ResourcesAreLeftOnlyUnderDockedRobot`, `LiveMissionKeepsItsFacility`, `DockedRobotHoldsItsCharger` |
| `orders` | batches, workflows, fleet tasks; questions and pieces at the stations | `OrdersLeaveNothingBehind`, `RemoteTaskKeepsItsRobot`, `ConfirmationIsDecidedOnce`, `FulfillmentOnlyAdvances`, `StockIsCounted` |
| `server` | one goal in the three ways to navigate, after one that was cancelled at Nav2, with pauses and cancellations | `ServerInv`, `PausedFollowerStandsStill`; liveness `CancelRequestEndsGoal`, `AcceptedGoalEnds` |
| `inspection` | two things before the camera, the inspections they ask for | liveness `InspectionEndsInBothNodes` |
| `safety_chain` | pose, transforms and covariance to the wheels | `RelocalizationEndsRecovered`; liveness `LostPoseStopsRobot`, `GoodSignalsReleaseRobot` |
| `supervision` | chassis, battery, sensors and diagnostics to the wheels, with lost and overtaken requests | `SupervisionInv`; liveness `LastingErrorStopsRobot`, `RecoveryReleasesRobot` |
| `perception` | a person before the camera to the wheels | `PerceptionInv`, `NewestStopIsObeyed` |
| `chassis_link` | commands, faults and reports over a noisy line | `DrivingOnIsReported`, `EstopEndsByStatePacket`; liveness `SilenceIsReported`, `GoodLinkReportsHealthy` |
| `false_clear` | is the sentence of the architecture document true? | `NoFalseClear`: **violated** |

Distinct states, each search complete: `runner_pauses` 660,120, `runner_traffic` 60,476,
`runner_workflow` 352,974, `server` 228,630, `safety_chain` 231,216, `supervision` 374,336,
`chassis_link` 312,380, `perception` 244,428, `inspection` 157,673, `facilities` 600,264, `orders`
233,215.

### Bounds, and why they are enough

* **Missions.** `MaxSequence` bounds how many entries are ever queued. Two are a mission and a
  retry, a preemption or a dock return; `runner_workflow` has 5: two submissions of a
  sequence of two legs and a dock return. Two priorities, one of them the dock's or below the
  recovery's, give every order of two entries. What `RunnerInv` says for any number
  is proved.
* **Routes.** The deadlock report relates two missions at one station: two routes that meet
  in the middle. What the table says for any catalog is proved.
* **Legs.** `runner_workflow` leaves out `reprioritize_queued_mission`
  (`SpecWithoutReprioritize`): with it an operator may put the legs into any order on
  purpose. `runner_pauses` and `runner_traffic` include it.
* **Facilities.** One charger, one dock and one lift, two docking missions, one charging and
  one action mission and a foreign client, who reserves the charger for nobody or for one of the
  docking missions: every resource has a mission that wants it, a second one that competes, and a
  holder that is no mission. The services that leave facilities alone (`RunnerService`) are left out of
  this run, and the action mission is the step of a workflow that may be cancelled; what the
  whole node does, with every client, is proved.
* **Orders.** One kind of client is connected in each behaviour (`client`, chosen in the initial
  state): the station operators, the warehouse, or the order system. Each kind meets every
  step of the missions; the kinds share only the queue, and a batch of two orders that
  compete for one aisle, and a workflow of a fleet task and a door action, already give an
  item that is refused after another was admitted. The local robot is the second choice among
  three, so a report changes who is chosen. Quantities are -1 and 2: a negative number,
  and more than the one piece an order asks for at least.
* **Waypoints.** Three are a first, a middle and a last one: a feedback index can be too small,
  right, or too large. Two goals of three and two waypoints, one after the other; the run begins
  when the first was cancelled at its last waypoint and Nav2 may still execute it
  (`MCServerInit`, states that `ServerSpec` reaches), so its feedback can name a waypoint
  beyond the second goal's list. What holds from the start, for any number and length, is proved.
* **Time** is counted in steps of the shortest limits: each limit is one or two steps, so below, at
  and above it are reached; ages saturate above their limit. `perception` has 5 steps and
  frames and three places, two in the stop zone and one just outside, each within the match distance of
  its neighbour: a person may approach gradually, step over the edge and back, or jump; that is enough
  to confirm, lose, confirm again and release; `inspection` has 6 frames and 2 targets: enough for a target to be processed and to return after its cooldown.
* **Messages.** Up to two safety events under way are reordered; of each kind of service request two are
  under way at most, the second sent before the first is handled; a chassis reports no fault or one
  that is also a code of the driver; one piece of a line under way and a receive buffer of two give an
  overflow, and every packet may be cut.
* **Deadlock check.** It is switched off for the server, which stands still when its goal has
  ended or its process has died, and for the inspection, whose clock is bounded.

### Fairness

* *Server*: weak fairness of each goal's thread (its waits have limits of 50 to 200 ms), of the
  transition to CANCELING that follows the cancel callback, and of Nav2, which is assumed to
  answer and to end a goal, a cancelled one too: the code waits for it without a limit. None of operators:
  `CancelRequestEndsGoal` holds while a pause is never resumed.
* *Pauses*: AMCL goes on publishing poses above the threshold while the localization stays lost.
* *Safety chain, supervision, chassis*: the nodes' timers run, time passes, and a message that is
  published on every tick is received in the end. No fairness of anything that is sent once, except
  that the gate handles requests that are on their way and do not get lost. Any of them may: when the last
  one did, or was overtaken, and nothing is under way any more, the gate is not in the state that was asked
  for (`Astray`), for good, because the supervisor counts the request as done. Both liveness
  properties of the supervision name this as their exception.
* *Inspection*: the sequence server answers every goal (that is `AcceptedGoalEnds` of the server),
  the retry timer runs, and the completion, on a reliable topic, is delivered.

### The disagreement a run shows

`false_clear`: `docs/architecture.md:149` says that missing, invalid or old data makes no false
`CLEAR` event. `HandleDetectorObservation` evaluates the safety of a frame as soon as *one* of its
detections is projected (`geometry_validation_node.cpp:370`). When the person has no depth but
something else has, the frame counts as one without persons, and `clear_observations` of them
take the stop back.

## 4. What is proved

The proofs are checked by TLAPS for every value of the constants that satisfies the named
assumption of each module (`RouteLocksAssumption`, `MissionRunnerAssumption`,
`FacilityRunnerAssumption`, `OrderDeskAssumption`, `GateAssumption`, ...): any catalog, any number
of missions, orders, legs, goals and waypoints, any policy, limit and bound. A theorem that needs
more says so in its `ASSUME`.

| Theorem | Statement |
|---|---|
| **RouteLocks_proofs** | about `TrafficSpec` |
| `TrafficInvariance` | `[]TrafficInv` |
| `DeadlockIsExcluded` | with intersection locks, no two missions at one station |
| `BlocksOutliveMissions` | only unblock and clear end a block |
| `TableImplementsReservations` | the table implements `Reservations` |
| **MissionRunner_proofs** | about `Spec`, the last one about `SpecWithoutReprioritize` |
| `RunnerInvariance` | `[]RunnerInv`; in it `TypeCorrectness`, `MissionsAreUnique`, `SequencesAreUnique` |
| `RunnerImplementsTraffic` | every step of the runner is a step of the table or leaves it alone |
| `RunnerExcludesDeadlock`, `RunnerKeepsBlocks`, `RunnerImplementsReservations` | what the table excludes, keeps and implements, so does the runner |
| `PausedMissionsStay` | no mission of a paused order is started |
| `CanceledMissionsEnd` | after a cancellation neither retry nor dock return |
| `StallsAreShown` | a running queue goes on, or the step that stopped it shows why |
| `LocksAreReleased` | a mission leaves locks behind only with ERROR |
| `LiveOrdersKeepRoutes` | a live order loses its route only in the named ways |
| `LegsKeepOrder` | legs are started in order, if `RetriesComeFirst` |
| **ExecutionPauses_proofs** | about `PauseSpec` |
| `PauseInvariance`, `CanceledMissionsEndWithPauses` | the runner's results with the automatic pauses |
| `LocalizationEndsItsPause` | the end of a localization loss ends the pause it caused |
| `PausesImplementTraffic`, `PausesImplementReservations` | the pauses leave the table alone, so both services are still implemented |
| `PausesKeepPausedMissions`, `PausesShowStalls`, `PausesReleaseLocks`, `PausesKeepRoutes` | the runner's action properties with the automatic pauses |
| **FacilityRunner_proofs** | about `FacilitySpec`, the whole node |
| `FacilityInvariance`, `FacilitiesExcludeDeadlock` | `[](RunnerInv /\ FacilityInv)`, and no two missions at one station |
| `FacilitiesImplementTraffic`, `FacilitiesImplementReservations`, `FacilitiesKeepBlocks` | the runner's refinements with facilities |
| `FacilitiesEndCanceledMissions`, `FacilitiesKeepPausedMissions`, `FacilitiesReleaseLocks`, `FacilitiesKeepRoutes` | the runner's action properties with facilities |
| `FacilitiesShowStalls` | `StallIsShownButForLostContact`: `StallIsShown` with one exception, which the code has |
| `ExclusiveResourcesAreKept` | a resource is free between two holders |
| `DockedRobotsHoldTheirChargers` | a robot that begins to charge, and still has its note of the charger, holds it |
| `LiveMissionsKeepFacilities` | a live mission loses its resource only in the named ways |
| `ResourcesAreGivenBack` | what outlives a mission is under a docked robot, a failed contact, ERROR, or a client's own reservation |
| **OrderDesk_proofs** | about `OrderSpec` |
| `StationInvariance`, `StockIsAlwaysCounted` | pieces picked, delivered and missing add up |
| `ConfirmationsAreDecidedOnce`, `FulfillmentAdvances` | what is decided or picked stays so |
| `RemoteTasksKeepTheirRobots` | a task stays with the robot it was given to |
| `OrderInvariance`, `OrdersExcludeDeadlock` | `[]OrderInv`, and no two missions at one station |
| `OrdersImplementJointReservations` | orders implement `Reservations!JointSpec` |
| `OrdersKeepBlocks`, `OrdersKeepRoutes`, `OrdersReleaseLocks`, `OrdersKeepPausedMissions`, `OrdersEndCanceledMissions`, `OrdersShowStalls` | the runner's action properties with orders of several items |
| `OrdersLeaveNothing` | what ends, or was refused, holds nothing |
| **NavigateSequenceServer_proofs** | about `ServerSpec`: any number of goals of any lengths, one at a time |
| `ServerInvariance` | `[]ServerInv`: a success skipped nothing unless it was misled, `active` is up exactly during an execution |
| `PausedFollowerStands` | a held follower passes no waypoint once its cancellation is handled |
| **SafetyGate_proofs** | about `GateSpec`, `SupervisionSpec`, `PerceptionSpec` |
| `GateTypeCorrectness` | `[]GateTypeOK` |
| `HardStopsArePublished` | a cause of a hard stop stops, whatever ranks it meets, if every stop is switched on |
| `LatchedStopsHold` | the latch means zero until a clear request |
| `SupervisionInvariance`, `OthersStopsArePublished` | a stop that others asked for holds until it is cleared |
| `NewestStopsAreObeyed`, `...ByChain` | the gate obeys the newest stop, in whatever order events come |
| `PersonsHoldTheirStops`, `...InChain` | `[]PerceptionInv`: a close person's stop survives changes of identity |
| **SafetyChain_proofs** | about `ChainSpec` and `ChassisSpec` |
| `RelocalizationsEndRecovered` | RECOVERING is left through RECOVERED only |
| `ChassisInvariance` | types and buffer bounds of the driver |
| `EstopsEndByStatePacket` | only a state packet ends a reported emergency stop |
| `DrivingOnIsNotHidden` | a chassis that drives on after the watchdog's stop is never reported without a fault |

With these, every invariant and every action property of the passing runs is stated by a theorem. (The
runs of the server and of the facilities begin at, or are restricted to, a part of the behaviours the
theorems are about.)

### The arguments

**The table.** `IntersectionLocksExcludeDeadlock` is not inductive: to know that two missions do not
meet at a station one has to know that each owns that station's node lock. `TrafficInv` says so
(`EdgeOwnerHoldsStations`), and that a mission's record lists only what the table gives it
(`ReservationsAreOwned`). Since a table has one owner per resource, deadlock freedom follows
(`OneMissionPerStation`). Clearing a single resource breaks no conjunct because it frees everything of
its owner. The refinement needs `ReservationsAreOwned` to turn the test of the table into the abstract
test of what others hold.

**The runner.** `RunnerInv` joins the types, the uniqueness of ids and of sequence numbers (`QueueInv`)
with what they need: entries have numbers below the counter, an active mission is loaded and is not
queued (`ActiveInv`). The critical steps are those that queue a mission without testing whether it is
known: the retry (the mission was active, hence not queued, and ends in the same step) and the
dock after a success (the queue was empty). `LoadProfile` may change the profile while a
mission is active, but it loads `mission_file`, which the invariant ties to the active mission.
`RunnerImplementsTraffic` shows each handler's effect on the locks to be a reservation, a release of
some set of missions, or nothing; with the theorems of the table and PTL, deadlock freedom,
the life of a block and the abstract service carry over without another look at the queue.

The action properties follow from `RunnerInv` with one step per handler. `LocksAreReleased` needs in addition
`OrdersOwn` (locks belong to station orders or to the block). `LegsInOrder` is not inductive: whether a
leg may overtake depends on entries that are not active yet. `LegsInv` orders all legs of a
sequence in the queue by priority and number, and the proof needs `RetriesComeFirst`: clients ask for
priorities below the recovery's. Otherwise a retried leg queues behind its successor, in the code too;
and `reprioritize_queued_mission` may put legs into any order on purpose, hence
`SpecWithoutReprioritize`.

**Pauses.** The automatic pauses change nothing of the runner but the pause flag and the shown state
(`ControlStep`), so `RunnerInv` stays. `PauseInv` ties the localization's flag to its state.

**Facilities.** `FacilityInv` adds the types of the four maps, what a reservation says of its mission, and
that a docking mission which
approaches a dock came for the charger of that dock, or has lost its note of it (`NotesInv`). It
says nothing of who reserved a resource that is in a mission's name: a client may have. Each handler changes the reservations in
one of a few ways (reserve, release of one, release of all of a mission, a new status), with a lemma for
each. `LiveMissionKeepsItsFacility` speaks of exclusive resources: one that is not exclusive has no owner
to keep, a later request replaces the earlier.

The runner's own promises are not proved a second time. `FacilityAsRunner` says that every step of
`FacilitySpec` is a step of the runner as far as the runner's variables go (the services of `RunnerService`
and the cancellations are such steps: `RunnerServiceCases`, `CancelWorkflowCases`), the admission of a mission
that wants a facility, or the callback of a result. The admission is one of the runner's with other
missions, and each case of the result but one ends as a result of the runner does, so the
runner's lemmas, one per property, do the rest. `ControlIsQuiet` does the same for the pauses.
The remaining case, docking contact lost, is where `StallIsShown` stops holding
(section 5): `FacilitiesShowStalls` states it with that step excepted.

**Orders.** `OrderInv` is `RunnerInv`, `FacilityInv`, `OrdersOwn` and `NoDocking`: orders ask for no docking
(docking requests, like the clients' reservations, are part of `FacilitySpec`; `OrderSpec` has the missions
of the orders with their results and controls), so no dock is approached and no resource is kept under a
robot. The joint reservation of several items keeps `TrafficInv` because the routes of items that
are admitted in turn are disjoint. The
numbering of the new entries is a bijection from their places, which gives unique sequence
numbers. The stations' invariant `StationInv` counts each order's pieces.

`ImplementsReservations` does *not* hold of `OrderSpec`: a batch of two items takes two routes for two
missions in one step, which no step of the service with one client per request does. What holds is
`ImplementsJointReservations`. The argument: a step of an order either is a step of
the runner (`OrderAsRunner`), or stands `Beside` it: it starts and ends no mission, stops no queue, and as to the locks it
takes free ones for the missions it queues, gives back those of missions that left the queue, or
leaves them alone (`SubmitIsBeside`, `BatchIsBeside`). That is enough for each action
property (`BesideLocks`), and for the step of the joint service (`RoutesTakenTogether`).

**The server.** `ServerInv` is inductive with one goal at a time: at most one thread is
between `Begin` and its end (`OneExecution`), so `total_goals` is the length of its list. Each thread has
its own part (`ThreadInv`, `WaypointInv`): a step belongs to one goal, `GoalStep` and `QuietStep` leave the
others alone. The restart index must skip nothing that was not tried (`RestartIndexInv`); that is what
`SuccessSkipsNothing` rests on after a pause. A straggler of the same sequence does no harm, however
late: what it reports it has left behind itself, so the index it writes skips nothing. A straggler of an
earlier sequence reports a waypoint of another list, hence the exception for `misled`.

**The gate.** `HardStopsArePublished` is about priorities: a hard stop wins against whatever ranks above
it, because what ranks above it stops as well. That needs every stop switched on
(`StopSwitches \subseteq Switches`): the code lets a cause whose stop is off win and mask those below it.
`SupervisionInv` ties the stop of others to the latch. The two theorems of the composition with
perception are proved of `OpenSpec`, which adds every input of the gate that the run leaves out (health
reports, sensors, chassis, services, topics that go stale), and then hold of `PerceptionSpec`. `EventInv`: the
gate keeps the event with the newest stamp, and no two events share one.

**A person's stop.** `PersonInv` adds to `EventInv` the tracker's targets (`TrackInv`: distinct ids,
confirmed when hit often enough, lost when missed too long) and the policy's counter
(`HoldInv`). When a person is suddenly elsewhere the tracker takes it for somebody new, and the frames
until the new target is confirmed count as calm. They are no more than the frames the new identity has
lasted (`calmer <= steady`), and the confirmation comes before they clear the stop because
`ConfirmFrames <= ClearObservations` (both are 3 in the configuration). How the person moves does not matter:
`steady` counts the frames in which the person of this frame is the target it was in the last, and
`Close` is said of the filtered place, as the policy does. Two things are outside the statement: a person who
walks along old targets that are still kept as lost may be matched to a different one in each frame, and
no identity lasts until it is confirmed; and the filter brings the place of a person who walks up to the
robot into the stop zone some frames late.

**Localization and chassis.** A relocalization that is published has been requested
(`RelocalizationIsRequested`), and no evaluation but a stable one takes the request back. `ChassisInv` bounds the
buffers and makes the last report show the adapter's stop. `DrivingOnIsNotHidden` rests on the driver's own code,
which stays while the time out lasts: `FaultCode` replaces it by another fault only. How the parser walks through the bytes is a recursive
function; that no byte or packet but a state packet ends the stop is shown along its arguments by the
least counterexample, not by an induction theorem.

### Only model-checked

* Liveness, which needs fairness and ENABLED and is out of the prover's reach: `LostRobotIsHeld`,
  `CancelRequestEndsGoal`, `AcceptedGoalEnds`, `InspectionEndsInBothNodes`, `LostPoseStopsRobot`,
  `GoodSignalsReleaseRobot`, `LastingErrorStopsRobot`, `RecoveryReleasesRobot`, `SilenceIsReported`,
  `GoodLinkReportsHealthy`. **Inspection** has such a property only, and no theorem.
* `NoFalseClear` does not hold.

## 5. What the models contain that no property may deny

Found while translating; each is in the models as the code has it, and limits what can be
stated.

*Runner.* A rejected goal or an unavailable server loses the mission that was taken from the queue,
with its locks (`LocksAreLeakedOnlyByErrors` says that nothing else does). A retried order runs
without route locks, and `cancel_workflow` releases the active mission's locks before the robot has
stopped (`LiveOrderKeepsItsRoute` names both). `current_failure_retry_count_` belongs to the mission
dispatched last, so an order that alternates with another is retried for ever.
`block_station_route` locks the edge between the two stations it is given even when every
route between them leads over a third one.

*Pauses.* The end of a localization loss resumes a mission while an obstacle is still reported; a pause of
the operator during an automatic one is lost at the recovery; the flags are not reset when
a mission ends or the operator resumes it, so the end of the obstacle may resume a later mission that the
operator has paused (`mission_safety_workflow.cpp:158`); a mission started while an obstacle is reported is not paused.

*Facilities.* When docking contact is lost after a mission for which `QueueDockMissionAfterSuccess` has queued
the dock return, the handler returns (`mission_runner_node.cpp:5031`) before
`ApplyMissionResultPostActions`: the queue is left running without a request to go on, with RECOVERING
shown and no goal, until the next service call. `ReleaseAllResourcesForMission` runs before `MarkResourceOccupied`
(`mission_runner_node.cpp:5024`), so a resource that was reserved with `hold_after_completion` is free
when its mission has succeeded. A contact failure that is not retried leaves the charger reserved.
Cancelling a queued docking mission leaves its dock APPROACHING. A docking or action
mission that failed is retried without its resource. After an operator's release a mission that
ends may change the status of another holder's reservation. A reservation that a client makes in a
mission's name is given back with that mission's resource if it is the same one, and stays
otherwise, also when the mission never comes; and a docking mission whose note was removed (by an
undocking or before its retry) arrives without marking the charger, although it may be reserved in its name.

*Stations and orders.* Steps of a workflow whose priority falls to 0 or below get the task's default
priority and overtake earlier steps. A first item that is refused or goes to another robot takes the
wish to start with it. A workflow that is refused in the middle leaves its earlier steps
queued; cancelling it calls no remote step back. The report of a remote task is not
checked against its robot or against an earlier final state. A short pick leaves the question for the
pick open. A manual timeout shows NEEDS_OPERATOR over a running mission.

*Server.* `FinishCancelled` calls `canceled()`, which throws unless the goal is CANCELING; after
`/cancel_mission` alone it is not, and the exception ends the process (line 534). `HandleGoal` rejects
while `active_` is set, which the detached thread does later: two clients' goals may both be
executed. Then the loop of each reads the `total_goals_` the other may have written (lines 186, 222), and ends
early or runs past its own list. `async_cancel_goal` is not waited for: a follower that was cancelled for a
pause, or with its sequence, drives on until Nav2 handles the request, and its feedback still writes
`current_goal_index_` (line 313). When that comes after the next sequence has begun, and this one is
paused before its own feedback, it is restarted at the other's index, leaves waypoints out and reports
success. A restart of the follower after a pause forgets waypoints missed before. A pause does not
cancel a `NavigateToPose` goal. A cancellation while Nav2 has not answered leaves a goal there.
`SelectNavigation` aborts although the follower answers when `simulate_without_nav2` is off.

*Inspection.* An event that comes while another inspection waits or runs is dropped and its target is
not asked for again until it is tentative again; a failed inspection is not repeated beyond `retry_count`. A
processed target that is lost through its cooldown comes back as CONFIRMED and is not
inspected again.

*Safety chain.* RECOVERY forces zero but ranks below SPEED_LIMITED and MANUAL_TAKEOVER. A cause whose
stop is switched off still wins and masks those below it. LOST over UNSTABLE to OK skips the
recovered hold. An automatic clear ends the stop an operator asked for as well. A stop or clear request
is sent once: when it is lost, or the clear is handled before the stop that was sent earlier, the robot
drives on under the error or stays stopped. A gate that restarts forgets its latch and is not asked again
(no restart is modelled). A perception stop that is not repeated within its time limit counts as no
restriction (`perception_safety_input.hpp:92`). In the chassis driver the stop of the
watchdog is written once, and EAGAIN counts as written, so the chassis may drive on, under a report with a
fault. Odometry and heartbeats clear the fault that a state packet reported (`chassis_system_adapter.cpp:240`),
so it may be shown for one packet only. That a tracker's
change of identity keeps the stop rests on `confirm_frames <= clear_observations`
(`PersonsHoldTheirStops`).

## 6. Not modelled, and the plan

Not modelled:

* the **velocity multiplexer** and teleoperation: the real chassis has `twist_mux` in front of the gate, whose
  choice the gate's model covers by taking any command; the simulation runs `cmd_vel_mux_node` in place of
  the gate, which selects one of three sources and resolves the same causes in one node, with an emergency
  stop that two services set and clear;
* **payload** states, which only reports read; permissions, preflight, estimates, event log, reports;
* **two goals at once** at the server, where a success says nothing of the goal's own list, and the composition of runner and server with messages in
  flight: the product of both is beyond TLC at a size where both still do something. The assumption the
  runner's model makes of the server (it may answer anything at any time) and the one the inspection
  makes (it answers) are the interface;
* **the restart** of the inspection node, which forgets the stamps it has seen, and the callback outbox
  and the other gateway scripts, which are separate processes;
* route search, catalogs and mission files, maps and zone masks, geometry and detection, control
  laws, kinematics, sockets, simulation, visualisation and measurement: functions of data or input and
  output without protocol state.

What the proofs leave: an invariant of the inspection, whose promise is a liveness property, and the
sequences that a straggler of an earlier one has misled, of which `SuccessSkipsNothing` does not hold.
