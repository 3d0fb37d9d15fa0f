------------------------------ MODULE Supervision ------------------------------
(***************************************************************************)
(* The system monitor sums up the state of the robot, the fault supervisor *)
(* turns an error into an emergency stop of the safety gate and takes it   *)
(* back when the robot is well again.                                      *)
(*                                                                         *)
(* A message on a topic is the last one published, which its subscriber    *)
(* may take at any later moment.  A service request is pending until the   *)
(* gate handles it or it is lost: nobody waits for the answer.  Stops and  *)
(* clears are two services, so one may be handled before an earlier other; *)
(* the supervisor's cooldown (500 ms) does not wait for any of them.       *)
(***************************************************************************)
EXTENDS SafetyGate

CONSTANTS
    MonitorTopics,       \* the topics whose age the monitor checks
    Unsteady,            \* those of them that may fall silent
    MonitorPerception,   \* monitor_perception
    Voltages,            \* what the battery may show
    PerceptionLevels,    \* what the perception may report
    AutoClear,           \* auto_clear
    MaxPending,          \* bound: the requests to one service under way
    Operator             \* what an operator does: "enable", "release"

ASSUME SupervisionAssumption ==
    /\ MonitorTopics \subseteq {"chassis", "emergency_stop", "scan", "imu", "odom"}
    /\ Unsteady \subseteq MonitorTopics
    /\ MonitorPerception \in BOOLEAN /\ AutoClear \in BOOLEAN
    /\ MaxPending \in Nat \ {0}
    /\ Voltages \subseteq {"normal", "low", "critical"}
    /\ PerceptionLevels \subseteq {"OK", "WARN", "ERROR", "STALE"}
    /\ Operator \subseteq {"enable", "release"}

VARIABLES
    monitored,           \* the topics that are fresh for the monitor
    battery,             \* the voltage of the last chassis state
    estop_seen,          \* the last message on /emergency_stop/state
    perception_level,    \* the worst level on /perception/diagnostics
    system_health,       \* the last message on /system_health
    last_health, health_seen,
    fault_active, emergency_stop_requested,
    cooldown_ready, startup,     \* CooldownReady(), InStartupGrace()
    service_ready,       \* the gate's services are there
    pending,             \* how many requests of each kind are on their way to the gate
    asked, heard,        \* history: the supervisor's last request, and the last one of
                         \* its requests that the gate handled
    others_stop          \* history: a stop that others asked for and none cleared

sysVars == <<monitored, battery, estop_seen, perception_level, system_health>>
faultVars == <<last_health, health_seen, fault_active, emergency_stop_requested,
               cooldown_ready, startup>>
requestVars == <<service_ready, pending, asked, heard>>
superVars == <<gateVars, sysVars, faultVars, requestVars, others_stop>>

Request == {"enable", "clear"}
NothingPending == \A request \in Request : pending[request] = 0

Level == [OK |-> 0, WARN |-> 1, ERROR |-> 2, STALE |-> 3]
Health == [state : {"OK", "WARN", "ERROR"}, names_estop : BOOLEAN]
AllWell == [state |-> "OK", names_estop |-> FALSE]

(***************************************************************************)
(* The variables hold values of their types.  A request is pending only    *)
(* after the service was found.                                            *)
(***************************************************************************)
SupervisionTypeOK ==
    /\ GateTypeOK
    /\ monitored \subseteq MonitorTopics
    /\ battery \in {"normal", "low", "critical"}
    /\ estop_seen \in BOOLEAN
    /\ perception_level \in {"missing", "OK", "WARN", "ERROR", "STALE"}
    /\ system_health \in Health /\ last_health \in Health
    /\ {health_seen, fault_active, emergency_stop_requested, cooldown_ready, startup,
        service_ready, others_stop} \subseteq BOOLEAN
    /\ pending \in [Request -> 0..MaxPending] /\ (~NothingPending => service_ready)
    /\ asked \in Request \cup {None} /\ heard \in Request \cup {None}

\* What the chassis driver may report, the values of Reports of a configuration.
SoundChassis == {Healthy}
EmergencyChassis == {Healthy, [connected |-> TRUE, estop |-> TRUE, fault |-> "ESTOP_ACTIVE"]}
LostChassis == {Healthy, [connected |-> FALSE, estop |-> FALSE, fault |-> "BACKEND_DISCONNECTED"]}

SupervisionInit ==
    /\ emergency_stop = FALSE /\ emergency_stop_latched = FALSE
    /\ manual_takeover = FALSE
    /\ runtime_safety_stop = FALSE /\ dynamic_speed_limit = 0
    /\ last_twist = FullSpeed
    /\ seen = Topics /\ fresh = Topics
    /\ localization_health = "OK"
    /\ chassis_state = Healthy
    /\ perception = EmptySnapshot
    /\ clock = 0
    /\ grace = FALSE
    /\ safety_state = "NORMAL" /\ cmd_vel = FullSpeed
    /\ monitored = MonitorTopics
    /\ battery = "normal"
    /\ estop_seen = FALSE
    /\ perception_level = "missing"
    /\ system_health = AllWell
    /\ last_health = AllWell /\ health_seen = FALSE
    /\ fault_active = FALSE /\ emergency_stop_requested = FALSE
    /\ cooldown_ready = TRUE /\ startup = TRUE
    /\ service_ready = FALSE
    /\ pending = [request \in Request |-> 0]
    /\ asked = None /\ heard = None
    /\ others_stop = FALSE

-----------------------------------------------------------------------------
(* The system monitor. *)

CheckChassis ==
    IF "chassis" \in MonitorTopics \ monitored \/ ~chassis_state.connected THEN "ERROR" ELSE "OK"

CheckBattery ==
    IF "chassis" \in MonitorTopics \ monitored THEN "STALE"
    ELSE [normal |-> "OK", low |-> "WARN", critical |-> "ERROR"][battery]

EstopActive ==
    /\ ~("emergency_stop" \in MonitorTopics \ monitored)
    /\ estop_seen

CheckEmergencyStop ==
    IF "emergency_stop" \in MonitorTopics \ monitored THEN "STALE"
    ELSE IF estop_seen THEN "WARN" ELSE "OK"

CheckTopicFreshness(topic) == IF topic \in MonitorTopics \ monitored THEN "STALE" ELSE "OK"

\* Missing or silent diagnostics are a warning.
CheckPerception ==
    IF perception_level \in {"missing", "STALE"} THEN "WARN" ELSE perception_level

BuildStatuses ==
    {CheckChassis, CheckBattery, CheckEmergencyStop}
    \cup {CheckTopicFreshness(topic) : topic \in {"scan", "imu", "odom"}}
    \cup (IF MonitorPerception THEN {CheckPerception} ELSE {})

\* The worst level; whatever is above WARN is an error.
Summary ==
    CASE \A status \in BuildStatuses : Level[status] = 0 -> "OK"
      [] /\ \A status \in BuildStatuses : Level[status] <= 1
         /\ \E status \in BuildStatuses : Level[status] = 1 -> "WARN"
      [] \E status \in BuildStatuses : Level[status] > 1 -> "ERROR"

PublishHealth ==
    /\ system_health' = [state |-> Summary, names_estop |-> EstopActive]
    /\ UNCHANGED <<gateVars, monitored, battery, estop_seen, perception_level, faultVars,
                   requestVars, others_stop>>

\* A chassis state reaches the monitor and the gate.
ChassisReports(report, voltage) ==
    /\ HandleChassisState(report)
    /\ battery' = voltage
    /\ monitored' = monitored \cup ({"chassis"} \cap MonitorTopics)
    /\ others_stop' = (others_stop \/ SafetyStateFromChassisStatus(report) = "EMERGENCY_STOP")
    /\ UNCHANGED <<estop_seen, perception_level, system_health, faultVars, requestVars>>

\* The gate's /emergency_stop/state reaches the monitor.
EmergencyStateReports ==
    /\ estop_seen' = (safety_state = "EMERGENCY_STOP")
    /\ monitored' = monitored \cup ({"emergency_stop"} \cap MonitorTopics)
    /\ UNCHANGED <<gateVars, battery, perception_level, system_health, faultVars, requestVars,
                   others_stop>>

SensorReports(topic) ==
    /\ topic \in MonitorTopics \cap {"scan", "imu", "odom"}
    /\ monitored' = monitored \cup {topic}
    /\ UNCHANGED <<gateVars, battery, estop_seen, perception_level, system_health, faultVars,
                   requestVars, others_stop>>

PerceptionReports(level) ==
    /\ MonitorPerception
    /\ perception_level' = level
    /\ UNCHANGED <<gateVars, monitored, battery, estop_seen, system_health, faultVars,
                   requestVars, others_stop>>

FallsSilent(topic) ==
    /\ topic \in monitored \cap Unsteady
    /\ monitored' = monitored \ {topic}
    /\ UNCHANGED <<gateVars, battery, estop_seen, perception_level, system_health, faultVars,
                   requestVars, others_stop>>

-----------------------------------------------------------------------------
(* The fault supervisor. *)

HandleSystemHealth ==
    /\ last_health' = system_health
    /\ health_seen' = TRUE
    /\ UNCHANGED <<gateVars, sysVars, fault_active, emergency_stop_requested, cooldown_ready,
                   startup, requestVars, others_stop>>

\* Fault: only a faultless robot may be released.
FaultyHealthAllowsClear == last_health.state = "OK"

HealthAllowsClear ==
    \/ last_health.state = "OK"
    \/ last_health.state = "WARN" /\ last_health.names_estop

Send(request) ==
    /\ pending[request] < MaxPending
    /\ pending' = [pending EXCEPT ![request] = @ + 1]
    /\ asked' = request
    /\ cooldown_ready' = FALSE

RequestEmergencyStop ==
    IF service_ready
    THEN Send("enable") /\ emergency_stop_requested' = TRUE
    ELSE UNCHANGED <<pending, asked, emergency_stop_requested, cooldown_ready>>

\* Fault: the fault is forgotten, the request is not.
FaultyRequestEmergencyClear ==
    IF service_ready
    THEN /\ Send("clear")
         /\ fault_active' = FALSE
         /\ UNCHANGED emergency_stop_requested
    ELSE UNCHANGED <<pending, asked, emergency_stop_requested, fault_active, cooldown_ready>>

RequestEmergencyClear ==
    IF service_ready
    THEN /\ Send("clear")
         /\ emergency_stop_requested' = FALSE
         /\ fault_active' = FALSE
    ELSE UNCHANGED <<pending, asked, emergency_stop_requested, fault_active, cooldown_ready>>

FaultTick ==
    /\ fault_active' = TRUE
    /\ IF ~emergency_stop_requested /\ cooldown_ready
       THEN RequestEmergencyStop
       ELSE UNCHANGED <<pending, asked, emergency_stop_requested, cooldown_ready>>

RecoveryTick ==
    IF emergency_stop_requested /\ cooldown_ready
    THEN RequestEmergencyClear
    ELSE UNCHANGED <<pending, asked, emergency_stop_requested, fault_active, cooldown_ready>>

\* Nothing happens before the first health, during the startup, and while
\* there is neither an error nor a fault to recover from.
SupervisorTick ==
    /\ health_seen
    /\ \/ last_health.state = "ERROR" /\ ~startup /\ FaultTick
       \/ last_health.state # "ERROR" /\ fault_active /\ AutoClear /\ HealthAllowsClear
          /\ RecoveryTick
    /\ UNCHANGED <<gateVars, sysVars, last_health, health_seen, startup, service_ready, heard,
                   others_stop>>

CooldownEnds ==
    /\ ~cooldown_ready
    /\ cooldown_ready' = TRUE
    /\ UNCHANGED <<gateVars, sysVars, last_health, health_seen, fault_active,
                   emergency_stop_requested, startup, requestVars, others_stop>>

StartupEnds ==
    /\ startup
    /\ startup' = FALSE
    /\ UNCHANGED <<gateVars, sysVars, last_health, health_seen, fault_active,
                   emergency_stop_requested, cooldown_ready, requestVars, others_stop>>

-----------------------------------------------------------------------------
(* The gate and its services. *)

ServicesAppear ==
    /\ ~service_ready
    /\ service_ready' = TRUE
    /\ UNCHANGED <<gateVars, sysVars, faultVars, pending, asked, heard, others_stop>>

Taken(request) ==
    /\ pending[request] > 0
    /\ pending' = [pending EXCEPT ![request] = @ - 1]

HandleRequest(request) ==
    /\ Taken(request)
    /\ heard' = request
    /\ \/ request = "enable" /\ EnableEmergencyStop(TRUE) /\ UNCHANGED others_stop
       \/ request = "clear" /\ ClearEmergencyStop /\ others_stop' = FALSE
    /\ UNCHANGED <<sysVars, faultVars, service_ready, asked>>

\* A request does not get through; the client would only learn it from the answer.
LoseRequest(request) ==
    /\ Taken(request)
    /\ UNCHANGED <<gateVars, sysVars, faultVars, service_ready, asked, heard, others_stop>>

OperatorStep ==
    /\ \/ "enable" \in Operator /\ EnableEmergencyStop(TRUE) /\ others_stop' = TRUE
       \/ "release" \in Operator /\ EnableEmergencyStop(FALSE) /\ UNCHANGED others_stop
    /\ UNCHANGED <<sysVars, faultVars, requestVars>>

GateRuns ==
    /\ GateTick
    /\ UNCHANGED <<sysVars, faultVars, requestVars, others_stop>>

MonitorStep ==
    \/ PublishHealth
    \/ \E report \in Reports, voltage \in Voltages :
            ChassisReports(report, voltage)
    \/ EmergencyStateReports
    \/ \E topic \in MonitorTopics : SensorReports(topic) \/ FallsSilent(topic)
    \/ \E level \in PerceptionLevels : PerceptionReports(level)

SupervisorStep == HandleSystemHealth \/ SupervisorTick \/ CooldownEnds \/ StartupEnds

SupervisionNext ==
    \/ MonitorStep
    \/ SupervisorStep
    \/ ServicesAppear
    \/ \E request \in Request : HandleRequest(request) \/ LoseRequest(request)
    \/ OperatorStep
    \/ GateRuns

\* All timers run, every message that is repeated arrives, and the gate handles
\* the requests that are not lost.
SupervisionSpec ==
    /\ SupervisionInit
    /\ [][SupervisionNext]_superVars
    /\ WF_superVars(PublishHealth) /\ WF_superVars(EmergencyStateReports)
    /\ WF_superVars(HandleSystemHealth) /\ WF_superVars(SupervisorTick)
    /\ WF_superVars(CooldownEnds) /\ WF_superVars(StartupEnds)
    /\ WF_superVars(ServicesAppear)
    /\ WF_superVars(\E request \in Request : HandleRequest(request))
    /\ WF_superVars(GateRuns)

-----------------------------------------------------------------------------
\* The supervisor's last request was lost, or overtaken by an earlier one of the
\* other kind: the gate is not in the state that was asked for.
Astray == NothingPending /\ heard # asked

(***************************************************************************)
(* An error that lasts stops the robot for good, also one that the gate    *)
(* itself knows nothing of, such as a critical battery, and whatever stops *)
(* and clears were on their way before, in whatever order they are         *)
(* handled.  Only a request that went astray is not repeated               *)
(* (fault_supervisor_node.cpp:76: it counts as done).  No operator clears  *)
(* the stop here: the supervisor would not ask for it again either.        *)
(***************************************************************************)
LastingErrorStopsRobot == <>[](Summary = "ERROR") => <>[](cmd_vel = 0) \/ <>[]Astray

(***************************************************************************)
(* When everything is well again and nobody else asked for a stop, the     *)
(* robot is released: the warning that names the emergency stop does not   *)
(* keep the stop alive, and a stop that is handled late is cleared.  Only  *)
(* a request that went astray may leave the robot stopped.                 *)
(***************************************************************************)
Well ==
    /\ BuildStatuses \subseteq {"OK", "WARN"}
    /\ CheckBattery = "OK" /\ chassis_state = Healthy
    /\ ~others_stop
RecoveryReleasesRobot ==
    <>[]Well => <>[](cmd_vel = FullSpeed) \/ <>[]Astray

(***************************************************************************)
(* A stop that an operator or the chassis asked for holds until a clear    *)
(* request, through every healthy report and every enable request with     *)
(* data = false.                                                           *)
(***************************************************************************)
OthersStopHolds == others_stop => emergency_stop_latched

(***************************************************************************)
(* What holds between the steps of monitor, supervisor and gate.           *)
(***************************************************************************)
SupervisionInv == SupervisionTypeOK /\ OthersStopHolds
=============================================================================
