------------------------------ MODULE SafetyGate ------------------------------
(***************************************************************************)
(* The last node before the wheels: it joins every reason to stop or to    *)
(* slow down and publishes /cmd_vel every 50 ms.                           *)
(*                                                                         *)
(* A watched topic is in "fresh" while its last message is younger than    *)
(* its time limit; GoesStale is the moment that limit is reached.  The     *)
(* perception event carries a stamp of its own, so it is compared with the *)
(* clock.  A twist is its speed.                                           *)
(***************************************************************************)
EXTENDS Integers, FiniteSets

CONSTANTS
    Switches,             \* the ..._stop parameters that are set
    PerceptionTimeout,    \* perception_event_timeout_sec, in steps of the clock
    FullSpeed,            \* the fastest command the multiplexer sends
    LimitedSpeed,         \* speed_limited_max_linear_mps
    PerceptionLimit,      \* perception_speed_limit_linear_mps
    DynamicLimits,        \* limits /safety_state may ask for, 0 for none
    Reports,              \* chassis states that may be reported
    Flaky,                \* the topics that may fall silent
    MaxTime               \* bound: the last value of the clock

StopSwitches == {"localization_lost_stop", "sensor_stale_stop",
                 "chassis_fault_stop", "communication_lost_stop"}
Topics == {"cmd", "scan", "odom", "localization", "chassis"}
FaultCodes == {"NONE", "CMD_TIMEOUT", "HEARTBEAT_TIMEOUT", "BACKEND_DISCONNECTED",
               "MALFORMED_PACKET", "ESTOP_ACTIVE"}
ChassisReport == [connected : BOOLEAN, estop : BOOLEAN, fault : FaultCodes]
HealthReports == {"UNKNOWN", "OK", "UNSTABLE", "LOST", "RECOVERING", "RECOVERED"}

ASSUME GateAssumption ==
    /\ Switches \subseteq StopSwitches
    /\ Flaky \subseteq Topics
    /\ Reports \subseteq ChassisReport
    /\ PerceptionTimeout \in Nat \ {0}
    /\ FullSpeed \in Nat \ {0} /\ LimitedSpeed \in Nat \ {0} /\ PerceptionLimit \in Nat \ {0}
    /\ DynamicLimits \subseteq Nat
    /\ MaxTime \in Nat

VARIABLES
    emergency_stop, emergency_stop_latched,
    manual_takeover,
    runtime_safety_stop, dynamic_speed_limit,
    last_twist,             \* the speed of last_twist_, NoTwist before received_
    seen,                   \* the topics received at least once
    fresh,                  \* those of them within their time limits
    localization_health,    \* None before localization_seen_
    chassis_state,          \* Healthy before chassis_seen_
    perception,             \* perception_safety_
    clock,
    grace,                  \* InStartupGrace()
    safety_state,           \* the last message on /safety/state
    cmd_vel                 \* the speed of the last message on /cmd_vel

estopVars == <<emergency_stop, emergency_stop_latched>>
inputVars == <<manual_takeover, runtime_safety_stop, dynamic_speed_limit, last_twist,
               localization_health, chassis_state>>
timeVars == <<seen, fresh, clock, grace>>
outputVars == <<safety_state, cmd_vel>>
gateVars == <<estopVars, inputVars, perception, timeVars, outputVars>>

None == "none"
NoTwist == -1
Healthy == [connected |-> TRUE, estop |-> FALSE, fault |-> "NONE"]
States == {"NORMAL", "MANUAL_TAKEOVER", "SPEED_LIMITED", "SENSOR_STALE", "LOCALIZATION_LOST",
           "STOP", "CHASSIS_FAULT", "COMMUNICATION_LOST", "EMERGENCY_STOP", "RECOVERY"}
PerceptionStates == {"CLEAR", "SPEED_LIMITED", "STOP"}
Snapshot == [received : BOOLEAN, state : PerceptionStates, stamp : 0..MaxTime,
             last_clock : 0..MaxTime]
EmptySnapshot == [received |-> FALSE, state |-> "CLEAR", stamp |-> 0, last_clock |-> 0]

(***************************************************************************)
(* The gate's variables hold values of their types.                        *)
(***************************************************************************)
GateTypeOK ==
    /\ emergency_stop \in BOOLEAN
    /\ emergency_stop_latched \in BOOLEAN
    /\ manual_takeover \in BOOLEAN
    /\ runtime_safety_stop \in BOOLEAN
    /\ dynamic_speed_limit \in DynamicLimits \cup {0}
    /\ last_twist \in {NoTwist, 0, FullSpeed}
    /\ seen \subseteq Topics /\ fresh \subseteq seen
    /\ localization_health \in HealthReports \cup {None}
    /\ chassis_state \in Reports \cup {Healthy}
    /\ perception \in Snapshot
    /\ clock \in 0..MaxTime
    /\ grace \in BOOLEAN
    /\ safety_state \in States
    /\ cmd_vel \in 0..FullSpeed

GateInit ==
    /\ emergency_stop = FALSE
    /\ emergency_stop_latched = FALSE
    /\ manual_takeover = FALSE
    /\ runtime_safety_stop = FALSE
    /\ dynamic_speed_limit = 0
    /\ last_twist = NoTwist
    /\ seen = {} /\ fresh = {}
    /\ localization_health = None
    /\ chassis_state = Healthy
    /\ perception = EmptySnapshot
    /\ clock = 0
    /\ grace = TRUE
    /\ safety_state = "NORMAL"
    /\ cmd_vel = 0

-----------------------------------------------------------------------------
(* What the inputs mean. *)

SafetyPriority == [
    EMERGENCY_STOP |-> 90, COMMUNICATION_LOST |-> 80, CHASSIS_FAULT |-> 70,
    LOCALIZATION_LOST |-> 60, STOP |-> 55, SENSOR_STALE |-> 50, MANUAL_TAKEOVER |-> 40,
    SPEED_LIMITED |-> 30, RECOVERY |-> 20, NORMAL |-> 10]

ResolveHighestPriority(states) ==
    CHOOSE s \in states : \A t \in states : SafetyPriority[t] <= SafetyPriority[s]

ForcesZero(state) == state \notin {"NORMAL", "MANUAL_TAKEOVER", "SPEED_LIMITED"}

SafetyStateFromChassisStatus(report) ==
    CASE ~report.connected -> "COMMUNICATION_LOST"
      [] report.connected /\ report.estop -> "EMERGENCY_STOP"
      [] report.connected /\ ~report.estop ->
            CASE report.fault = "NONE" -> "NORMAL"
              [] report.fault = "CMD_TIMEOUT" -> "SENSOR_STALE"
              [] report.fault \in {"HEARTBEAT_TIMEOUT", "BACKEND_DISCONNECTED"} ->
                    "COMMUNICATION_LOST"
              [] report.fault = "MALFORMED_PACKET" -> "CHASSIS_FAULT"
              [] report.fault = "ESTOP_ACTIVE" -> "EMERGENCY_STOP"

SafetyStateFromLocalizationHealth(health) ==
    CASE health = "LOST" -> "LOCALIZATION_LOST"
      [] health \in {"RECOVERING", "RECOVERED"} -> "RECOVERY"
      [] health = "UNSTABLE" -> "SPEED_LIMITED"
      [] health \in {"OK", "UNKNOWN", None} -> "NORMAL"

PerceptionSafetyInputIsFresh ==
    /\ perception.received
    /\ clock >= perception.stamp
    /\ clock - perception.stamp <= PerceptionTimeout

PerceptionSafetyContribution ==
    IF ~PerceptionSafetyInputIsFresh \/ perception.state = "CLEAR"
    THEN "NORMAL"
    ELSE perception.state

\* The causes ResolveSafetyState collects.
ServiceCauses ==
    {s \in {"EMERGENCY_STOP", "CHASSIS_FAULT", "MANUAL_TAKEOVER", "SPEED_LIMITED"} :
        \/ s = "EMERGENCY_STOP" /\ (emergency_stop \/ emergency_stop_latched)
        \/ s = "CHASSIS_FAULT" /\ runtime_safety_stop
        \/ s = "MANUAL_TAKEOVER" /\ manual_takeover
        \/ s = "SPEED_LIMITED" /\ dynamic_speed_limit > 0}

StaleCause == [cmd |-> "COMMUNICATION_LOST", scan |-> "SENSOR_STALE", odom |-> "SENSOR_STALE",
               localization |-> "LOCALIZATION_LOST", chassis |-> "COMMUNICATION_LOST"]

FreshnessCauses == IF grace THEN {} ELSE {StaleCause[t] : t \in Topics \ fresh}

ReportedCauses ==
    {SafetyStateFromLocalizationHealth(localization_health),
     PerceptionSafetyContribution,
     SafetyStateFromChassisStatus(chassis_state)}

Causes == {"NORMAL"} \cup ServiceCauses \cup FreshnessCauses \cup ReportedCauses

SwitchOf == [SENSOR_STALE |-> "sensor_stale_stop",
             LOCALIZATION_LOST |-> "localization_lost_stop",
             CHASSIS_FAULT |-> "chassis_fault_stop",
             COMMUNICATION_LOST |-> "communication_lost_stop"]

ResolveSafetyState ==
    LET resolved == ResolveHighestPriority(Causes)
    IN  IF resolved \in DOMAIN SwitchOf /\ SwitchOf[resolved] \notin Switches
        THEN "NORMAL"
        ELSE resolved

-----------------------------------------------------------------------------
(* What is published. *)

Slower(a, b) == IF a < b THEN a ELSE b

\* ApplyDynamicSpeedLimit: a limit of zero is no limit.
Limited(speed, limit) == IF limit = 0 THEN speed ELSE Slower(speed, limit)

EffectiveSpeedLimit(state) ==
    LET base == IF /\ state = "SPEED_LIMITED"
                   /\ PerceptionSafetyContribution = "SPEED_LIMITED"
                   /\ dynamic_speed_limit = 0
                   /\ SafetyStateFromLocalizationHealth(localization_health) = "NORMAL"
                THEN PerceptionLimit
                ELSE LimitedSpeed
    IN  Limited(base, dynamic_speed_limit)

\* EvaluateCmdVelSafetyGate: nothing received or too old is a standstill.
InputSpeed == IF last_twist = NoTwist \/ "cmd" \notin fresh THEN 0 ELSE last_twist

ApplySafetyPolicy(speed, state) ==
    CASE ForcesZero(state) -> 0
      [] state = "SPEED_LIMITED" -> Limited(speed, EffectiveSpeedLimit(state))
      [] state = "MANUAL_TAKEOVER" -> speed
      [] state = "NORMAL" -> Limited(speed, dynamic_speed_limit)

GateTick ==
    /\ safety_state' = ResolveSafetyState
    /\ cmd_vel' = ApplySafetyPolicy(InputSpeed, ResolveSafetyState)
    /\ UNCHANGED <<estopVars, inputVars, perception, timeVars>>

-----------------------------------------------------------------------------
(* Topics and services. *)

Received(topic) == seen' = seen \cup {topic} /\ fresh' = fresh \cup {topic}

HandleTwist(speed) ==
    /\ last_twist' = speed
    /\ Received("cmd")
    /\ UNCHANGED <<estopVars, manual_takeover, runtime_safety_stop, dynamic_speed_limit,
                   localization_health, chassis_state, perception, clock, grace, outputVars>>

HandleTakeover(active) ==
    /\ manual_takeover' = active
    /\ UNCHANGED <<estopVars, runtime_safety_stop, dynamic_speed_limit, last_twist,
                   localization_health, chassis_state, perception, timeVars, outputVars>>

\* The older /safety_state topic.
HandleRuntimeSafety(stop, limit) ==
    /\ runtime_safety_stop' = stop
    /\ dynamic_speed_limit' = limit
    /\ UNCHANGED <<estopVars, manual_takeover, last_twist, localization_health,
                   chassis_state, perception, timeVars, outputVars>>

HandleLocalizationHealth(health) ==
    /\ localization_health' = health
    /\ Received("localization")
    /\ UNCHANGED <<estopVars, manual_takeover, runtime_safety_stop, dynamic_speed_limit,
                   last_twist, chassis_state, perception, clock, grace, outputVars>>

HandleSensor(topic) ==
    /\ topic \in {"scan", "odom"}
    /\ Received(topic)
    /\ UNCHANGED <<estopVars, inputVars, perception, clock, grace, outputVars>>

HandleChassisState(report) ==
    /\ chassis_state' = report
    /\ Received("chassis")
    /\ emergency_stop_latched' =
            (emergency_stop_latched \/ SafetyStateFromChassisStatus(report) = "EMERGENCY_STOP")
    /\ UNCHANGED <<emergency_stop, manual_takeover, runtime_safety_stop, dynamic_speed_limit,
                   last_twist, localization_health, perception, clock, grace, outputVars>>

\* Fault: an event that was overtaken is accepted.
FaultyUpdatePerceptionSafetySnapshot(valid, state, stamp) ==
    IF valid /\ stamp > 0 /\ stamp <= clock /\ clock - stamp <= PerceptionTimeout
    THEN [received |-> TRUE, state |-> state, stamp |-> stamp, last_clock |-> clock]
    ELSE [perception EXCEPT !.last_clock = clock]

\* UpdatePerceptionSafetySnapshot of an event: a clock that went back empties
\* the snapshot, and an event that is late, early or out of order is refused.
UpdatePerceptionSafetySnapshot(valid, state, stamp) ==
    LET kept == IF clock < perception.last_clock THEN EmptySnapshot ELSE perception
        accepted == /\ valid
                    /\ stamp > 0 /\ stamp <= clock
                    /\ clock - stamp <= PerceptionTimeout
                    /\ ~(kept.received /\ stamp < kept.stamp)
    IN  IF accepted
        THEN [received |-> TRUE, state |-> state, stamp |-> stamp, last_clock |-> clock]
        ELSE [kept EXCEPT !.last_clock = clock]

HandlePerceptionEvent(valid, state, stamp) ==
    /\ perception' = UpdatePerceptionSafetySnapshot(valid, state, stamp)
    /\ UNCHANGED <<estopVars, inputVars, timeVars, outputVars>>

\* Fault: the latch follows the request.
FaultyEnableEmergencyStop(data) ==
    /\ emergency_stop' = data
    /\ emergency_stop_latched' = data
    /\ UNCHANGED <<inputVars, perception, timeVars, outputVars>>

EnableEmergencyStop(data) ==
    /\ emergency_stop' = data
    /\ emergency_stop_latched' = (emergency_stop_latched \/ data)
    /\ UNCHANGED <<inputVars, perception, timeVars, outputVars>>

ClearEmergencyStop ==
    /\ emergency_stop' = FALSE
    /\ emergency_stop_latched' = FALSE
    /\ UNCHANGED <<inputVars, perception, timeVars, outputVars>>

GoesStale(topic) ==
    /\ topic \in fresh \cap Flaky
    /\ fresh' = fresh \ {topic}
    /\ UNCHANGED <<estopVars, inputVars, perception, seen, clock, grace, outputVars>>

GraceEnds ==
    /\ grace
    /\ grace' = FALSE
    /\ UNCHANGED <<estopVars, inputVars, perception, seen, fresh, clock, outputVars>>

ClockTick ==
    /\ clock < MaxTime
    /\ clock' = clock + 1
    /\ UNCHANGED <<estopVars, inputVars, perception, seen, fresh, grace, outputVars>>

\* Simulation time starts again.  Ages are differences to the clock: the start
\* and every message received so far lie ahead, so the grace time runs again
\* and no topic is stale.
ClockReset ==
    /\ clock > 0
    /\ clock' = 0
    /\ fresh' = seen
    /\ grace' = TRUE
    /\ UNCHANGED <<estopVars, inputVars, perception, seen, outputVars>>

TopicStep ==
    \/ \E speed \in {0, FullSpeed} : HandleTwist(speed)
    \/ \E active \in BOOLEAN : HandleTakeover(active)
    \/ \E stop \in BOOLEAN, limit \in DynamicLimits \cup {0} : HandleRuntimeSafety(stop, limit)
    \/ \E topic \in {"scan", "odom"} : HandleSensor(topic)
    \/ \E report \in Reports : HandleChassisState(report)
    \/ \E valid \in BOOLEAN, state \in PerceptionStates, stamp \in 0..MaxTime :
            HandlePerceptionEvent(valid, state, stamp)

ServiceStep ==
    \/ \E data \in BOOLEAN : EnableEmergencyStop(data)
    \/ ClearEmergencyStop

TimeStep ==
    \/ \E topic \in Flaky : GoesStale(topic)
    \/ GraceEnds
    \/ ClockTick
    \/ ClockReset

GateNext ==
    \/ GateTick
    \/ TopicStep
    \/ \E health \in HealthReports : HandleLocalizationHealth(health)
    \/ ServiceStep
    \/ TimeStep

GateSpec == GateInit /\ [][GateNext]_gateVars
=============================================================================
