--------------------------- MODULE SafetyGate_proofs ---------------------------
(***************************************************************************)
(* Proofs about the safety gate, in the two systems it is part of: the     *)
(* fault supervision (SupervisionSpec) and the perception of persons       *)
(* (PerceptionSpec).  First what the gate's operators return, then its     *)
(* steps, then the two systems, then the tracker and the policy that       *)
(* decide about a person.                                                  *)
(***************************************************************************)
EXTENDS Supervision, PerceptionSafety, FiniteSetTheorems, SequenceTheorems, TLAPS

-----------------------------------------------------------------------------
(* The highest priority. *)

\* The states from the highest priority down: a state that is not in a set
\* without a highest member leaves the next one to be it.
LEMMA HighestExists ==
    ASSUME NEW S \in SUBSET States, S # {}
    PROVE  \E s \in S : \A t \in S : SafetyPriority[t] <= SafetyPriority[s]
<1> SUFFICES ASSUME \A s \in S : \E t \in S : ~(SafetyPriority[t] <= SafetyPriority[s])
             PROVE  FALSE
  OBVIOUS
<1>1. "EMERGENCY_STOP" \notin S
  BY DEF States, SafetyPriority
<1>2. "COMMUNICATION_LOST" \notin S
  BY <1>1 DEF States, SafetyPriority
<1>3. "CHASSIS_FAULT" \notin S
  BY <1>1, <1>2 DEF States, SafetyPriority
<1>4. "LOCALIZATION_LOST" \notin S
  BY <1>1, <1>2, <1>3 DEF States, SafetyPriority
<1>5. "STOP" \notin S
  BY <1>1, <1>2, <1>3, <1>4 DEF States, SafetyPriority
<1>6. "SENSOR_STALE" \notin S
  BY <1>1, <1>2, <1>3, <1>4, <1>5 DEF States, SafetyPriority
<1>7. "MANUAL_TAKEOVER" \notin S
  BY <1>1, <1>2, <1>3, <1>4, <1>5, <1>6 DEF States, SafetyPriority
<1>8. "SPEED_LIMITED" \notin S
  BY <1>1, <1>2, <1>3, <1>4, <1>5, <1>6, <1>7 DEF States, SafetyPriority
<1>9. "RECOVERY" \notin S
  BY <1>1, <1>2, <1>3, <1>4, <1>5, <1>6, <1>7, <1>8 DEF States, SafetyPriority
<1>10. "NORMAL" \notin S
  BY <1>1, <1>2, <1>3, <1>4, <1>5, <1>6, <1>7, <1>8, <1>9 DEF States, SafetyPriority
<1> QED
  BY <1>1, <1>2, <1>3, <1>4, <1>5, <1>6, <1>7, <1>8, <1>9, <1>10 DEF States

LEMMA HighestIsHighest ==
    ASSUME NEW S \in SUBSET States, S # {}
    PROVE  /\ ResolveHighestPriority(S) \in S
           /\ \A t \in S : SafetyPriority[t] <= SafetyPriority[ResolveHighestPriority(S)]
  BY HighestExists DEF ResolveHighestPriority

-----------------------------------------------------------------------------
(* The causes and the state they resolve to. *)

LEMMA ContributionType ==
    ASSUME GateTypeOK
    PROVE  PerceptionSafetyContribution \in {"NORMAL", "SPEED_LIMITED", "STOP"}
  BY DEF PerceptionSafetyContribution, GateTypeOK, Snapshot, PerceptionStates

LEMMA LocalizationStateType ==
    ASSUME GateTypeOK
    PROVE  SafetyStateFromLocalizationHealth(localization_health) \in States
  BY DEF SafetyStateFromLocalizationHealth, GateTypeOK, HealthReports, None, States

LEMMA ChassisStateType ==
    ASSUME NEW report \in ChassisReport
    PROVE  SafetyStateFromChassisStatus(report) \in States
  BY DEF SafetyStateFromChassisStatus, ChassisReport, FaultCodes, States

LEMMA CausesType ==
    ASSUME GateTypeOK
    PROVE  Causes \in SUBSET States /\ "NORMAL" \in Causes
<1>1. chassis_state \in ChassisReport
  <2>1. Healthy \in ChassisReport
    BY DEF Healthy, ChassisReport, FaultCodes
  <2>2. Reports \subseteq ChassisReport /\ chassis_state \in Reports \cup {Healthy}
    BY GateAssumption DEF GateTypeOK
  <2> QED
    BY <2>1, <2>2
<1>2. SafetyStateFromChassisStatus(chassis_state) \in States
  BY <1>1, ChassisStateType
<1>3. ReportedCauses \subseteq States
  BY <1>2, LocalizationStateType, ContributionType DEF ReportedCauses, States
<1>4. ServiceCauses \subseteq States
  BY DEF ServiceCauses, States
<1>5. \A t \in Topics : StaleCause[t] \in States
  BY DEF Topics, StaleCause, States
<1>6. FreshnessCauses \subseteq States
  BY <1>5 DEF FreshnessCauses
<1> QED
  BY <1>3, <1>4, <1>6 DEF Causes, States

LEMMA ResolvedType ==
    ASSUME GateTypeOK
    PROVE  ResolveSafetyState \in States
  BY CausesType, HighestIsHighest DEF ResolveSafetyState, States

\* The states that stop the robot and rank above a takeover by hand.
HardStops == {"EMERGENCY_STOP", "COMMUNICATION_LOST", "CHASSIS_FAULT", "LOCALIZATION_LOST",
              "STOP", "SENSOR_STALE"}

\* With every stop switched on, a cause of a hard stop resolves to a hard
\* stop, whatever other causes there are.
LEMMA HardStopsWin ==
    ASSUME GateTypeOK, StopSwitches \subseteq Switches, Causes \cap HardStops # {}
    PROVE  ResolveSafetyState \in HardStops
<1> DEFINE highest == ResolveHighestPriority(Causes)
<1>1. highest \in States /\ \A t \in Causes : SafetyPriority[t] <= SafetyPriority[highest]
  BY CausesType, HighestIsHighest
<1>2. PICK t \in Causes : t \in HardStops
  OBVIOUS
<1>3. SafetyPriority[t] >= 50
  BY <1>2 DEF HardStops, SafetyPriority
<1>4. \A s \in States : SafetyPriority[s] \in Int /\ (SafetyPriority[s] >= 50 => s \in HardStops)
  BY DEF States, SafetyPriority, HardStops
<1>5. SafetyPriority[t] <= SafetyPriority[highest]
  BY <1>1
<1>6. t \in States
  BY <1>2 DEF HardStops, States
<1>7. highest \in HardStops
  BY <1>1, <1>3, <1>4, <1>5, <1>6
<1>8. \A s \in DOMAIN SwitchOf : SwitchOf[s] \in Switches
  BY DEF SwitchOf, StopSwitches
<1> QED
  BY <1>7, <1>8 DEF ResolveSafetyState

\* The emergency stop needs no switch.
LEMMA EmergencyStopWins ==
    ASSUME GateTypeOK, "EMERGENCY_STOP" \in Causes
    PROVE  ResolveSafetyState = "EMERGENCY_STOP"
<1> DEFINE highest == ResolveHighestPriority(Causes)
<1>1. /\ highest \in States
      /\ SafetyPriority["EMERGENCY_STOP"] <= SafetyPriority[highest]
  BY CausesType, HighestIsHighest
<1>2. highest = "EMERGENCY_STOP"
  BY <1>1 DEF States, SafetyPriority
<1> QED
  BY <1>2 DEF ResolveSafetyState, SwitchOf

LEMMA SpeedType ==
    ASSUME GateTypeOK, NEW state \in States
    PROVE  /\ InputSpeed \in 0..FullSpeed
           /\ ApplySafetyPolicy(InputSpeed, state) \in 0..FullSpeed
           /\ ForcesZero(state) => ApplySafetyPolicy(InputSpeed, state) = 0
<1>1. /\ FullSpeed \in Nat /\ LimitedSpeed \in Nat /\ PerceptionLimit \in Nat
      /\ dynamic_speed_limit \in Nat
  BY GateAssumption DEF GateTypeOK
<1>2. InputSpeed \in 0..FullSpeed
  BY <1>1 DEF InputSpeed, GateTypeOK, NoTwist
<1>3. \A limit \in Nat : /\ Limited(LimitedSpeed, limit) \in Nat
                         /\ Limited(PerceptionLimit, limit) \in Nat
                         /\ Limited(InputSpeed, limit) \in 0..FullSpeed
  BY <1>1, <1>2 DEF Limited, Slower
<1>4. EffectiveSpeedLimit(state) \in Nat
  BY <1>1, <1>3 DEF EffectiveSpeedLimit
<1>5. ForcesZero(state) => ApplySafetyPolicy(InputSpeed, state) = 0
  BY DEF ForcesZero, ApplySafetyPolicy, States
<1>6. ~ForcesZero(state) => ApplySafetyPolicy(InputSpeed, state) \in 0..FullSpeed
  BY <1>1, <1>2, <1>3, <1>4 DEF ForcesZero, ApplySafetyPolicy
<1> QED
  BY <1>1, <1>2, <1>5, <1>6

-----------------------------------------------------------------------------
(* The gate's steps. *)

LEMMA GateTickType ==
    ASSUME GateTypeOK, GateTick
    PROVE  GateTypeOK'
<1>1. safety_state' \in States /\ cmd_vel' \in 0..FullSpeed
  BY ResolvedType, SpeedType DEF GateTick
<1> QED
  BY <1>1 DEF GateTick, GateTypeOK, estopVars, inputVars, timeVars

\* The tick publishes a standstill for every hard stop and for the latch.
LEMMA GateTickStops ==
    ASSUME GateTypeOK, GateTick
    PROVE  /\ "EMERGENCY_STOP" \in Causes => cmd_vel' = 0
           /\ StopSwitches \subseteq Switches /\ Causes \cap HardStops # {} => cmd_vel' = 0
<1>1. ResolveSafetyState \in States
  BY ResolvedType
<1>2. \A s \in HardStops : ForcesZero(s)
  BY DEF HardStops, ForcesZero
<1>3. ForcesZero(ResolveSafetyState) => cmd_vel' = 0
  BY <1>1, SpeedType DEF GateTick
<1> QED
  BY <1>2, <1>3, HardStopsWin, EmergencyStopWins DEF HardStops

LEMMA TakeoverType ==
    ASSUME GateTypeOK, NEW active \in BOOLEAN, HandleTakeover(active)
    PROVE  GateTypeOK'
  BY DEF HandleTakeover, GateTypeOK, estopVars, timeVars, outputVars

LEMMA ChassisStateStepType ==
    ASSUME GateTypeOK, NEW report \in Reports, HandleChassisState(report)
    PROVE  GateTypeOK'
  BY DEF HandleChassisState, Received, Topics, GateTypeOK, outputVars

LEMMA EmptySnapshotType == EmptySnapshot \in Snapshot
  BY GateAssumption DEF EmptySnapshot, Snapshot, PerceptionStates

\* The gate before its first message, or in operation with sound inputs.
LEMMA InitialGate ==
    ASSUME emergency_stop = FALSE, emergency_stop_latched = FALSE, manual_takeover = FALSE,
           runtime_safety_stop = FALSE, dynamic_speed_limit = 0,
           last_twist = NoTwist \/ last_twist = FullSpeed,
           seen = {} \/ seen = Topics, fresh = seen,
           localization_health = None \/ localization_health = "OK",
           chassis_state = Healthy, perception = EmptySnapshot, clock = 0,
           grace = TRUE \/ grace = FALSE, safety_state = "NORMAL",
           cmd_vel = 0 \/ cmd_vel = FullSpeed
    PROVE  GateTypeOK
<1>1. clock \in 0..MaxTime /\ cmd_vel \in 0..FullSpeed
  BY GateAssumption
<1>2. localization_health \in HealthReports \cup {None}
  BY DEF HealthReports
<1>3. perception \in Snapshot /\ safety_state \in States
  BY EmptySnapshotType DEF States
<1>4. seen \subseteq Topics /\ fresh \subseteq seen
  OBVIOUS
<1>5. last_twist \in {NoTwist, 0, FullSpeed} /\ chassis_state \in Reports \cup {Healthy}
  OBVIOUS
<1>6. dynamic_speed_limit \in DynamicLimits \cup {0}
  OBVIOUS
<1>7. /\ emergency_stop \in BOOLEAN /\ emergency_stop_latched \in BOOLEAN
      /\ manual_takeover \in BOOLEAN /\ runtime_safety_stop \in BOOLEAN /\ grace \in BOOLEAN
  OBVIOUS
<1> QED
  BY <1>1, <1>2, <1>3, <1>4, <1>5, <1>6, <1>7 DEF GateTypeOK

LEMMA PerceptionEventType ==
    ASSUME GateTypeOK, NEW valid \in BOOLEAN, NEW state \in PerceptionStates,
           NEW stamp \in 0..MaxTime, HandlePerceptionEvent(valid, state, stamp)
    PROVE  GateTypeOK'
<1>1. EmptySnapshot \in Snapshot /\ perception \in Snapshot /\ clock \in 0..MaxTime
  BY EmptySnapshotType DEF GateTypeOK
<1>2. UpdatePerceptionSafetySnapshot(valid, state, stamp) \in Snapshot
  BY <1>1 DEF UpdatePerceptionSafetySnapshot, Snapshot
<1> QED
  BY <1>2
  DEF HandlePerceptionEvent, GateTypeOK, estopVars, inputVars, timeVars, outputVars

LEMMA EmergencyStopType ==
    ASSUME GateTypeOK,
           (\E data \in BOOLEAN : EnableEmergencyStop(data)) \/ ClearEmergencyStop
    PROVE  GateTypeOK'
  BY DEF EnableEmergencyStop, ClearEmergencyStop, GateTypeOK, inputVars, timeVars, outputVars

LEMMA ClockTickType ==
    ASSUME GateTypeOK, ClockTick
    PROVE  GateTypeOK'
  BY GateAssumption DEF ClockTick, GateTypeOK, estopVars, inputVars, outputVars

LEMMA GateStutters ==
    ASSUME GateTypeOK, UNCHANGED gateVars
    PROVE  GateTypeOK'
  BY DEF gateVars, estopVars, inputVars, timeVars, outputVars, GateTypeOK

LEMMA OtherInputsType ==
    ASSUME GateTypeOK,
           \/ \E speed \in {0, FullSpeed} : HandleTwist(speed)
           \/ \E stop \in BOOLEAN, limit \in DynamicLimits \cup {0} :
                  HandleRuntimeSafety(stop, limit)
           \/ \E health \in HealthReports : HandleLocalizationHealth(health)
           \/ \E topic \in {"scan", "odom"} : HandleSensor(topic)
    PROVE  GateTypeOK'
<1>1. CASE \E speed \in {0, FullSpeed} : HandleTwist(speed)
  BY <1>1 DEF HandleTwist, Received, Topics, GateTypeOK, estopVars, outputVars
<1>2. CASE \E stop \in BOOLEAN, limit \in DynamicLimits \cup {0} :
               HandleRuntimeSafety(stop, limit)
  BY <1>2 DEF HandleRuntimeSafety, GateTypeOK, estopVars, timeVars, outputVars
<1>3. CASE \E health \in HealthReports : HandleLocalizationHealth(health)
  BY <1>3 DEF HandleLocalizationHealth, Received, Topics, GateTypeOK, estopVars, outputVars
<1>4. CASE \E topic \in {"scan", "odom"} : HandleSensor(topic)
  BY <1>4 DEF HandleSensor, Received, Topics, GateTypeOK, estopVars, inputVars, outputVars
<1> QED
  BY <1>1, <1>2, <1>3, <1>4

LEMMA TimeType ==
    ASSUME GateTypeOK, TimeStep
    PROVE  GateTypeOK'
<1>1. CASE (\E topic \in Flaky : GoesStale(topic)) \/ GraceEnds
  BY <1>1
  DEF GoesStale, GraceEnds, GateTypeOK, estopVars, inputVars, outputVars
<1>2. CASE ClockReset
  BY <1>2, GateAssumption DEF ClockReset, GateTypeOK, estopVars, inputVars, outputVars
<1> QED
  BY <1>1, <1>2, ClockTickType DEF TimeStep

LEMMA GateStepType ==
    ASSUME GateTypeOK, [GateNext]_gateVars
    PROVE  GateTypeOK'
<1>1. CASE TopicStep
  BY <1>1, OtherInputsType, TakeoverType, ChassisStateStepType, PerceptionEventType
  DEF TopicStep
<1>2. CASE ServiceStep
  BY <1>2, EmergencyStopType DEF ServiceStep
<1> QED
  BY <1>1, <1>2, GateTickType, OtherInputsType, TimeType, GateStutters DEF GateNext

(***************************************************************************)
(* The gate keeps its types under every sequence of inputs.                *)
(***************************************************************************)
THEOREM GateTypeCorrectness == GateSpec => []GateTypeOK
<1>1. GateInit => GateTypeOK
  BY InitialGate DEF GateInit
<1>2. GateTypeOK /\ [GateNext]_gateVars => GateTypeOK'
  BY GateStepType
<1> QED
  BY <1>1, <1>2, PTL DEF GateSpec

(***************************************************************************)
(* Whatever the gate was told before, and in whatever order: with every    *)
(* stop switched on, a tick that finds a cause of a hard stop (an          *)
(* emergency stop, a silent topic, a chassis fault, a lost pose, a close   *)
(* person) publishes a standstill; no takeover, speed limit or recovery    *)
(* outranks it.                                                            *)
(***************************************************************************)
HardStopIsPublished ==
    [][ GateTick /\ Causes \cap HardStops # {} => cmd_vel' = 0 ]_gateVars

THEOREM HardStopsArePublished ==
    ASSUME StopSwitches \subseteq Switches
    PROVE  GateSpec => HardStopIsPublished
<1>1. GateTypeOK => [ GateTick /\ Causes \cap HardStops # {} => cmd_vel' = 0 ]_gateVars
  BY GateTickStops
<1> QED
  BY <1>1, GateTypeCorrectness, PTL DEF GateSpec, HardStopIsPublished

(***************************************************************************)
(* An emergency stop that was latched ends with a clear request alone:     *)
(* until then every tick publishes a standstill, whatever the switches,    *)
(* the topics and the enable requests with data = false say.               *)
(***************************************************************************)
LatchedStopHolds ==
    [][ emergency_stop_latched =>
            /\ ClearEmergencyStop \/ emergency_stop_latched'
            /\ GateTick => cmd_vel' = 0 ]_gateVars

THEOREM LatchedStopsHold == GateSpec => LatchedStopHolds
<1> DEFINE Latched == emergency_stop_latched =>
                          /\ ClearEmergencyStop \/ emergency_stop_latched'
                          /\ GateTick => cmd_vel' = 0
<1>1. ASSUME GateTypeOK, GateNext, emergency_stop_latched
      PROVE  ClearEmergencyStop \/ emergency_stop_latched'
  <2>1. CASE GateTick \/ TimeStep
    BY <2>1, <1>1
    DEF GateTick, TimeStep, GoesStale, GraceEnds, ClockTick, ClockReset, estopVars
  <2>2. CASE TopicStep
    BY <2>2, <1>1
    DEF TopicStep, HandleTwist, HandleTakeover, HandleRuntimeSafety, HandleSensor,
        HandleChassisState, HandlePerceptionEvent, estopVars
  <2>3. CASE (\E health \in HealthReports : HandleLocalizationHealth(health)) \/ ServiceStep
    BY <2>3, <1>1
    DEF HandleLocalizationHealth, ServiceStep, EnableEmergencyStop, estopVars
  <2> QED
    BY <1>1, <2>1, <2>2, <2>3 DEF GateNext
<1>2. ASSUME GateTypeOK, GateTick, emergency_stop_latched
      PROVE  cmd_vel' = 0
  BY <1>2, GateTickStops DEF Causes, ServiceCauses
<1>3. GateTypeOK /\ [GateNext]_gateVars => [Latched]_gateVars
  BY <1>1, <1>2
<1> QED
  BY <1>3, GateTypeCorrectness, PTL DEF GateSpec, LatchedStopHolds

-----------------------------------------------------------------------------
(* The fault supervision. *)

\* The supervision's own variables.
OwnTypeOK ==
    /\ monitored \subseteq MonitorTopics
    /\ battery \in {"normal", "low", "critical"}
    /\ estop_seen \in BOOLEAN
    /\ perception_level \in {"missing", "OK", "WARN", "ERROR", "STALE"}
    /\ system_health \in Health /\ last_health \in Health
    /\ health_seen \in BOOLEAN /\ fault_active \in BOOLEAN
    /\ emergency_stop_requested \in BOOLEAN /\ cooldown_ready \in BOOLEAN
    /\ startup \in BOOLEAN /\ service_ready \in BOOLEAN /\ others_stop \in BOOLEAN
    /\ pending \in [Request -> 0..MaxPending] /\ (~NothingPending => service_ready)
    /\ asked \in Request \cup {None} /\ heard \in Request \cup {None}

LEMMA TypeSplit ==
    /\ SupervisionTypeOK <=> GateTypeOK /\ OwnTypeOK
    /\ SupervisionTypeOK' <=> GateTypeOK' /\ OwnTypeOK'
  BY DEF SupervisionTypeOK, OwnTypeOK

\* What a sent, a handled and a lost request make of the requests under way.
LEMMA SendType ==
    ASSUME OwnTypeOK, NEW request \in Request, Send(request)
    PROVE  /\ pending' \in [Request -> 0..MaxPending]
           /\ asked' \in Request \cup {None} /\ cooldown_ready' \in BOOLEAN
<1>1. MaxPending \in Nat /\ pending[request] \in 0..MaxPending
  BY SupervisionAssumption DEF OwnTypeOK
<1>2. pending[request] + 1 \in 0..MaxPending
  BY <1>1 DEF Send
<1> QED
  BY <1>2 DEF Send, OwnTypeOK

LEMMA TakenType ==
    ASSUME OwnTypeOK, NEW request \in Request, Taken(request)
    PROVE  pending' \in [Request -> 0..MaxPending] /\ service_ready
<1>1. MaxPending \in Nat /\ pending[request] \in 0..MaxPending
  BY SupervisionAssumption DEF OwnTypeOK
<1>2. pending[request] - 1 \in 0..MaxPending
  BY <1>1 DEF Taken
<1>3. service_ready
  BY DEF Taken, OwnTypeOK, NothingPending
<1> QED
  BY <1>2, <1>3 DEF Taken, OwnTypeOK

LEMMA SupervisionInitially == SupervisionInit => SupervisionInv
<1> SUFFICES ASSUME SupervisionInit
             PROVE  SupervisionInv
  OBVIOUS
<1>1. GateTypeOK
  BY InitialGate DEF SupervisionInit
<1>2. OwnTypeOK
  <2>1. AllWell \in Health
    BY DEF AllWell, Health
  <2>2. pending \in [Request -> 0..MaxPending] /\ NothingPending
    BY SupervisionAssumption DEF SupervisionInit, NothingPending
  <2> QED
    BY <2>1, <2>2 DEF SupervisionInit, OwnTypeOK
<1> QED
  BY <1>1, <1>2, TypeSplit DEF SupervisionInv, OthersStopHolds, SupervisionInit

LEMMA SummaryType ==
    ASSUME OwnTypeOK
    PROVE  Summary \in {"OK", "WARN", "ERROR"} /\ EstopActive \in BOOLEAN
<1>1. /\ CheckChassis \in DOMAIN Level
      /\ CheckEmergencyStop \in DOMAIN Level
      /\ \A topic \in {"scan", "imu", "odom"} : CheckTopicFreshness(topic) \in DOMAIN Level
  BY DEF CheckChassis, CheckEmergencyStop, CheckTopicFreshness, Level
<1>2. CheckBattery \in DOMAIN Level
  BY DEF CheckBattery, OwnTypeOK, Level
<1>3. CheckPerception \in DOMAIN Level
  BY DEF CheckPerception, OwnTypeOK, Level
<1>4. BuildStatuses \subseteq DOMAIN Level
  BY <1>1, <1>2, <1>3 DEF BuildStatuses
<1>5. \A status \in DOMAIN Level : Level[status] \in 0..3
  BY DEF Level
<1>6. Summary \in {"OK", "WARN", "ERROR"}
  BY <1>4, <1>5 DEF Summary
<1> QED
  BY <1>6 DEF EstopActive, OwnTypeOK

\* A step that leaves the gate and the history alone.
LEMMA GateLeftAlone ==
    ASSUME SupervisionInv, OwnTypeOK', UNCHANGED <<gateVars, others_stop>>
    PROVE  SupervisionInv'
<1>1. GateTypeOK' /\ OthersStopHolds'
  BY GateStutters, TypeSplit DEF SupervisionInv, OthersStopHolds, gateVars, estopVars
<1> QED
  BY <1>1, TypeSplit DEF SupervisionInv

LEMMA MonitorStepInv ==
    ASSUME SupervisionInv, MonitorStep
    PROVE  SupervisionInv'
<1> USE DEF faultVars, requestVars, NothingPending
<1>0. GateTypeOK /\ OwnTypeOK /\ OthersStopHolds
  BY TypeSplit DEF SupervisionInv
<1>1. CASE PublishHealth
  <2>1. OwnTypeOK'
    BY <1>0, <1>1, SummaryType DEF PublishHealth, OwnTypeOK, Health
  <2> QED
    BY <1>1, <2>1, GateLeftAlone DEF PublishHealth
<1>2. CASE \E report \in Reports, voltage \in Voltages : ChassisReports(report, voltage)
  <2>1. PICK report \in Reports, voltage \in Voltages : ChassisReports(report, voltage)
    BY <1>2
  <2>2. GateTypeOK'
    BY <1>0, <2>1, ChassisStateStepType DEF ChassisReports
  <2>3. OwnTypeOK'
    <3>1. voltage \in {"normal", "low", "critical"}
      BY SupervisionAssumption
    <3> QED
      BY <1>0, <2>1, <3>1 DEF ChassisReports, OwnTypeOK
  <2>4. OthersStopHolds'
    BY <1>0, <2>1 DEF ChassisReports, HandleChassisState, OthersStopHolds
  <2> QED
    BY <2>2, <2>3, <2>4, TypeSplit DEF SupervisionInv
<1>3. CASE EmergencyStateReports
  <2>1. OwnTypeOK'
    BY <1>0, <1>3 DEF EmergencyStateReports, OwnTypeOK
  <2> QED
    BY <1>3, <2>1, GateLeftAlone DEF EmergencyStateReports
<1>4. CASE \E topic \in MonitorTopics : SensorReports(topic) \/ FallsSilent(topic)
  <2>0. PICK topic \in MonitorTopics : SensorReports(topic) \/ FallsSilent(topic)
    BY <1>4
  <2>1. OwnTypeOK' /\ UNCHANGED <<gateVars, others_stop>>
    <3>1. CASE SensorReports(topic)
      BY <1>0, <3>1 DEF SensorReports, OwnTypeOK
    <3>2. CASE FallsSilent(topic)
      BY <1>0, <3>2 DEF FallsSilent, OwnTypeOK
    <3> QED
      BY <2>0, <3>1, <3>2
  <2> QED
    BY <2>1, GateLeftAlone
<1>5. CASE \E reported \in PerceptionLevels : PerceptionReports(reported)
  <2>1. OwnTypeOK' /\ UNCHANGED <<gateVars, others_stop>>
    BY <1>0, <1>5, SupervisionAssumption DEF PerceptionReports, OwnTypeOK
  <2> QED
    BY <2>1, GateLeftAlone
<1> QED
  BY <1>1, <1>2, <1>3, <1>4, <1>5 DEF MonitorStep

LEMMA SupervisorStepInv ==
    ASSUME SupervisionInv, SupervisorStep
    PROVE  SupervisionInv'
<1> USE DEF sysVars
<1>0. OwnTypeOK
  BY TypeSplit DEF SupervisionInv
<1>1. CASE HandleSystemHealth
  <2>1. OwnTypeOK' /\ UNCHANGED <<gateVars, others_stop>>
    BY <1>0, <1>1 DEF HandleSystemHealth, OwnTypeOK, requestVars, NothingPending
  <2> QED
    BY <2>1, GateLeftAlone
<1>2. CASE SupervisorTick
  <2>1. UNCHANGED <<gateVars, sysVars, last_health, health_seen, startup, service_ready,
                    others_stop>>
    BY <1>2 DEF SupervisorTick
  <2> DEFINE kept == UNCHANGED <<pending, asked, cooldown_ready>>
             sent == service_ready /\ \E request \in Request : Send(request)
  <2>2. ASSUME FaultTick
        PROVE  /\ fault_active' \in BOOLEAN /\ emergency_stop_requested' \in BOOLEAN
               /\ kept \/ sent
    <3>1. fault_active' \in BOOLEAN /\ emergency_stop_requested' \in BOOLEAN
      BY <1>0, <2>2 DEF FaultTick, RequestEmergencyStop, OwnTypeOK
    <3>2. kept \/ sent
      BY <2>2 DEF FaultTick, RequestEmergencyStop, Request
    <3> QED
      BY <3>1, <3>2
  <2>3. ASSUME RecoveryTick
        PROVE  /\ fault_active' \in BOOLEAN /\ emergency_stop_requested' \in BOOLEAN
               /\ kept \/ sent
    <3>1. fault_active' \in BOOLEAN /\ emergency_stop_requested' \in BOOLEAN
      BY <1>0, <2>3 DEF RecoveryTick, RequestEmergencyClear, OwnTypeOK
    <3>2. kept \/ sent
      BY <2>3 DEF RecoveryTick, RequestEmergencyClear, Request
    <3> QED
      BY <3>1, <3>2
  <2>4. /\ fault_active' \in BOOLEAN /\ emergency_stop_requested' \in BOOLEAN
        /\ kept \/ sent
    BY <1>2, <2>2, <2>3 DEF SupervisorTick
  <2>5. heard' = heard
    BY <1>2 DEF SupervisorTick
  <2>6. /\ pending' \in [Request -> 0..MaxPending] /\ (~NothingPending' => service_ready)
        /\ asked' \in Request \cup {None} /\ cooldown_ready' \in BOOLEAN
    <3>1. CASE kept
      BY <1>0, <3>1 DEF OwnTypeOK, NothingPending
    <3>2. CASE sent
      BY <1>0, <3>2, SendType
    <3> QED
      BY <2>4, <3>1, <3>2
  <2>7. OwnTypeOK'
    BY <1>0, <2>1, <2>4, <2>5, <2>6 DEF OwnTypeOK
  <2> QED
    BY <2>1, <2>7, GateLeftAlone
<1>3. CASE CooldownEnds \/ StartupEnds
  <2>1. OwnTypeOK' /\ UNCHANGED <<gateVars, others_stop>>
    <3>1. CASE CooldownEnds
      BY <1>0, <3>1 DEF CooldownEnds, OwnTypeOK, requestVars, NothingPending
    <3>2. CASE StartupEnds
      <4>1. /\ startup' = FALSE /\ NothingPending' = NothingPending
            /\ UNCHANGED <<gateVars, others_stop>>
            /\ UNCHANGED <<sysVars, last_health, health_seen, fault_active>>
            /\ UNCHANGED <<emergency_stop_requested, cooldown_ready, requestVars>>
        BY <3>2 DEF StartupEnds, requestVars, NothingPending
      <4>2. /\ monitored' = monitored /\ battery' = battery /\ estop_seen' = estop_seen
            /\ perception_level' = perception_level /\ system_health' = system_health
            /\ last_health' = last_health /\ health_seen' = health_seen
            /\ fault_active' = fault_active /\ others_stop' = others_stop
            /\ emergency_stop_requested' = emergency_stop_requested
            /\ cooldown_ready' = cooldown_ready /\ service_ready' = service_ready
            /\ pending' = pending /\ asked' = asked /\ heard' = heard
        BY <4>1 DEF sysVars, requestVars
      <4>3. startup' \in BOOLEAN /\ NothingPending' = NothingPending
        BY <4>1
      <4>4. OwnTypeOK'
        BY <1>0, <4>2, <4>3 DEF OwnTypeOK
      <4> QED
        BY <4>1, <4>4
    <3> QED
      BY <1>3, <3>1, <3>2
  <2> QED
    BY <2>1, GateLeftAlone
<1> QED
  BY <1>1, <1>2, <1>3 DEF SupervisorStep

LEMMA RequestInv ==
    ASSUME SupervisionInv, NEW request \in Request, HandleRequest(request)
    PROVE  SupervisionInv'
<1>0. GateTypeOK /\ OwnTypeOK /\ OthersStopHolds
  BY TypeSplit DEF SupervisionInv
<1>1. GateTypeOK'
  BY <1>0, EmergencyStopType DEF HandleRequest
<1>2. OwnTypeOK'
  <2>1. others_stop' \in BOOLEAN
    BY <1>0 DEF HandleRequest, OwnTypeOK
  <2>2. pending' \in [Request -> 0..MaxPending] /\ service_ready /\ heard' \in Request
    BY <1>0, TakenType DEF HandleRequest
  <2>3. UNCHANGED <<sysVars, faultVars, service_ready, asked>>
    BY DEF HandleRequest
  <2> QED
    BY <1>0, <2>1, <2>2, <2>3 DEF OwnTypeOK, sysVars, faultVars
<1>3. OthersStopHolds'
  BY <1>0 DEF HandleRequest, OthersStopHolds, EnableEmergencyStop, ClearEmergencyStop
<1> QED
  BY <1>1, <1>2, <1>3, TypeSplit DEF SupervisionInv

LEMMA LostRequestInv ==
    ASSUME SupervisionInv, NEW request \in Request, LoseRequest(request)
    PROVE  SupervisionInv'
<1>1. OwnTypeOK
  BY TypeSplit DEF SupervisionInv
<1>2. pending' \in [Request -> 0..MaxPending] /\ service_ready
  BY <1>1, TakenType DEF LoseRequest
<1>3. UNCHANGED <<gateVars, sysVars, faultVars, service_ready, asked, heard, others_stop>>
  BY DEF LoseRequest
<1>4. OwnTypeOK'
  BY <1>1, <1>2, <1>3 DEF OwnTypeOK, sysVars, faultVars
<1> QED
  BY <1>3, <1>4, GateLeftAlone

LEMMA OperatorStepInv ==
    ASSUME SupervisionInv, OperatorStep
    PROVE  SupervisionInv'
<1>0. GateTypeOK /\ OwnTypeOK /\ OthersStopHolds
  BY TypeSplit DEF SupervisionInv
<1>1. GateTypeOK'
  BY <1>0, EmergencyStopType DEF OperatorStep
<1>2. OwnTypeOK'
  <2>1. UNCHANGED <<sysVars, faultVars, requestVars>>
    BY DEF OperatorStep
  <2>2. others_stop' \in BOOLEAN
    BY <1>0 DEF OperatorStep, OwnTypeOK
  <2> QED
    BY <1>0, <2>1, <2>2 DEF OwnTypeOK, sysVars, faultVars, requestVars, NothingPending
<1>3. OthersStopHolds'
  BY <1>0 DEF OperatorStep, OthersStopHolds, EnableEmergencyStop
<1> QED
  BY <1>1, <1>2, <1>3, TypeSplit DEF SupervisionInv

LEMMA SupervisionStep ==
    ASSUME SupervisionInv, [SupervisionNext]_superVars
    PROVE  SupervisionInv'
<1>0. GateTypeOK /\ OwnTypeOK /\ OthersStopHolds
  BY TypeSplit DEF SupervisionInv
<1>1. CASE ServicesAppear
  <2>1. OwnTypeOK'
    BY <1>0, <1>1 DEF ServicesAppear, OwnTypeOK, sysVars, faultVars, NothingPending
  <2> QED
    BY <1>1, <2>1, GateLeftAlone DEF ServicesAppear
<1>2. CASE GateRuns
  <2>1. GateTypeOK' /\ OthersStopHolds'
    BY <1>0, <1>2, GateTickType DEF GateRuns, GateTick, OthersStopHolds, estopVars
  <2>2. OwnTypeOK'
    BY <1>0, <1>2 DEF GateRuns, OwnTypeOK, sysVars, faultVars, requestVars, NothingPending
  <2> QED
    BY <2>1, <2>2, TypeSplit DEF SupervisionInv
<1>3. CASE UNCHANGED superVars
  <2>1. OwnTypeOK'
    BY <1>0, <1>3
    DEF OwnTypeOK, superVars, sysVars, faultVars, requestVars, NothingPending
  <2> QED
    BY <1>3, <2>1, GateLeftAlone DEF superVars
<1> QED
  BY <1>1, <1>2, <1>3, MonitorStepInv, SupervisorStepInv, RequestInv, LostRequestInv,
     OperatorStepInv
  DEF SupervisionNext

(***************************************************************************)
(* The types of the supervision and the gate, that a request is on its way *)
(* only to a service that was found, and that a stop of an operator or of  *)
(* the chassis stays latched until a clear request.                        *)
(***************************************************************************)
THEOREM SupervisionInvariance == SupervisionSpec => []SupervisionInv
<1>1. SupervisionInv /\ [SupervisionNext]_superVars => SupervisionInv'
  BY SupervisionStep
<1> QED
  BY <1>1, SupervisionInitially, PTL DEF SupervisionSpec

(***************************************************************************)
(* What the latch is for: while a stop that others asked for is not        *)
(* cleared, every tick of the gate publishes a standstill, whatever the    *)
(* monitor and the supervisor make of the robot's health.                  *)
(***************************************************************************)
OthersStopIsPublished == [][ GateRuns /\ others_stop => cmd_vel' = 0 ]_superVars

THEOREM OthersStopsArePublished == SupervisionSpec => OthersStopIsPublished
<1>1. ASSUME SupervisionInv, GateRuns, others_stop
      PROVE  cmd_vel' = 0
  <2>1. GateTypeOK /\ emergency_stop_latched
    BY <1>1, TypeSplit DEF SupervisionInv, OthersStopHolds
  <2>2. "EMERGENCY_STOP" \in Causes
    BY <2>1 DEF Causes, ServiceCauses
  <2> QED
    BY <1>1, <2>1, <2>2, GateTickStops DEF GateRuns
<1>2. SupervisionInv => [ GateRuns /\ others_stop => cmd_vel' = 0 ]_superVars
  BY <1>1
<1> QED
  BY <1>2, SupervisionInvariance, PTL DEF SupervisionSpec, OthersStopIsPublished

-----------------------------------------------------------------------------
(* The perception of persons. *)

otherVars == <<trackVars, policyVars, events, historyVars>>

\* PerceptionSpec with every other input of the gate: commands, takeovers,
\* runtime stops and limits, sensors, localization, chassis and services, and
\* topics that fall silent.
OtherInputs ==
    /\ \/ \E speed \in {0, FullSpeed} : HandleTwist(speed)
       \/ \E active \in BOOLEAN : HandleTakeover(active)
       \/ \E stop \in BOOLEAN, limit \in DynamicLimits \cup {0} : HandleRuntimeSafety(stop, limit)
       \/ \E health \in HealthReports : HandleLocalizationHealth(health)
       \/ \E topic \in {"scan", "odom"} : HandleSensor(topic)
       \/ \E report \in Reports : HandleChassisState(report)
       \/ ServiceStep
       \/ \E topic \in Flaky : GoesStale(topic)
       \/ GraceEnds
    /\ UNCHANGED otherVars

OpenSpec == PerceptionInit /\ [][PerceptionNext \/ OtherInputs]_perceptionVars

\* The gate keeps the newest event it was given in time.
NewestIsKept ==
    /\ perception.received <=> newest.stamp > 0
    /\ perception.stamp = newest.stamp
    /\ perception.state = newest.state
    /\ newest.stamp <= clock /\ perception.last_clock <= clock

\* A frame has its stamp for itself, so no two events are equally new.
EventsAreDistinct ==
    /\ \A e \in events : e.stamp <= clock /\ e.stamp # newest.stamp
    /\ \A e, f \in events : e.stamp = f.stamp => e = f

EventTypeOK ==
    /\ GateTypeOK
    /\ level \in PerceptionStates
    /\ events \subseteq Event
    /\ newest \in Event \cup {NoEvent}

EventInv == EventTypeOK /\ NewestIsKept /\ EventsAreDistinct

LEMMA EventsInitially == PerceptionInit => EventInv
<1> SUFFICES ASSUME PerceptionInit
             PROVE  EventInv
  OBVIOUS
<1>1. GateTypeOK
  BY InitialGate DEF PerceptionInit
<1> QED
  BY <1>1
  DEF PerceptionInit, EventInv, EventTypeOK, NewestIsKept, EventsAreDistinct, NoEvent,
      EmptySnapshot, PerceptionStates

LEMMA ClassifyType ==
    ASSUME NEW ts, NEW stamp
    PROVE  Classify(ts, stamp) \in PerceptionStates
<1> DEFINE levels == {"CLEAR"} \cup {LevelAt(t.place) : t \in Considered(ts, stamp)}
<1>1. levels \subseteq PerceptionStates
  <2>1. \A place : LevelAt(place) \in PerceptionStates
    BY DEF LevelAt, PerceptionStates
  <2> QED
    BY <2>1 DEF PerceptionStates
<1>2. \E l \in levels : \A k \in levels : Rank[k] <= Rank[l]
  <2>1. SUFFICES ASSUME \A l \in levels : \E k \in levels : ~(Rank[k] <= Rank[l])
                 PROVE  FALSE
    OBVIOUS
  <2> HIDE DEF levels
  <2>2. "STOP" \notin levels
    BY <1>1, <2>1 DEF PerceptionStates, Rank
  <2>3. "SPEED_LIMITED" \notin levels
    BY <1>1, <2>1, <2>2 DEF PerceptionStates, Rank
  <2>4. "CLEAR" \notin levels
    BY <1>1, <2>1, <2>2, <2>3 DEF PerceptionStates, Rank
  <2> QED
    BY <2>4 DEF levels
<1> HIDE DEF levels
<1>3. (CHOOSE l \in levels : \A k \in levels : Rank[k] <= Rank[l]) \in levels
  BY <1>2
<1>4. Classify(ts, stamp) \in levels
  BY <1>3 DEF Classify, levels
<1> QED
  BY <1>1, <1>4

\* What a frame may publish: one event with the frame's stamp.
LEMMA FramePublishes ==
    ASSUME EventInv, NEW person, NEW thing, NEW pose_known,
           HandleDetectorObservation(person, thing, pose_known)
    PROVE  /\ ClockTick /\ newest' = newest
           /\ level' \in PerceptionStates
           /\ \/ events' = events
              \/ \E state \in PerceptionStates :
                    events' = events \cup {[state |-> state, stamp |-> clock + 1]}
<1>1. ClockTick /\ newest' = newest
  BY DEF HandleDetectorObservation
<1>2. CASE UNCHANGED <<policyVars, events>>
  BY <1>1, <1>2 DEF EventInv, EventTypeOK, policyVars
<1>3. CASE EvaluateAndPublishSafety(targets', clock + 1, pose_known)
  <2>1. Classify(targets', clock + 1) \in PerceptionStates
    BY ClassifyType
  <2>2. CASE /\ Evaluate(Classify(targets', clock + 1))
             /\ events' = events \cup {[state |-> level', stamp |-> clock + 1]}
    <3>1. level' \in PerceptionStates
      BY <2>1, <2>2 DEF Evaluate, EventInv, EventTypeOK
    <3> QED
      BY <1>1, <2>2, <3>1
  <2> QED
    BY <1>2, <1>3, <2>2 DEF EvaluateAndPublishSafety
<1> QED
  BY <1>2, <1>3 DEF HandleDetectorObservation

LEMMA FrameKeepsEvents ==
    ASSUME EventInv, NEW person, NEW thing, NEW pose_known,
           HandleDetectorObservation(person, thing, pose_known)
    PROVE  EventInv'
<1>1. /\ clock \in 0..MaxTime /\ clock < MaxTime /\ clock' = clock + 1 /\ MaxTime \in Nat
      /\ perception' = perception /\ newest' = newest
  BY FramePublishes, GateAssumption DEF EventInv, EventTypeOK, GateTypeOK, ClockTick
<1>2. GateTypeOK' /\ level' \in PerceptionStates
  BY FramePublishes, ClockTickType DEF EventInv, EventTypeOK
<1>3. \A e \in events' : e \in events \/ (e \in Event /\ e.stamp = clock + 1)
  BY <1>1, FramePublishes DEF Event
<1>4. \A e, f \in events' : e \notin events /\ f \notin events => e = f
  BY FramePublishes
<1>5. \A e \in events : e \in Event /\ e.stamp \in Int /\ e.stamp <= clock
  BY DEF EventInv, EventTypeOK, EventsAreDistinct, Event
<1>6. newest.stamp \in Int /\ newest.stamp <= clock
  BY DEF EventInv, EventTypeOK, NewestIsKept, Event, NoEvent
<1>7. events' \subseteq Event
  BY <1>3, <1>5
<1>8. EventsAreDistinct'
  <2>1. \A e \in events' : e.stamp <= clock' /\ e.stamp # newest'.stamp
    BY <1>1, <1>3, <1>5, <1>6 DEF EventInv, EventsAreDistinct
  <2>2. \A e, f \in events' : e.stamp = f.stamp => e = f
    BY <1>1, <1>3, <1>4, <1>5 DEF EventInv, EventsAreDistinct
  <2> QED
    BY <2>1, <2>2 DEF EventsAreDistinct
<1>9. NewestIsKept'
  <2>1. perception.last_clock \in Int /\ perception.last_clock <= clock
    BY DEF EventInv, EventTypeOK, GateTypeOK, NewestIsKept, Snapshot
  <2> QED
    BY <1>1, <1>6, <2>1 DEF EventInv, NewestIsKept
<1> QED
  BY <1>1, <1>2, <1>7, <1>8, <1>9 DEF EventInv, EventTypeOK

\* Nobody but a frame and a delivery changes what the invariant is about.
LEMMA OthersKeepEvents ==
    ASSUME EventInv, GateTypeOK', level' = level, newest' = newest,
           events' \subseteq events, perception' = perception,
           clock' \in {clock, clock + 1}
    PROVE  EventInv'
<1>1. clock \in Int /\ clock <= clock'
  BY DEF EventInv, EventTypeOK, GateTypeOK
<1>2. \A e \in events : e.stamp \in Int
  BY DEF EventInv, EventTypeOK, Event
<1>3. newest.stamp \in Int /\ perception.last_clock \in Int
  BY DEF EventInv, EventTypeOK, GateTypeOK, Snapshot, Event, NoEvent
<1>4. NewestIsKept'
  <2>1. newest.stamp <= clock' /\ perception.last_clock <= clock'
    BY <1>1, <1>3 DEF EventInv, NewestIsKept, EventTypeOK, GateTypeOK
  <2> QED
    BY <2>1 DEF EventInv, NewestIsKept
<1>5. EventsAreDistinct'
  BY <1>1, <1>2 DEF EventInv, EventsAreDistinct
<1> QED
  BY <1>4, <1>5 DEF EventInv, EventTypeOK

\* The gate's order check and the history agree on which event is newer.
LEMMA DeliveryKeepsEvents ==
    ASSUME EventInv, NEW event \in events, DeliverEvent(event)
    PROVE  EventInv'
<1>1. /\ event \in Event /\ event.stamp \in 1..MaxTime /\ event.state \in PerceptionStates
      /\ event.stamp <= clock /\ event.stamp # newest.stamp
      /\ event.stamp \in Int /\ newest.stamp \in Int /\ newest.stamp >= 0
      /\ clock \in Int /\ PerceptionTimeout \in Int
  BY GateAssumption
  DEF EventInv, EventTypeOK, EventsAreDistinct, GateTypeOK, Event, NoEvent
<1>2. GateTypeOK'
  <2>1. event.stamp \in 0..MaxTime
    BY <1>1
  <2> QED
    BY <1>1, <2>1, PerceptionEventType DEF DeliverEvent, EventInv, EventTypeOK
<1>3. /\ level' = level /\ clock' = clock /\ events' = events \ {event}
      /\ perception' = UpdatePerceptionSafetySnapshot(TRUE, event.state, event.stamp)
  BY DEF DeliverEvent, HandlePerceptionEvent, policyVars, timeVars
<1> DEFINE newer == clock - event.stamp <= PerceptionTimeout /\ event.stamp > newest.stamp
<1>4. newest' = IF newer THEN event ELSE newest
  BY <1>1 DEF DeliverEvent
<1>5. perception' = IF newer
                    THEN [received |-> TRUE, state |-> event.state, stamp |-> event.stamp,
                          last_clock |-> clock]
                    ELSE [perception EXCEPT !.last_clock = clock]
  <2>1. ~(clock < perception.last_clock)
    BY DEF EventInv, EventTypeOK, GateTypeOK, NewestIsKept, Snapshot
  <2>2. event.stamp > 0 /\ (perception.received <=> newest.stamp > 0)
        /\ perception.stamp = newest.stamp
    BY <1>1 DEF EventInv, NewestIsKept
  <2> QED
    BY <1>1, <1>3, <2>1, <2>2 DEF UpdatePerceptionSafetySnapshot
<1>6. NewestIsKept'
  <2>1. /\ perception \in Snapshot /\ (perception.received <=> newest.stamp > 0)
        /\ perception.stamp = newest.stamp /\ perception.state = newest.state
        /\ newest.stamp <= clock
    BY DEF EventInv, EventTypeOK, GateTypeOK, NewestIsKept
  <2>2. CASE newer
    <3>1. newest' = event /\ event.stamp > 0 /\ event.stamp <= clock
      BY <1>1, <1>4, <2>2
    <3>2. /\ perception'.received = TRUE /\ perception'.stamp = event.stamp
          /\ perception'.state = event.state /\ perception'.last_clock = clock
      BY <1>5, <2>2
    <3>3. clock' = clock
      BY <1>3
    <3> HIDE DEF newer
    <3> QED
      BY <1>1, <3>1, <3>2, <3>3 DEF NewestIsKept
  <2>3. CASE ~newer
    <3>1. newest' = newest
      BY <1>4, <2>3
    <3>2. /\ perception'.received = perception.received /\ perception'.stamp = perception.stamp
          /\ perception'.state = perception.state /\ perception'.last_clock = clock
      BY <1>5, <2>1, <2>3 DEF Snapshot
    <3>3. clock' = clock
      BY <1>3
    <3> HIDE DEF newer
    <3> QED
      BY <1>1, <2>1, <3>1, <3>2, <3>3 DEF NewestIsKept
  <2> QED
    BY <2>2, <2>3
<1>7. EventsAreDistinct'
  <2>1. \A e \in events' : e \in events /\ e.stamp # newest.stamp /\ e.stamp # event.stamp
    BY <1>3 DEF EventInv, EventsAreDistinct
  <2>2. \A e \in events' : e.stamp # newest'.stamp
    BY <1>4, <2>1
  <2> QED
    BY <1>3, <2>1, <2>2 DEF EventInv, EventsAreDistinct
<1> QED
  BY <1>1, <1>2, <1>3, <1>4, <1>6, <1>7 DEF EventInv, EventTypeOK

LEMMA OtherInputsKeepEvents ==
    ASSUME EventInv, OtherInputs
    PROVE  EventInv'
<1>1. GateTypeOK'
  <2>1. GateTypeOK
    BY DEF EventInv, EventTypeOK
  <2> QED
    BY <2>1, OtherInputsType, TakeoverType, ChassisStateStepType, EmergencyStopType, TimeType
    DEF OtherInputs, ServiceStep, TimeStep
<1>2. UNCHANGED <<perception, clock>>
  BY DEF OtherInputs, HandleTwist, HandleTakeover, HandleRuntimeSafety,
         HandleLocalizationHealth, HandleSensor, HandleChassisState, ServiceStep,
         EnableEmergencyStop, ClearEmergencyStop, GoesStale, GraceEnds, timeVars
<1> QED
  BY <1>1, <1>2, OthersKeepEvents DEF OtherInputs, otherVars, policyVars, historyVars

LEMMA EventStep ==
    ASSUME EventInv, [PerceptionNext \/ OtherInputs]_perceptionVars
    PROVE  EventInv'
<1>0. GateTypeOK
  BY DEF EventInv, EventTypeOK
<1>1. CASE \E event \in events : LoseEvent(event)
  <2>1. UNCHANGED gateVars /\ UNCHANGED <<policyVars, historyVars>> /\ events' \subseteq events
    BY <1>1 DEF LoseEvent
  <2>2. UNCHANGED <<level, newest, perception, clock>> /\ GateTypeOK'
    BY <1>0, <2>1, GateStutters DEF policyVars, historyVars, gateVars, timeVars
  <2> QED
    BY <2>1, <2>2, OthersKeepEvents
<1>2. CASE GateStep
  <2>1. GateTypeOK' /\ perception' = perception /\ clock' \in {clock, clock + 1}
    BY <1>0, <1>2, GateTickType, ClockTickType DEF GateStep, GateTick, ClockTick, timeVars
  <2> QED
    BY <1>2, <2>1, OthersKeepEvents DEF GateStep, policyVars, historyVars
<1>3. CASE UNCHANGED perceptionVars
  <2>1. UNCHANGED <<level, newest, events, perception, clock>> /\ GateTypeOK'
    BY <1>0, <1>3, GateStutters
    DEF perceptionVars, policyVars, historyVars, gateVars, timeVars
  <2> QED
    BY <2>1, OthersKeepEvents
<1> QED
  BY <1>1, <1>2, <1>3, FrameKeepsEvents, DeliveryKeepsEvents, OtherInputsKeepEvents
  DEF PerceptionNext

(***************************************************************************)
(* Events may be late, lost and overtaken: with every stop switched on,    *)
(* the gate publishes a standstill as long as the newest event it was      *)
(* given in time is a stop and is not too old, whatever its other inputs   *)
(* are, a takeover by hand or a speed limit among them.                    *)
(***************************************************************************)
THEOREM NewestStopsAreObeyed ==
    ASSUME StopSwitches \subseteq Switches
    PROVE  OpenSpec => NewestStopIsObeyed
<1>1. ASSUME EventInv, GateTick, newest.state = "STOP",
             clock - newest.stamp <= PerceptionTimeout
      PROVE  cmd_vel' = 0
  <2>1. /\ perception.state = "STOP" /\ perception.stamp = newest.stamp
        /\ perception.received /\ newest.stamp <= clock
        /\ newest.stamp \in Int /\ clock \in Int
    BY <1>1
    DEF EventInv, EventTypeOK, GateTypeOK, NewestIsKept, NoEvent, Event
  <2>2. PerceptionSafetyContribution = "STOP"
    BY <1>1, <2>1 DEF PerceptionSafetyContribution, PerceptionSafetyInputIsFresh
  <2>3. "STOP" \in Causes \cap HardStops
    BY <2>2 DEF Causes, ReportedCauses, HardStops
  <2> QED
    BY <1>1, <2>3, GateTickStops DEF EventInv, EventTypeOK
<1>2. EventInv /\ [PerceptionNext \/ OtherInputs]_perceptionVars => EventInv'
  BY EventStep
<1>3. EventInv
      => [ (GateTick /\ newest.state = "STOP" /\ clock - newest.stamp <= PerceptionTimeout)
              => cmd_vel' = 0 ]_perceptionVars
  BY <1>1
<1> QED
  BY <1>2, <1>3, EventsInitially, PTL DEF OpenSpec, NewestStopIsObeyed

(***************************************************************************)
(* The same of the system that the runs check.                             *)
(***************************************************************************)
COROLLARY NewestStopsAreObeyedByChain ==
    ASSUME StopSwitches \subseteq Switches
    PROVE  PerceptionSpec => NewestStopIsObeyed
<1>1. [PerceptionNext]_perceptionVars => [PerceptionNext \/ OtherInputs]_perceptionVars
  OBVIOUS
<1> QED
  BY <1>1, NewestStopsAreObeyed, PTL DEF PerceptionSpec, OpenSpec

-----------------------------------------------------------------------------
(* The tracker's matching, for the frames of the detector: at most one      *)
(* person and one other thing.                                             *)

\* A set of numbers has a least one.
LEMMA LeastNumber ==
    ASSUME NEW S \in SUBSET Nat, S # {}
    PROVE  \E k \in S : \A j \in S : k <= j
<1>1. PICK k \in S : \A j \in S : ~(<<j, k>> \in OpToRel(<, Nat))
  BY NatLessThanWellFounded, WFMin, Zenon
<1>2. ASSUME NEW j \in S PROVE k <= j
  <2>1. j \in Nat /\ k \in Nat
    BY <1>1
  <2>2. ~(j < k)
    <3>1. j < k => <<j, k>> \in OpToRel(<, Nat)
      BY <2>1 DEF OpToRel
    <3> QED
      BY <3>1, <1>1
  <2> QED
    BY <2>1, <2>2
<1> QED
  BY <1>2

\* One round of the matching: the nearest of the pairs that are still free.
FreePairs(ts, observations, matched) ==
    {p \in Pairs(ts, observations) : \A q \in matched : p[1] # q[1] /\ p[2] # q[2]}
Nearest(free, observations) == {p \in free : \A q \in free : Nearer(p, q, observations)}
Round(ts, observations, matched) ==
    matched \cup Nearest(FreePairs(ts, observations, matched), observations)

LEMMA MatchedInRounds ==
    ASSUME NEW ts, NEW observations, Len(observations) \in 0..2
    PROVE  Matched(ts, observations) =
               CASE Len(observations) = 0 -> {}
                 [] Len(observations) = 1 -> Round(ts, observations, {})
                 [] Len(observations) = 2 -> Round(ts, observations, Round(ts, observations, {}))
<1> DEFINE n == Len(observations)
           IsRound(f) == f = [i \in 0..n |-> IF i = 0 THEN {}
                                             ELSE Round(ts, observations, f[i - 1])]
           round == CHOOSE f : IsRound(f)
           one == Round(ts, observations, {})
           two == Round(ts, observations, one)
           g == [i \in 0..n |-> IF i = 0 THEN {} ELSE IF i = 1 THEN one ELSE two]
<1>1. Matched(ts, observations) = round[n]
  BY DEF Matched, Round, FreePairs, Nearest
<1>2. IsRound(g)
  <2>1. \A i \in 0..n : g[i] = IF i = 0 THEN {} ELSE Round(ts, observations, g[i - 1])
    <3> HIDE DEF n
    <3>1. n \in 0..2
      BY DEF n
    <3>2. ASSUME NEW i \in 0..n
          PROVE  g[i] = IF i = 0 THEN {} ELSE Round(ts, observations, g[i - 1])
      <4>1. i \in {0, 1, 2} /\ (i = 1 => 0 \in 0..n) /\ (i = 2 => 1 \in 0..n)
        BY <3>1
      <4>2. CASE i = 0
        BY <4>2
      <4>3. CASE i = 1
        <5>1. g[1] = one /\ g[0] = {}
          BY <4>1, <4>3
        <5>2. i # 0 /\ i - 1 = 0 /\ one = Round(ts, observations, {})
          BY <4>3
        <5> HIDE DEF g, one, two
        <5> QED
          BY <4>3, <5>1, <5>2
      <4>4. CASE i = 2
        <5>1. g[2] = two /\ g[1] = one
          BY <4>1, <4>4
        <5>2. i # 0 /\ i - 1 = 1 /\ two = Round(ts, observations, one)
          BY <4>4
        <5> HIDE DEF g, one, two
        <5> QED
          BY <4>4, <5>1, <5>2
      <4> QED
        BY <4>1, <4>2, <4>3, <4>4
    <3> QED
      BY <3>2
  <2> HIDE DEF n, one, two
  <2>2. g = [i \in 0..n |-> g[i]]
    OBVIOUS
  <2> HIDE DEF g
  <2> QED
    BY <2>1, <2>2, Zenon
<1>3. IsRound(round)
  <2> HIDE DEF IsRound, g
  <2> QED
    BY <1>2
<1> HIDE DEF round, g
<1>4. /\ round[0] = {} /\ (n = 1 => round[1] = one)
      /\ (n = 2 => round[2] = two)
  <2>1. \A i \in 0..n : round[i] = IF i = 0 THEN {} ELSE Round(ts, observations, round[i - 1])
    BY <1>3
  <2> HIDE DEF n
  <2>2. n \in 0..2
    BY DEF n
  <2>3. round[0] = {}
    BY <2>1, <2>2
  <2>4. n >= 1 => round[1] = one
    BY <2>1, <2>2, <2>3
  <2>5. n = 2 => round[2] = two
    BY <2>1, <2>2, <2>4
  <2> QED
    BY <2>3, <2>4, <2>5
<1>5. n \in {0, 1, 2}
  OBVIOUS
<1> HIDE DEF n, one, two
<1>6. Matched(ts, observations) = IF n = 0 THEN {} ELSE IF n = 1 THEN one ELSE two
  BY <1>1, <1>4, <1>5
<1> QED
  BY <1>5, <1>6 DEF n, one, two

\* What the targets and observations need for their pairs to be compared.
Comparable(ts, observations) ==
    /\ Len(observations) \in 0..2 /\ DOMAIN observations = 1..Len(observations)
    /\ \A t \in ts : t.id \in Nat /\ t.place \in Nat
    /\ \A t, u \in ts : t.id = u.id => t = u
    /\ \A k \in DOMAIN observations : observations[k].place \in Nat

LEMMA ApartType ==
    ASSUME NEW a \in Nat, NEW b \in Nat
    PROVE  Apart(a, b) \in Nat
  BY DEF Apart

\* Of the pairs that are free there is a nearest one, and one only.
LEMMA OneIsNearest ==
    ASSUME NEW ts, NEW observations, Comparable(ts, observations),
           NEW free \in SUBSET Pairs(ts, observations), free # {}
    PROVE  \E p \in free : Nearest(free, observations) = {p}
<1> DEFINE far(p) == Apart(p[1].place, observations[p[2]].place)
<1>1. ASSUME NEW p \in free
      PROVE  /\ p = <<p[1], p[2]>> /\ p[1] \in ts /\ p[2] \in Nat
             /\ far(p) \in Nat /\ p[1].id \in Nat
  <2>1. p = <<p[1], p[2]>> /\ p[1] \in ts /\ p[2] \in DOMAIN observations
    BY DEF Pairs
  <2>2. p[2] \in Nat /\ p[1].id \in Nat /\ p[1].place \in Nat /\ observations[p[2]].place \in Nat
    BY <2>1 DEF Comparable
  <2> QED
    BY <2>1, <2>2, ApartType
<1>2. \A p, q \in free : Nearer(p, q, observations)
          <=> \/ far(p) < far(q)
              \/ far(p) = far(q) /\ p[1].id < q[1].id
              \/ far(p) = far(q) /\ p[1].id = q[1].id /\ p[2] <= q[2]
  BY DEF Nearer
<1> HIDE DEF far
<1>3. PICK a \in free : \A q \in free : far(a) <= far(q)
  <2> DEFINE S == {far(p) : p \in free}
  <2>1. S \in SUBSET Nat /\ S # {}
    BY <1>1
  <2>2. PICK d \in S : \A e \in S : d <= e
    <3> HIDE DEF S
    <3> QED BY <2>1, LeastNumber, Zenon
  <2> QED
    BY <2>2
<1>4. PICK b \in free : /\ far(b) = far(a)
                        /\ \A q \in free : far(q) = far(a) => b[1].id <= q[1].id
  <2> DEFINE S == {p[1].id : p \in {q \in free : far(q) = far(a)}}
  <2>1. S \in SUBSET Nat /\ S # {}
    BY <1>1
  <2>2. PICK d \in S : \A e \in S : d <= e
    <3> HIDE DEF S
    <3> QED BY <2>1, LeastNumber, Zenon
  <2> QED
    BY <2>2
<1>5. PICK c \in free : /\ far(c) = far(a) /\ c[1].id = b[1].id
                        /\ \A q \in free : far(q) = far(a) /\ q[1].id = b[1].id => c[2] <= q[2]
  <2> DEFINE S == {p[2] : p \in {q \in free : far(q) = far(a) /\ q[1].id = b[1].id}}
  <2>1. S \in SUBSET Nat /\ S # {}
    BY <1>1, <1>4
  <2>2. PICK d \in S : \A e \in S : d <= e
    <3> HIDE DEF S
    <3> QED BY <2>1, LeastNumber, Zenon
  <2> QED
    BY <2>2
<1>6. ASSUME NEW q \in free  PROVE Nearer(c, q, observations)
  <2>1. far(a) <= far(q) /\ far(a) \in Nat /\ far(q) \in Nat /\ c[1].id \in Nat /\ q[1].id \in Nat
    BY <1>1, <1>3
  <2>2. CASE far(q) # far(a)
    BY <1>2, <1>5, <2>1, <2>2
  <2>3. CASE far(q) = far(a) /\ q[1].id # b[1].id
    BY <1>2, <1>4, <1>5, <2>1, <2>3
  <2>4. CASE far(q) = far(a) /\ q[1].id = b[1].id
    BY <1>2, <1>5, <2>4
  <2> QED
    BY <2>2, <2>3, <2>4
<1>7. ASSUME NEW p \in free, \A q \in free : Nearer(p, q, observations)
      PROVE  p = c
  <2>1. Nearer(p, c, observations) /\ Nearer(c, p, observations)
    BY <1>6, <1>7
  <2>2. /\ far(p) \in Nat /\ far(c) \in Nat /\ p[1].id \in Nat /\ c[1].id \in Nat
        /\ p[2] \in Nat /\ c[2] \in Nat
    BY <1>1
  <2>3. far(p) = far(c)
    BY <1>2, <2>1, <2>2
  <2>4. p[1].id = c[1].id
    BY <1>2, <2>1, <2>2, <2>3
  <2>5. p[2] = c[2]
    BY <1>2, <2>1, <2>2, <2>3, <2>4
  <2>6. p[1] = c[1]
    BY <1>1, <2>4 DEF Comparable
  <2> QED
    BY <1>1, <2>5, <2>6
<1> QED
  BY <1>6, <1>7 DEF Nearest

\* The pairs that are matched share no target and no observation, and no pair is
\* left whose target and observation are both free.
LEMMA MatchedFacts ==
    ASSUME NEW ts, NEW observations, Comparable(ts, observations)
    PROVE  /\ Matched(ts, observations) \subseteq Pairs(ts, observations)
           /\ \A p, q \in Matched(ts, observations) : p[1] = q[1] \/ p[2] = q[2] => p = q
           /\ \A p \in Pairs(ts, observations) :
                 \E q \in Matched(ts, observations) : q[1] = p[1] \/ q[2] = p[2]
<1> DEFINE all == Pairs(ts, observations)
           one == Round(ts, observations, {})
           left == FreePairs(ts, observations, one)
<1>1. \A p \in all : p[2] \in 1..Len(observations)
  BY DEF Pairs, Comparable
<1>2. FreePairs(ts, observations, {}) = all
  BY DEF FreePairs
<1>3. one = Nearest(all, observations)
  BY <1>2 DEF Round
<1>4. all = {} => one = {}
  BY <1>3 DEF Nearest
<1>5. all # {} => \E p \in all : one = {p}
  <2> HIDE DEF one, all
  <2> QED BY <1>3, OneIsNearest DEF all
<1>6. left \subseteq all /\ \A p \in left : \A q \in one : p[1] # q[1] /\ p[2] # q[2]
  BY DEF FreePairs
<1>7. \A p \in all : p \notin left => \E q \in one : q[1] = p[1] \/ q[2] = p[2]
  BY DEF FreePairs
<1>8. Round(ts, observations, one) = one \cup Nearest(left, observations)
  BY DEF Round
<1>9. left # {} => \E p \in left : Nearest(left, observations) = {p}
  <2> HIDE DEF left
  <2> QED BY <1>6, OneIsNearest DEF all
<1>10. left = {} => Nearest(left, observations) = {}
  BY DEF Nearest
<1>11. Len(observations) \in {0, 1, 2}
  BY DEF Comparable
<1> HIDE DEF all, one, left
<1>12. CASE Len(observations) = 0
  <2>1. all = {}
    BY <1>1, <1>12
  <2>2. Matched(ts, observations) = {}
    BY <1>12, MatchedInRounds
  <2> QED
    BY <2>1, <2>2 DEF all
<1>13. CASE Len(observations) = 1
  <2>1. Matched(ts, observations) = one
    BY <1>13, MatchedInRounds DEF one
  <2>2. \A p, q \in all : p[2] = q[2]
    BY <1>1, <1>13
  <2> QED
    BY <1>4, <1>5, <2>1, <2>2 DEF all
<1>14. CASE Len(observations) = 2
  <2>1. Matched(ts, observations) = one \cup Nearest(left, observations)
    BY <1>8, <1>14, MatchedInRounds DEF one
  <2>2. CASE left = {}
    BY <1>4, <1>5, <1>7, <1>10, <2>1, <2>2 DEF all
  <2>3. CASE left # {}
    <3>1. PICK p \in left : Nearest(left, observations) = {p}
      BY <1>9, <2>3
    <3>2. PICK o \in all : one = {o}
      BY <1>5, <1>6, <2>3
    <3>3. o[1] # p[1] /\ o[2] # p[2] /\ p \in all
      BY <1>6, <3>2
    <3>4. \A q \in all : q[2] = o[2] \/ q[2] = p[2]
      BY <1>1, <1>14, <3>3
    <3>5. Matched(ts, observations) = {o, p}
      BY <2>1, <3>1, <3>2
    <3> QED
      BY <3>3, <3>4, <3>5 DEF all
  <2> QED
    BY <2>2, <2>3
<1> QED
  BY <1>11, <1>12, <1>13, <1>14

\* An observation is added to the accepted ones unless one of them is the same.
Accept(accepted, observations, n) ==
    IF \E k \in accepted : SameThing(observations[k], observations[n])
    THEN accepted ELSE accepted \cup {n}

LEMMA AcceptedInTurn ==
    ASSUME NEW observations, NEW matched, Len(observations) \in 0..2
    PROVE  /\ Len(observations) = 0
                => Accepted(matched, observations) = {p[2] : p \in matched}
           /\ Len(observations) = 1
                => Accepted(matched, observations) = Accept({p[2] : p \in matched}, observations, 1)
           /\ Len(observations) = 2
                => Accepted(matched, observations) =
                       Accept(Accept({p[2] : p \in matched}, observations, 1), observations, 2)
<1> DEFINE n == Len(observations)
           zero == {p[2] : p \in matched}
           IsAccepted(f) == f = [i \in 0..n |-> IF i = 0 THEN zero
                                                ELSE Accept(f[i - 1], observations, i)]
           accepted == CHOOSE f : IsAccepted(f)
           one == Accept(zero, observations, 1)
           two == Accept(one, observations, 2)
           g == [i \in 0..n |-> IF i = 0 THEN zero ELSE IF i = 1 THEN one ELSE two]
<1>1. Accepted(matched, observations) = accepted[n]
  BY DEF Accepted, Accept
<1>2. IsAccepted(g)
  <2>1. \A i \in 0..n : g[i] = IF i = 0 THEN zero ELSE Accept(g[i - 1], observations, i)
    <3> HIDE DEF n, zero
    <3>1. n \in 0..2
      BY DEF n
    <3>2. ASSUME NEW i \in 0..n
          PROVE  g[i] = IF i = 0 THEN zero ELSE Accept(g[i - 1], observations, i)
      <4>1. i \in {0, 1, 2} /\ (i = 1 => 0 \in 0..n) /\ (i = 2 => 1 \in 0..n)
        BY <3>1
      <4>2. CASE i = 0
        BY <4>2
      <4>3. CASE i = 1
        <5>1. g[1] = one /\ g[0] = zero
          BY <4>1, <4>3
        <5>2. i # 0 /\ i - 1 = 0 /\ one = Accept(zero, observations, 1)
          BY <4>3
        <5> HIDE DEF g, one, two
        <5> QED
          BY <4>3, <5>1, <5>2
      <4>4. CASE i = 2
        <5>1. g[2] = two /\ g[1] = one
          BY <4>1, <4>4
        <5>2. i # 0 /\ i - 1 = 1 /\ two = Accept(one, observations, 2)
          BY <4>4
        <5> HIDE DEF g, one, two
        <5> QED
          BY <4>4, <5>1, <5>2
      <4> QED
        BY <4>1, <4>2, <4>3, <4>4
    <3> QED
      BY <3>2
  <2> HIDE DEF n, zero, one, two
  <2>2. g = [i \in 0..n |-> g[i]]
    OBVIOUS
  <2> HIDE DEF g
  <2> QED
    BY <2>1, <2>2, Zenon
<1>3. IsAccepted(accepted)
  <2> HIDE DEF IsAccepted, g
  <2> QED
    BY <1>2
<1> HIDE DEF accepted, g
<1>4. /\ accepted[0] = zero /\ (n = 1 => accepted[1] = one)
      /\ (n = 2 => accepted[2] = two)
  <2>1. \A i \in 0..n : accepted[i] = IF i = 0 THEN zero
                                      ELSE Accept(accepted[i - 1], observations, i)
    BY <1>3
  <2> HIDE DEF n, zero
  <2>2. n \in 0..2
    BY DEF n
  <2>3. accepted[0] = zero
    BY <2>1, <2>2
  <2>4. n >= 1 => accepted[1] = one
    BY <2>1, <2>2, <2>3
  <2>5. n = 2 => accepted[2] = two
    BY <2>1, <2>2, <2>4
  <2> QED
    BY <2>3, <2>4, <2>5
<1>5. n \in {0, 1, 2}
  OBVIOUS
<1> HIDE DEF n, zero, one, two
<1>6. /\ n = 0 => Accepted(matched, observations) = zero
      /\ n = 1 => Accepted(matched, observations) = one
      /\ n = 2 => Accepted(matched, observations) = two
  BY <1>1, <1>4
<1> QED
  BY <1>6, Zenon DEF n, zero, one, two

\* A frame of the detector: at most one person, who comes first, and one thing.
Frame(observations) ==
    /\ Len(observations) \in 0..2 /\ DOMAIN observations = 1..Len(observations)
    /\ \A k \in DOMAIN observations :
          /\ observations[k].class \in {"person", "thing"} /\ observations[k].place \in Nat
          /\ observations[k].class = "person" => k = 1 /\ observations[k].place \in Places

LEMMA ObservationsAreFrames ==
    ASSUME NEW person, NEW thing \in BOOLEAN
    PROVE  /\ Frame(Observations(person, thing))
           /\ \A k \in DOMAIN Observations(person, thing) :
                 Observations(person, thing)[k].class = "person"
                     => person \in Places /\ Observations(person, thing)[k].place = person
           /\ person \in Places => /\ 1 \in DOMAIN Observations(person, thing)
                                   /\ Observations(person, thing)[1].class = "person"
                                   /\ Observations(person, thing) # <<>>
<1> DEFINE p == [class |-> "person", place |-> person]
           t == [class |-> "thing", place |-> ClearPlace]
           observations == Observations(person, thing)
<1>1. Places \subseteq Nat /\ ClearPlace \in Nat
  BY PolicyAssumption
<1>2. CASE person \in Places /\ thing
  <2> HIDE DEF p, t
  <2>1. observations = <<p>> \o <<t>>
    BY <1>2 DEF Observations, p, t
  <2>2. /\ <<p>> \in Seq({p, t}) /\ <<t>> \in Seq({p, t})
        /\ Len(<<p>>) = 1 /\ Len(<<t>>) = 1 /\ <<p>>[1] = p /\ <<t>>[1] = t
    OBVIOUS
  <2> HIDE DEF observations
  <2>3. /\ observations \in Seq({p, t}) /\ Len(observations) = 2
        /\ observations[1] = p /\ observations[2] = t
    BY <2>1, <2>2, ConcatProperties
  <2>4. /\ Len(observations) = 2 /\ DOMAIN observations = 1..2
        /\ observations[1] = p /\ observations[2] = t /\ observations # <<>>
    BY <2>3
  <2>5. \A k \in DOMAIN observations : k = 1 \/ k = 2
    BY <2>4
  <2>6. /\ p.class = "person" /\ p.place = person
        /\ t.class = "thing" /\ t.place = ClearPlace
    BY DEF p, t
  <2>7. Frame(observations)
    BY <1>1, <1>2, <2>4, <2>5, <2>6 DEF Frame
  <2>8. \A k \in DOMAIN observations :
           observations[k].class = "person" => observations[k].place = person
    BY <2>4, <2>5, <2>6
  <2>9. 1 \in DOMAIN observations /\ observations[1].class = "person"
    BY <2>4, <2>6
  <2> QED
    BY <1>2, <2>4, <2>7, <2>8, <2>9, Zenon DEF observations
<1>3. CASE person \in Places /\ ~thing
  <2>1. observations = <<p>>
    BY <1>3 DEF Observations
  <2> HIDE DEF observations
  <2> QED
    BY <1>1, <1>3, <2>1 DEF Frame, observations
<1>4. CASE person \notin Places /\ thing
  <2> HIDE DEF t
  <2>1. observations = <<t>>
    BY <1>4 DEF Observations, t
  <2> HIDE DEF observations
  <2>2. /\ Len(observations) = 1 /\ DOMAIN observations = 1..1 /\ observations[1] = t
    BY <2>1
  <2>3. \A k \in DOMAIN observations : k = 1
    BY <2>2
  <2>4. t.class = "thing" /\ t.place = ClearPlace
    BY DEF t
  <2>5. Frame(observations)
    BY <1>1, <2>2, <2>3, <2>4 DEF Frame
  <2> QED
    BY <1>4, <2>2, <2>3, <2>4, <2>5 DEF observations
<1>5. CASE person \notin Places /\ ~thing
  <2>1. observations = <<>>
    BY <1>5 DEF Observations
  <2> HIDE DEF observations
  <2> QED
    BY <1>1, <1>5, <2>1 DEF Frame, observations
<1> QED
  BY <1>2, <1>3, <1>4, <1>5

\* What becomes a new target is no match, and a person without a match does.
LEMMA NewFacts ==
    ASSUME NEW observations, Frame(observations), NEW matched,
           \A p \in matched : p[2] \in DOMAIN observations
    PROVE  /\ New(matched, observations) \subseteq DOMAIN observations
           /\ \A n \in New(matched, observations) : \A p \in matched : p[2] # n
           /\ \A k \in DOMAIN observations :
                 observations[k].class = "person" /\ (\A p \in matched : p[2] # k)
                     => k \in New(matched, observations)
<1> DEFINE first == {p[2] : p \in matched}
           one == Accept(first, observations, 1)
           two == Accept(one, observations, 2)
<1>1. first \subseteq DOMAIN observations
  OBVIOUS
<1>2. New(matched, observations) = Accepted(matched, observations) \ first
  BY DEF New
<1>3. Len(observations) \in {0, 1, 2}
  BY DEF Frame
<1>4. /\ Len(observations) = 0 => Accepted(matched, observations) = first
      /\ Len(observations) = 1 => Accepted(matched, observations) = one
      /\ Len(observations) = 2 => Accepted(matched, observations) = two
  <2>1. Len(observations) \in 0..2
    BY DEF Frame
  <2> QED
    BY <2>1, AcceptedInTurn, Zenon DEF first, one, two
<1> HIDE DEF first
<1>5. Accepted(matched, observations) \subseteq DOMAIN observations
  <2>1. Len(observations) >= 1 => one \subseteq DOMAIN observations
    BY <1>1, <1>3 DEF Accept, Frame
  <2> HIDE DEF one
  <2>2. Len(observations) = 2 => two \subseteq DOMAIN observations
    BY <1>1, <1>3, <2>1 DEF Accept, Frame
  <2> HIDE DEF two
  <2> QED
    BY <1>1, <1>3, <1>4, <2>1, <2>2
<1>6. ASSUME NEW k \in DOMAIN observations, observations[k].class = "person", k \notin first
      PROVE  k \in Accepted(matched, observations)
  <2>1. k = 1 /\ Len(observations) >= 1
    BY <1>6 DEF Frame
  <2>2. \A j \in first : observations[j].class # "person"
    BY <1>1, <1>6, <2>1 DEF Frame
  <2>3. 1 \in one
    BY <1>6, <2>1, <2>2 DEF Accept, SameThing
  <2> HIDE DEF one
  <2>4. 1 \in two
    BY <2>3 DEF Accept
  <2> QED
    BY <1>3, <1>4, <2>1, <2>3, <2>4
<1> QED
  BY <1>2, <1>5, <1>6 DEF first

\* The numbers new targets get: distinct ones below the next.
LEMMA NewIds ==
    ASSUME NEW new \in SUBSET {1, 2}
    PROVE  /\ Cardinality(new) \in Nat
           /\ \A n \in new : Cardinality({k \in new : k < n}) \in 0..(Cardinality(new) - 1)
           /\ \A m, n \in new : Cardinality({k \in new : k < m}) = Cardinality({k \in new : k < n})
                                  => m = n
<1>1. Cardinality({}) = 0 /\ Cardinality({1}) = 1 /\ Cardinality({2}) = 1
  BY FS_EmptySet, FS_Singleton
<1>2. Cardinality({1, 2}) = 2
  <2>1. IsFiniteSet({1})
    BY FS_Singleton, Zenon
  <2>2. 2 \notin {1} /\ {1} \cup {2} = {1, 2}
    OBVIOUS
  <2>3. Cardinality({1} \cup {2}) = Cardinality({1}) + 1
    BY <2>1, <2>2, FS_AddElement, Zenon
  <2> QED
    BY <1>1, <2>2, <2>3
<1>3. {k \in new : k < 1} = {}
  <2>1. \A k \in new : ~(k < 1)
    <3>1. \A k \in new : k = 1 \/ k = 2
      OBVIOUS
    <3> QED
      BY <3>1
  <2> QED
    BY <2>1
<1>4. CASE new = {}
  BY <1>1, <1>4
<1>5. CASE new = {1}
  BY <1>1, <1>3, <1>5
<1>6. CASE new = {2}
  <2>1. {k \in new : k < 2} = {}
    BY <1>6
  <2> QED
    BY <1>1, <1>6, <2>1
<1>7. CASE new = {1, 2}
  <2>1. {k \in new : k < 2} = {1}
    BY <1>7
  <2>2. \A n \in new : n = 1 \/ n = 2
    BY <1>7
  <2>3. Cardinality(new) = 2
    BY <1>2, <1>7
  <2>4. Cardinality({k \in new : k < 1}) = 0 /\ Cardinality({k \in new : k < 2}) = 1
    BY <1>1, <1>3, <1>7, <2>1
  <2> QED
    BY <2>2, <2>3, <2>4
<1>8. new = {} \/ new = {1} \/ new = {2} \/ new = {1, 2}
  OBVIOUS
<1> QED
  BY <1>4, <1>5, <1>6, <1>7, <1>8

-----------------------------------------------------------------------------
(* What a frame makes of the targets. *)

\* The targets of a perception that marks none as processed.
TrackedTarget ==
    [id : 1..MaxId, class : {"person", "thing"}, place : Nat, hits : 1..ConfirmFrames,
     missed : 0..(RetirementFrames + 1), seen : 0..MaxTime, processed_at : {0},
     state : {"TENTATIVE", "CONFIRMED", "LOST"}]

\* The state of a target says how often it was seen and missed.
GoodTarget(t) ==
    /\ t \in TrackedTarget
    /\ t.state = "CONFIRMED" => t.hits = ConfirmFrames
    /\ t.state = "TENTATIVE" => t.hits < ConfirmFrames
    /\ t.state = "LOST" <=> t.missed >= LostFrames

\* The filter of places.
LEMMA FilteredPlaceType ==
    ASSUME NEW previous \in Nat, NEW current \in Nat
    PROVE  FilteredPlace(previous, current) \in Nat
<1> DEFINE sum == EmaAlpha * current + (10 - EmaAlpha) * previous
<1>1. EmaAlpha \in Nat /\ 10 - EmaAlpha \in Nat
  BY TrackingAssumption
<1>2. sum \in Nat
  <2>1. \A m, n \in Nat : m * n \in Nat
    OBVIOUS
  <2>2. EmaAlpha * current \in Nat /\ (10 - EmaAlpha) * previous \in Nat
    BY <1>1, <2>1
  <2> QED
    BY <2>2
<1> HIDE DEF sum
<1>3. sum \div 10 \in Nat
  BY <1>2
<1> QED
  BY <1>3 DEF FilteredPlace, sum

\* A frame in which a target is seen.
LEMMA HitFacts ==
    ASSUME NEW t, GoodTarget(t), NEW stamp \in 0..MaxTime, NEW observation,
           observation.place \in Nat
    PROVE  LET hit == UpdateMatchedTarget(t, observation, stamp)
           IN  /\ GoodTarget(hit) /\ hit.id = t.id /\ hit.class = t.class
               /\ hit.seen = stamp /\ hit.missed = 0
               /\ hit.hits = AtMost(t.hits + 1, ConfirmFrames)
<1> DEFINE hits == AtMost(t.hits + 1, ConfirmFrames)
           state == StateAfterHit(t.state, hits)
           hit == UpdateMatchedTarget(t, observation, stamp)
           place == FilteredPlace(t.place, observation.place)
           new == [id |-> t.id, class |-> t.class, place |-> place, hits |-> hits,
                   missed |-> 0, seen |-> stamp, processed_at |-> t.processed_at,
                   state |-> state]
<1>1. /\ t \in TrackedTarget /\ t.id \in 1..MaxId /\ t.class \in {"person", "thing"}
      /\ t.place \in Nat /\ t.hits \in 1..ConfirmFrames /\ t.processed_at = 0
      /\ t.state \in {"TENTATIVE", "CONFIRMED", "LOST"}
  BY DEF GoodTarget, TrackedTarget
<1>2. /\ ConfirmFrames \in Nat \ {0} /\ LostFrames \in Nat \ {0} /\ RetirementFrames \in Nat
      /\ RetirementFrames + 1 \in Nat
  BY TrackingAssumption
<1>3. hit = new
  <2>1. t.state # "PROCESSED" /\ ~CooldownExpired(t, stamp)
    BY <1>1 DEF CooldownExpired
  <2>2. hit = [[t EXCEPT !.place = place, !.seen = stamp, !.missed = 0]
                   EXCEPT !.hits = hits, !.state = StateAfterHit(@, hits)]
    BY <2>1 DEF UpdateMatchedTarget
  <2> HIDE DEF hits, hit, place
  <2>3. t = [id |-> t.id, class |-> t.class, place |-> t.place, hits |-> t.hits,
             missed |-> t.missed, seen |-> t.seen, processed_at |-> t.processed_at,
             state |-> t.state]
    BY <1>1 DEF TrackedTarget
  <2> QED
    BY <2>2, <2>3
<1>4. /\ hits \in 1..ConfirmFrames /\ hits <= ConfirmFrames
      /\ t.hits = ConfirmFrames => hits = ConfirmFrames
  BY <1>1, <1>2 DEF AtMost
<1>p. place \in Nat
  BY <1>1, FilteredPlaceType
<1> HIDE DEF hits, hit, place
<1>5. /\ state \in {"TENTATIVE", "CONFIRMED"}
      /\ state = "CONFIRMED" => hits = ConfirmFrames
      /\ state = "TENTATIVE" => hits < ConfirmFrames
  <2>1. t.state = "CONFIRMED" => t.hits = ConfirmFrames
    BY DEF GoodTarget
  <2> QED
    BY <1>1, <1>2, <1>4, <2>1 DEF StateAfterHit
<1> HIDE DEF state
<1>6. new \in TrackedTarget
  BY <1>1, <1>2, <1>4, <1>5, <1>p DEF TrackedTarget
<1>7. /\ new.id = t.id /\ new.class = t.class
      /\ new.seen = stamp /\ new.missed = 0 /\ new.hits = hits /\ new.state = state
  OBVIOUS
<1> HIDE DEF new
<1>8. GoodTarget(new)
  BY <1>2, <1>5, <1>6, <1>7 DEF GoodTarget
<1> QED
  BY <1>3, <1>7, <1>8 DEF hit, hits

\* A frame in which it is not.
LEMMA AgeFacts ==
    ASSUME NEW t, GoodTarget(t), NEW stamp \in 0..MaxTime
    PROVE  LET aged == AgeUnmatchedTarget(t, stamp)
           IN  /\ GoodTarget(aged) /\ aged.id = t.id /\ aged.class = t.class
               /\ aged.place = t.place /\ aged.seen = t.seen /\ aged.missed >= 1
<1> DEFINE missed == AtMost(t.missed + 1, RetirementFrames + 1)
           lost == missed >= LostFrames /\ t.state \in {"TENTATIVE", "CONFIRMED"}
           state == IF lost THEN "LOST" ELSE t.state
           aged == AgeUnmatchedTarget(t, stamp)
           new == [id |-> t.id, class |-> t.class, place |-> t.place, hits |-> t.hits,
                   missed |-> missed, seen |-> t.seen, processed_at |-> t.processed_at,
                   state |-> state]
<1>1. /\ t \in TrackedTarget /\ t.id \in 1..MaxId /\ t.class \in {"person", "thing"}
      /\ t.place \in Nat /\ t.seen \in 0..MaxTime /\ t.hits \in 1..ConfirmFrames
      /\ t.processed_at = 0 /\ t.missed \in 0..(RetirementFrames + 1)
      /\ t.state \in {"TENTATIVE", "CONFIRMED", "LOST"}
  BY DEF GoodTarget, TrackedTarget
<1>2. /\ LostFrames \in Nat \ {0} /\ RetirementFrames \in Nat /\ RetirementFrames >= LostFrames
  BY TrackingAssumption
<1>3. aged = new
  <2>1. ~CooldownExpired(t, stamp)
    BY <1>1 DEF CooldownExpired
  <2>2. aged = [t EXCEPT !.missed = missed, !.state = IF lost THEN "LOST" ELSE @]
    BY <2>1 DEF AgeUnmatchedTarget
  <2> HIDE DEF missed, lost, aged
  <2>3. t = [id |-> t.id, class |-> t.class, place |-> t.place, hits |-> t.hits,
             missed |-> t.missed, seen |-> t.seen, processed_at |-> t.processed_at,
             state |-> t.state]
    BY <1>1 DEF TrackedTarget
  <2> QED
    BY <2>2, <2>3
<1>4. /\ missed \in 0..(RetirementFrames + 1) /\ missed >= 1
      /\ t.missed >= LostFrames => missed >= LostFrames
  BY <1>1, <1>2 DEF AtMost
<1> HIDE DEF missed, aged
<1>5. /\ state \in {"TENTATIVE", "CONFIRMED", "LOST"}
      /\ state # "LOST" => state = t.state
      /\ state = "LOST" <=> missed >= LostFrames
  <2>1. t.state = "LOST" <=> t.missed >= LostFrames
    BY DEF GoodTarget
  <2>2. CASE lost
    BY <2>2
  <2>3. CASE ~lost
    BY <1>1, <1>4, <2>1, <2>3
  <2> QED
    BY <2>2, <2>3
<1> HIDE DEF state
<1>6. new \in TrackedTarget
  BY <1>1, <1>4, <1>5 DEF TrackedTarget
<1>7. /\ new.id = t.id /\ new.class = t.class /\ new.place = t.place /\ new.hits = t.hits
      /\ new.seen = t.seen /\ new.missed = missed /\ new.state = state
  OBVIOUS
<1> HIDE DEF new
<1>8. GoodTarget(new)
  BY <1>5, <1>6, <1>7 DEF GoodTarget
<1> QED
  BY <1>3, <1>4, <1>7, <1>8 DEF aged

\* The first frame of a target.
LEMMA CreateFacts ==
    ASSUME NEW id \in 1..MaxId, NEW stamp \in 0..MaxTime, NEW observation,
           observation.place \in Nat, observation.class \in {"person", "thing"}
    PROVE  LET new == CreateTarget(id, observation, stamp)
           IN  /\ GoodTarget(new) /\ new.id = id /\ new.class = observation.class
               /\ new.seen = stamp /\ new.missed = 0
<1> DEFINE new == CreateTarget(id, observation, stamp)
<1>1. /\ ConfirmFrames \in Nat \ {0} /\ LostFrames \in Nat \ {0} /\ RetirementFrames \in Nat
  BY TrackingAssumption
<1>2. /\ new.id = id /\ new.class = observation.class /\ new.place = observation.place
      /\ new.hits = 1 /\ new.missed = 0 /\ new.seen = stamp /\ new.processed_at = 0
      /\ new.state = IF ConfirmFrames = 1 THEN "CONFIRMED" ELSE "TENTATIVE"
  BY DEF CreateTarget
<1>3. new \in TrackedTarget
  BY <1>1 DEF TrackedTarget, CreateTarget
<1> HIDE DEF new
<1>4. GoodTarget(new)
  BY <1>1, <1>2, <1>3 DEF GoodTarget
<1> QED
  BY <1>2, <1>4 DEF new

\* The targets have names below the next one, and no two have the same.
GoodTargets(ts, next, last) ==
    /\ \A t \in ts : GoodTarget(t) /\ t.id < next /\ t.seen <= last
    /\ \A t, u \in ts : t.id = u.id => t = u

LEMMA TargetsAreComparable ==
    ASSUME NEW ts, NEW next, NEW last, GoodTargets(ts, next, last),
           NEW observations, Frame(observations)
    PROVE  Comparable(ts, observations)
<1>1. \A t \in ts : t.id \in Nat /\ t.place \in Nat
  BY DEF GoodTargets, GoodTarget, TrackedTarget
<1> QED
  BY <1>1 DEF GoodTargets, Frame, Comparable

\* A match is a target and an observation of the same class; the observation of
\* a person is the first.
LEMMA PersonsAreMatched ==
    ASSUME NEW ts, NEW next, NEW last, GoodTargets(ts, next, last),
           NEW observations, Frame(observations), NEW p \in Matched(ts, observations)
    PROVE  /\ p[1] \in ts /\ p[2] \in DOMAIN observations
           /\ observations[p[2]].class = p[1].class
           /\ p[1].class = "person" => p[2] = 1
<1>1. Matched(ts, observations) \subseteq Pairs(ts, observations)
  BY TargetsAreComparable, MatchedFacts
<1>2. /\ p[1] \in ts /\ p[2] \in DOMAIN observations
      /\ SameThing(p[1], observations[p[2]])
  BY <1>1 DEF Pairs
<1>3. observations[p[2]].class = p[1].class
  BY <1>2 DEF SameThing
<1> QED
  BY <1>2, <1>3 DEF Frame

\* Where the targets after a frame come from.
Hit(p, observations, stamp) == UpdateMatchedTarget(p[1], observations[p[2]], stamp)
Created(n, new, next, observations, stamp) ==
    CreateTarget(next + Cardinality({k \in new : k < n}), observations[n], stamp)

LEMMA UpdatedTargets ==
    ASSUME NEW ts, NEW next, NEW observations, NEW stamp,
           NEW matched, matched = Matched(ts, observations),
           NEW new, new = New(matched, observations)
    PROVE  /\ \A u \in UpdateTargets(ts, next, observations, stamp) :
                 \/ \E p \in matched : u = Hit(p, observations, stamp)
                 \/ \E t \in ts : /\ u = AgeUnmatchedTarget(t, stamp)
                                  /\ \A p \in matched : p[1] # t
                 \/ \E n \in new : u = Created(n, new, next, observations, stamp)
           /\ \A p \in matched : ~Expired(Hit(p, observations, stamp), stamp)
                => Hit(p, observations, stamp) \in UpdateTargets(ts, next, observations, stamp)
           /\ \A n \in new : ~Expired(Created(n, new, next, observations, stamp), stamp)
                => Created(n, new, next, observations, stamp)
                       \in UpdateTargets(ts, next, observations, stamp)
  BY DEF UpdateTargets, Hit, Created

\* What a frame needs: names for its new targets, and a stamp that is not old.
MayUpdate(ts, next, last, observations, stamp) ==
    /\ GoodTargets(ts, next, last) /\ Frame(observations)
    /\ next \in Nat \ {0} /\ last \in Nat /\ stamp \in 0..MaxTime /\ last <= stamp
    /\ next + Cardinality(New(Matched(ts, observations), observations)) <= MaxId + 1

\* A target that was matched, one that was not, one that is new.
LEMMA HitTarget ==
    ASSUME NEW ts, NEW next, NEW last, NEW observations, NEW stamp,
           MayUpdate(ts, next, last, observations, stamp),
           NEW p \in Matched(ts, observations),
           NEW hit, hit = Hit(p, observations, stamp)
    PROVE  /\ GoodTarget(hit) /\ hit.id = p[1].id /\ hit.class = p[1].class
           /\ hit.seen = stamp /\ hit.missed = 0
           /\ hit.hits = AtMost(p[1].hits + 1, ConfirmFrames)
<1>1. /\ p[1] \in ts /\ p[2] \in DOMAIN observations
      /\ observations[p[2]].class = p[1].class
  BY PersonsAreMatched DEF MayUpdate
<1>2. GoodTarget(p[1]) /\ stamp \in 0..MaxTime
  BY <1>1 DEF MayUpdate, GoodTargets
<1>3. observations[p[2]].place \in Nat
  BY <1>1 DEF MayUpdate, Frame
<1> QED
  BY <1>2, <1>3, HitFacts DEF Hit

LEMMA CreatedTarget ==
    ASSUME NEW ts, NEW next, NEW last, NEW observations, NEW stamp,
           MayUpdate(ts, next, last, observations, stamp),
           NEW new, new = New(Matched(ts, observations), observations), NEW n \in new,
           NEW u, u = Created(n, new, next, observations, stamp)
    PROVE  /\ n \in DOMAIN observations
           /\ GoodTarget(u) /\ u.class = observations[n].class
           /\ u.id = next + Cardinality({k \in new : k < n})
           /\ next <= u.id /\ u.id < next + Cardinality(new)
           /\ u.seen = stamp /\ u.missed = 0
<1> DEFINE number == Cardinality({k \in new : k < n})
<1>1. \A p \in Matched(ts, observations) : p[2] \in DOMAIN observations
  BY PersonsAreMatched DEF MayUpdate
<1>2. new \subseteq DOMAIN observations
  BY <1>1, NewFacts DEF MayUpdate
<1>3. new \in SUBSET {1, 2}
  BY <1>2 DEF MayUpdate, Frame
<1>4. Cardinality(new) \in Nat /\ number \in 0..(Cardinality(new) - 1)
  BY <1>3, NewIds
<1>5. next + Cardinality(new) <= MaxId + 1 /\ next \in Nat \ {0} /\ MaxId \in Nat
  BY PolicyAssumption DEF MayUpdate
<1> HIDE DEF number
<1>6. /\ next + number \in 1..MaxId /\ next <= next + number
      /\ next + number < next + Cardinality(new)
  BY <1>4, <1>5
<1>7. /\ observations[n].place \in Nat /\ observations[n].class \in {"person", "thing"}
      /\ stamp \in 0..MaxTime /\ n \in DOMAIN observations
  BY <1>2 DEF MayUpdate, Frame
<1>8. u = CreateTarget(next + number, observations[n], stamp)
  BY DEF Created, number
<1>9. /\ GoodTarget(u) /\ u.id = next + number /\ u.class = observations[n].class
      /\ u.seen = stamp /\ u.missed = 0
  BY <1>6, <1>7, <1>8, CreateFacts
<1> QED
  BY <1>6, <1>7, <1>9, Zenon DEF number

LEMMA UpdateKeepsTargets ==
    ASSUME NEW ts, NEW next, NEW last, NEW observations, NEW stamp,
           MayUpdate(ts, next, last, observations, stamp)
    PROVE  GoodTargets(UpdateTargets(ts, next, observations, stamp),
                       next + Cardinality(New(Matched(ts, observations), observations)), stamp)
<1> DEFINE M == Matched(ts, observations)
           N == New(M, observations)
           updated == UpdateTargets(ts, next, observations, stamp)
           hit(p) == Hit(p, observations, stamp)
           aged(t) == AgeUnmatchedTarget(t, stamp)
           created(n) == Created(n, N, next, observations, stamp)
           matched(u) == \E p \in M : u = hit(p)
           missed(u) == \E t \in ts : u = aged(t) /\ \A p \in M : p[1] # t
           isnew(u) == \E n \in N : u = created(n)
<1>1. \A u \in updated : matched(u) \/ missed(u) \/ isnew(u)
  <2>1. M = Matched(ts, observations) /\ N = New(M, observations)
    OBVIOUS
  <2> HIDE DEF M, N
  <2> QED
    BY <2>1, UpdatedTargets
<1>2. ASSUME NEW p \in M
      PROVE  /\ GoodTarget(hit(p)) /\ hit(p).id = p[1].id /\ hit(p).class = p[1].class
             /\ hit(p).seen = stamp /\ p[1] \in ts
  <2>1. p[1] \in ts
    BY PersonsAreMatched DEF MayUpdate
  <2>2. /\ GoodTarget(hit(p)) /\ hit(p).id = p[1].id /\ hit(p).class = p[1].class
        /\ hit(p).seen = stamp
    BY HitTarget
  <2> HIDE DEF hit
  <2> QED
    BY <2>1, <2>2
<1>3. ASSUME NEW t \in ts
      PROVE  /\ GoodTarget(aged(t)) /\ aged(t).id = t.id /\ aged(t).class = t.class
             /\ aged(t).place = t.place /\ aged(t).seen = t.seen
  <2>1. GoodTarget(t) /\ stamp \in 0..MaxTime
    BY DEF MayUpdate, GoodTargets
  <2> QED
    BY <2>1, AgeFacts
<1>4. ASSUME NEW n \in N
      PROVE  /\ GoodTarget(created(n)) /\ n \in DOMAIN observations
             /\ created(n).class = observations[n].class
             /\ created(n).id = next + Cardinality({k \in N : k < n})
             /\ next <= created(n).id /\ created(n).id < next + Cardinality(N)
             /\ created(n).seen = stamp
  <2> HIDE DEF N
  <2>1. N = New(Matched(ts, observations), observations)
    BY DEF N
  <2> HIDE DEF M
  <2>2. /\ n \in DOMAIN observations
        /\ GoodTarget(created(n)) /\ created(n).class = observations[n].class
        /\ created(n).id = next + Cardinality({k \in N : k < n})
        /\ next <= created(n).id /\ created(n).id < next + Cardinality(N)
        /\ created(n).seen = stamp
    BY <2>1, CreatedTarget
  <2> HIDE DEF created
  <2> QED
    BY <2>2
<1>5. \A p, q \in M : p[1] = q[1] \/ p[2] = q[2] => p = q
  BY TargetsAreComparable, MatchedFacts DEF MayUpdate
<1>7. /\ N \subseteq {1, 2}
      /\ \A n \in N : \A p \in M : p[2] # n
  <2>1. \A p \in M : p[2] \in DOMAIN observations
    BY PersonsAreMatched DEF MayUpdate
  <2>2. N \subseteq DOMAIN observations /\ \A n \in N : \A p \in M : p[2] # n
    BY <2>1, NewFacts DEF MayUpdate
  <2> QED
    BY <2>2 DEF MayUpdate, Frame
<1>8. /\ Cardinality(N) \in Nat
      /\ \A m, n \in N : Cardinality({k \in N : k < m}) = Cardinality({k \in N : k < n}) => m = n
  BY <1>7, NewIds
<1>9. /\ \A t \in ts : t.id < next /\ t.id \in Nat /\ t.seen <= last /\ t.seen \in Nat
      /\ \A t, u \in ts : t.id = u.id => t = u
      /\ next \in Nat /\ last \in Nat /\ stamp \in Nat /\ last <= stamp
  BY DEF MayUpdate, GoodTargets, GoodTarget, TrackedTarget
<1> HIDE DEF M, N, updated, hit, aged, created
<1>10. ASSUME NEW u \in updated
       PROVE  GoodTarget(u) /\ u.id < next + Cardinality(N) /\ u.seen <= stamp
  <2>1. CASE matched(u)
    BY <1>2, <1>8, <1>9, <2>1
  <2>2. CASE missed(u)
    <3>1. PICK t \in ts : u = aged(t)
      BY <2>2
    <3>2. GoodTarget(u) /\ u.id = t.id /\ u.seen = t.seen
      BY <1>3, <3>1
    <3>3. t.id < next /\ t.id \in Nat /\ t.seen <= last /\ t.seen \in Nat
      BY <1>9
    <3>4. next \in Nat /\ last \in Nat /\ stamp \in Nat /\ last <= stamp /\ Cardinality(N) \in Nat
      BY <1>8, <1>9
    <3> QED
      BY <3>2, <3>3, <3>4
  <2>3. CASE isnew(u)
    <3>1. PICK n \in N : u = created(n)
      BY <2>3
    <3>2. GoodTarget(u) /\ u.id < next + Cardinality(N) /\ u.seen = stamp
      BY <1>4, <3>1
    <3>3. stamp \in Nat
      BY <1>9
    <3> QED
      BY <3>2, <3>3
  <2> QED
    BY <1>1, <2>1, <2>2, <2>3
<1>11. ASSUME NEW u \in updated, NEW v \in updated, u.id = v.id
       PROVE  u = v
  <2>1. ASSUME NEW w \in updated, matched(w) \/ missed(w)
        PROVE  w.id < next
    BY <1>2, <1>3, <1>9, <2>1
  <2>2. ASSUME NEW w \in updated, isnew(w)
        PROVE  next <= w.id
    BY <1>4, <2>2
  <2>3. u.id \in Nat /\ v.id \in Nat
    BY <1>10 DEF GoodTarget, TrackedTarget
  <2>4. isnew(u) => isnew(v)
    BY <1>1, <1>9, <1>11, <2>1, <2>2, <2>3
  <2>5. isnew(v) => isnew(u)
    BY <1>1, <1>9, <1>11, <2>1, <2>2, <2>3
  <2>6. CASE isnew(u) /\ isnew(v)
    <3>1. PICK m \in N : u = created(m)
      BY <2>6
    <3>2. PICK n \in N : v = created(n)
      BY <2>6
    <3> DEFINE number(k) == Cardinality({j \in N : j < k})
    <3>3. number(m) \in Nat /\ number(n) \in Nat
      BY <1>7, NewIds
    <3>4. u.id = next + number(m) /\ v.id = next + number(n)
      BY <1>4, <3>1, <3>2
    <3>5. number(m) = number(n) => m = n
      BY <1>8
    <3> HIDE DEF number
    <3>6. number(m) = number(n)
      <4>1. next \in Nat /\ next + number(m) = next + number(n)
        BY <1>9, <1>11, <3>4
      <4> QED
        BY <3>3, <4>1
    <3> QED
      BY <3>1, <3>2, <3>5, <3>6
  <2>7. CASE matched(u) /\ matched(v)
    <3>1. PICK p \in M : u = hit(p)
      BY <2>7
    <3>2. PICK q \in M : v = hit(q)
      BY <2>7
    <3>3. p[1] = q[1]
      BY <1>2, <1>9, <1>11, <3>1, <3>2
    <3> QED
      BY <1>5, <3>1, <3>2, <3>3
  <2>8. CASE missed(u) /\ missed(v)
    BY <1>3, <1>9, <1>11, <2>8
  <2>9. CASE matched(u) /\ missed(v)
    <3>1. PICK p \in M : u = hit(p)
      BY <2>9
    <3>2. PICK t \in ts : v = aged(t) /\ p[1] # t
      BY <2>9
    <3> QED
      BY <1>2, <1>3, <1>9, <1>11, <3>1, <3>2
  <2>10. CASE missed(u) /\ matched(v)
    <3>1. PICK p \in M : v = hit(p)
      BY <2>10
    <3>2. PICK t \in ts : u = aged(t) /\ p[1] # t
      BY <2>10
    <3> QED
      BY <1>2, <1>3, <1>9, <1>11, <3>1, <3>2
  <2> HIDE DEF matched, missed, isnew
  <2> QED
    BY <1>1, <2>4, <2>5, <2>6, <2>7, <2>8, <2>9, <2>10, Zenon
<1> QED
  BY <1>10, <1>11 DEF GoodTargets, updated, N, M

\* The target that is a person of this frame: it was seen now, there is only one,
\* and if it was a target before, it has been seen once more.
LEMMA FollowedFacts ==
    ASSUME NEW ts, NEW next, NEW last, NEW observations, NEW stamp,
           MayUpdate(ts, next, last, observations, stamp),
           NEW u \in Followed(UpdateTargets(ts, next, observations, stamp))
    PROVE  /\ u.seen = stamp /\ observations # <<>>
           /\ \A v \in Followed(UpdateTargets(ts, next, observations, stamp)) : v = u
           /\ \A t \in ts : t.id = u.id => u.hits = AtMost(t.hits + 1, ConfirmFrames)
<1> DEFINE M == Matched(ts, observations)
           N == New(M, observations)
           updated == UpdateTargets(ts, next, observations, stamp)
           matched(w) == \E p \in M : p[2] = 1 /\ w = Hit(p, observations, stamp)
           isnew(w) == 1 \in N /\ w = Created(1, N, next, observations, stamp)
<1>1. M = Matched(ts, observations) /\ N = New(M, observations)
  OBVIOUS
<1>2. /\ \A p \in M : /\ p[1] \in ts /\ p[2] \in DOMAIN observations
                      /\ p[1].class = "person" => p[2] = 1
      /\ \A p, q \in M : p[2] = q[2] => p = q
  BY PersonsAreMatched, TargetsAreComparable, MatchedFacts DEF MayUpdate
<1>3. /\ N \subseteq DOMAIN observations
      /\ \A n \in N : \A p \in M : p[2] # n
  BY <1>2, NewFacts DEF MayUpdate
<1>4. ASSUME NEW n \in N
      PROVE  LET new == Created(n, N, next, observations, stamp)
             IN  /\ new.class = observations[n].class /\ new.seen = stamp
                 /\ next <= new.id /\ GoodTarget(new)
  <2> DEFINE new == Created(n, N, next, observations, stamp)
  <2> HIDE DEF N
  <2>1. N = New(Matched(ts, observations), observations)
    BY DEF N
  <2> HIDE DEF M
  <2>2. /\ n \in DOMAIN observations
        /\ GoodTarget(new) /\ new.class = observations[n].class
        /\ new.id = next + Cardinality({k \in N : k < n})
        /\ next <= new.id /\ new.id < next + Cardinality(N)
        /\ new.seen = stamp
    BY <2>1, CreatedTarget
  <2> HIDE DEF new
  <2>3. new.class = observations[n].class /\ new.seen = stamp /\ next <= new.id /\ GoodTarget(new)
    BY <2>2
  <2> QED
    BY <2>3 DEF new
<1> HIDE DEF M, N
<1>5. ASSUME NEW w \in Followed(updated)
      PROVE  matched(w) \/ isnew(w)
  <2>1. w \in updated /\ w.class = "person" /\ w.missed = 0
    BY DEF Followed
  <2>2. CASE \E p \in M : w = Hit(p, observations, stamp)
    <3>1. PICK p \in M : w = Hit(p, observations, stamp)
      BY <2>2
    <3>2. w.class = p[1].class
      BY <1>1, <3>1, HitTarget
    <3> QED
      BY <1>2, <2>1, <3>1, <3>2
  <2>3. CASE \E t \in ts : w = AgeUnmatchedTarget(t, stamp)
    <3>1. PICK t \in ts : w = AgeUnmatchedTarget(t, stamp)
      BY <2>3
    <3>2. GoodTarget(t) /\ stamp \in 0..MaxTime
      BY DEF MayUpdate, GoodTargets
    <3>3. w.missed >= 1
      BY <3>1, <3>2, AgeFacts
    <3> QED
      BY <2>1, <3>3
  <2>4. CASE \E n \in N : w = Created(n, N, next, observations, stamp)
    <3>1. PICK n \in N : w = Created(n, N, next, observations, stamp)
      BY <2>4
    <3>2. n \in DOMAIN observations /\ w.class = observations[n].class
      BY <1>3, <1>4, <3>1
    <3>3. n = 1
      BY <2>1, <3>2 DEF MayUpdate, Frame
    <3> QED
      BY <3>1, <3>3
  <2> QED
    BY <1>1, <2>1, <2>2, <2>3, <2>4, UpdatedTargets
<1>6. /\ matched(u) \/ isnew(u)
      /\ \A v \in Followed(updated) : matched(v) \/ isnew(v)
  BY <1>5
<1>7. observations # <<>>
  <2>1. 1 \in DOMAIN observations
    BY <1>2, <1>3, <1>6
  <2> QED
    BY <2>1 DEF MayUpdate, Frame
<1>8. \A v \in Followed(updated) : v = u
  BY <1>2, <1>3, <1>6
<1>9. CASE matched(u)
  <2>1. PICK p \in M : u = Hit(p, observations, stamp)
    BY <1>9
  <2>2. /\ u.seen = stamp /\ u.id = p[1].id
        /\ u.hits = AtMost(p[1].hits + 1, ConfirmFrames)
    BY <1>1, <2>1, HitTarget
  <2>3. \A t \in ts : t.id = u.id => t = p[1]
    BY <1>2, <2>2 DEF MayUpdate, GoodTargets
  <2> QED
    BY <1>7, <1>8, <2>2, <2>3
<1>10. CASE isnew(u)
  <2>1. u.seen = stamp /\ next <= u.id /\ u.id \in Nat
    <3>1. u.seen = stamp /\ next <= u.id /\ GoodTarget(u)
      BY <1>10, <1>4
    <3> QED
      BY <3>1 DEF GoodTarget, TrackedTarget
  <2>2. \A t \in ts : t.id < next /\ t.id \in Nat /\ next \in Nat
    BY DEF MayUpdate, GoodTargets, GoodTarget, TrackedTarget
  <2>3. \A t \in ts : t.id # u.id
    BY <2>1, <2>2
  <2> QED
    BY <1>7, <1>8, <2>1, <2>3
<1> QED
  BY <1>6, <1>9, <1>10

-----------------------------------------------------------------------------
(* What a frame makes of the safety level. *)

\* A confirmed person that is close makes the frame's level a stop.
LEMMA CloseIsStop ==
    ASSUME NEW ts, NEW stamp \in Nat, NEW t \in ts,
           Eligible(t), t.seen = stamp, t.place \in Nat, Close(t.place)
    PROVE  Classify(ts, stamp) = "STOP"
<1> DEFINE levels == {"CLEAR"} \cup {LevelAt(u.place) : u \in Considered(ts, stamp)}
<1>1. /\ StopDistance \in Nat /\ Hysteresis \in Nat /\ MaxTargetAge \in Nat
      /\ Places \subseteq Nat
  BY PolicyAssumption
<1>2. t \in Considered(ts, stamp)
  BY <1>1 DEF Considered
<1>3. LevelAt(t.place) = "STOP"
  <2>1. t.place < StopDistance =>
            t.place < StopDistance + IF level = "STOP" THEN Hysteresis ELSE 0
    BY <1>1
  <2>2. \/ t.place \in DangerPlaces
        \/ t.place < StopDistance + IF level = "STOP" THEN Hysteresis ELSE 0
    BY <2>1 DEF Close
  <2> QED
    BY <2>2 DEF LevelAt
<1>4. "STOP" \in levels
  BY <1>2, <1>3
<1>5. levels \subseteq PerceptionStates
  <2>1. \A place : LevelAt(place) \in PerceptionStates
    BY DEF LevelAt, PerceptionStates
  <2> QED
    BY <2>1 DEF PerceptionStates
<1>6. Classify(ts, stamp) = CHOOSE l \in levels : \A k \in levels : Rank[k] <= Rank[l]
  BY DEF Classify
<1> HIDE DEF levels
<1>7. \A k \in levels : Rank[k] <= Rank["STOP"]
  BY <1>5 DEF PerceptionStates, Rank
<1>8. \A l \in levels : (\A k \in levels : Rank[k] <= Rank[l]) => l = "STOP"
  BY <1>4, <1>5 DEF PerceptionStates, Rank
<1> QED
  BY <1>4, <1>6, <1>7, <1>8

\* A level that is evaluated: a stop at once, less only after a row of calmer
\* observations.
LEMMA EvaluateFacts ==
    ASSUME level \in PerceptionStates, calmer \in 0..(ClearObservations - 1),
           NEW candidate \in PerceptionStates, Evaluate(candidate)
    PROVE  /\ calmer' \in 0..(ClearObservations - 1)
           /\ candidate = "STOP" => level' = "STOP" /\ calmer' = 0
           /\ level = "STOP" /\ calmer + 1 < ClearObservations
                => level' = "STOP" /\ calmer' <= calmer + 1
<1>1. ClearObservations \in Nat \ {0}
  BY PolicyAssumption
<1>2. /\ Rank[level] \in 0..2 /\ Rank[candidate] \in 0..2
      /\ candidate = "STOP" => Rank[candidate] = 2
      /\ level = "STOP" /\ Rank[candidate] >= Rank[level] => candidate = "STOP"
  BY DEF PerceptionStates, Rank
<1>3. CASE Rank[candidate] >= Rank[level]
  BY <1>1, <1>2, <1>3 DEF Evaluate
<1>4. CASE ~(Rank[candidate] >= Rank[level]) /\ calmer + 1 >= ClearObservations
  BY <1>1, <1>2, <1>4 DEF Evaluate
<1>5. CASE ~(Rank[candidate] >= Rank[level]) /\ ~(calmer + 1 >= ClearObservations)
  BY <1>1, <1>2, <1>5 DEF Evaluate
<1> QED
  BY <1>3, <1>4, <1>5

-----------------------------------------------------------------------------
(* The stop of a person that is close. *)

TrackInv ==
    /\ GoodTargets(targets, next_id, last_update)
    /\ next_id \in 1..(MaxId + 1) /\ last_update \in 0..clock

\* A person that has been followed for some frames has been seen as often, and
\* as long as the stop is held, the row of calmer observations is shorter than
\* the time the person was followed.
HoldInv ==
    /\ calmer \in 0..(ClearObservations - 1) /\ steady \in 0..ConfirmFrames
    /\ held \in BOOLEAN
    /\ \A t \in targets : t.class = "person" /\ t.missed = 0 => t.hits >= steady
    /\ held => /\ level = "STOP" /\ steady >= 1 /\ calmer <= steady
               /\ steady = ConfirmFrames => calmer = 0

PersonInv == EventInv /\ TrackInv /\ HoldInv

LEMMA FrameKeepsTargets ==
    ASSUME EventInv, TrackInv, NEW person, NEW thing \in BOOLEAN, NEW pose_known,
           HandleDetectorObservation(person, thing, pose_known),
           NEW observations, observations = Observations(person, thing),
           NEW stamp, stamp = clock + 1
    PROVE  /\ TrackInv'
           /\ targets' = UpdateTargets(targets, next_id, observations, stamp)
           /\ MayUpdate(targets, next_id, last_update, observations, stamp)
<1>1. /\ clock \in 0..MaxTime /\ clock < MaxTime /\ clock' = stamp /\ MaxTime \in Nat
      /\ Track(observations, stamp)
  BY GateAssumption
  DEF EventInv, EventTypeOK, GateTypeOK, HandleDetectorObservation, ClockTick
<1>2. /\ stamp \in 0..MaxTime /\ stamp \in Nat
      /\ last_update \in Nat /\ last_update <= stamp
      /\ next_id \in Nat \ {0} /\ MaxId \in Nat
  BY <1>1, PolicyAssumption DEF TrackInv
<1> DEFINE N == New(Matched(targets, observations), observations)
<1>3. /\ next_id + Cardinality(N) <= MaxId + 1
      /\ targets' = UpdateTargets(targets, next_id, observations, stamp)
      /\ next_id' = next_id + Cardinality(N) /\ last_update' = stamp
  BY <1>1, <1>2 DEF Track
<1>4. Frame(observations)
  BY ObservationsAreFrames
<1>5. MayUpdate(targets, next_id, last_update, observations, stamp)
  BY <1>2, <1>3, <1>4 DEF MayUpdate, TrackInv
<1>6. GoodTargets(targets', next_id', last_update')
  BY <1>3, <1>5, UpdateKeepsTargets
<1>7. Cardinality(N) \in Nat
  <2>1. \A p \in Matched(targets, observations) : p[2] \in DOMAIN observations
    BY <1>5, PersonsAreMatched DEF MayUpdate
  <2>2. N \subseteq DOMAIN observations
    BY <1>4, <2>1, NewFacts
  <2>3. N \in SUBSET {1, 2}
    BY <1>4, <2>2 DEF Frame
  <2> QED
    BY <2>3, NewIds
<1> HIDE DEF N
<1>8. next_id' \in 1..(MaxId + 1) /\ last_update' \in 0..clock'
  BY <1>1, <1>2, <1>3, <1>7
<1> QED
  BY <1>3, <1>5, <1>6, <1>8 DEF TrackInv

LEMMA FrameHolds ==
    ASSUME ConfirmFrames <= ClearObservations,
           EventInv, TrackInv, HoldInv, NEW person, NEW thing \in BOOLEAN,
           NEW pose_known \in BOOLEAN, HandleDetectorObservation(person, thing, pose_known)
    PROVE  HoldInv'
<1> DEFINE observations == Observations(person, thing)
           stamp == clock + 1
           candidate == Classify(targets', stamp)
<1>1. /\ TrackInv'
      /\ targets' = UpdateTargets(targets, next_id, observations, stamp)
      /\ MayUpdate(targets, next_id, last_update, observations, stamp)
  BY FrameKeepsTargets
<1>2. /\ ConfirmFrames \in Nat \ {0} /\ LostFrames \in Nat \ {0}
      /\ ClearObservations \in Nat \ {0}
  BY TrackingAssumption, PolicyAssumption
<1>3. /\ level \in PerceptionStates /\ candidate \in PerceptionStates
      /\ calmer \in 0..(ClearObservations - 1) /\ steady \in 0..ConfirmFrames
      /\ held \in BOOLEAN
  BY ClassifyType DEF EventInv, EventTypeOK, HoldInv
<1>4. stamp \in Nat /\ last_update \in Nat /\ last_update <= stamp
  BY <1>1 DEF MayUpdate
<1>5. \A t \in targets' : GoodTarget(t) /\ t.seen <= stamp /\ t.hits \in 1..ConfirmFrames
                          /\ t.seen \in Nat
  <2>1. last_update' <= stamp /\ last_update' \in Nat
    <3>1. clock' = stamp /\ clock \in Nat
      BY DEF HandleDetectorObservation, ClockTick, EventInv, EventTypeOK, GateTypeOK
    <3> QED
      BY <1>1, <3>1 DEF TrackInv
  <2>2. \A t \in targets' : GoodTarget(t) /\ t.seen <= last_update'
    BY <1>1 DEF TrackInv, GoodTargets
  <2>3. \A t \in targets' : t.hits \in 1..ConfirmFrames /\ t.seen \in Nat
    BY <2>2 DEF GoodTarget, TrackedTarget
  <2> QED
    BY <1>4, <2>1, <2>2, <2>3
<1>6. ~Malformed(targets', stamp)
  BY <1>4, <1>5 DEF Malformed
<1> HIDE DEF stamp, candidate, observations
<1>7. /\ UNCHANGED policyVars \/ Evaluate(candidate)
      /\ pose_known /\ observations # <<>> => Evaluate(candidate)
  BY <1>6 DEF HandleDetectorObservation, EvaluateAndPublishSafety, observations, stamp, candidate
<1>8. calmer' \in 0..(ClearObservations - 1)
  BY <1>3, <1>7, EvaluateFacts DEF policyVars
<1> DEFINE near == \E u \in Followed(targets') : Close(u.place)
<1>9. CASE ~pose_known \/ ~near
  <2>1. steady' = 0 /\ held' = FALSE
    BY <1>9, Zenon DEF HandleDetectorObservation, Follow
  <2>2. \A t \in targets' : t.class = "person" /\ t.missed = 0 => t.hits >= steady'
    BY <1>2, <1>5, <2>1
  <2>3. steady' \in 0..ConfirmFrames
    BY <1>2, <2>1
  <2>4. held' \in BOOLEAN /\ ~held'
    BY <2>1, Zenon
  <2> QED
    BY <1>8, <2>2, <2>3, <2>4 DEF HoldInv
<1>10. CASE pose_known /\ near
  <2> DEFINE stays == \E t \in Followed(targets), u \in Followed(targets') : t.id = u.id
             run == IF stays THEN AtMost(steady + 1, ConfirmFrames) ELSE 1
  <2>1. PICK u \in Followed(targets') : Close(u.place)
    BY <1>10
  <2>2. /\ u.seen = stamp /\ observations # <<>>
        /\ \A v \in Followed(targets') : v = u
        /\ \A t \in targets : t.id = u.id => u.hits = AtMost(t.hits + 1, ConfirmFrames)
    BY <1>1, FollowedFacts
  <2>3. Evaluate(candidate)
    BY <1>7, <1>10, <2>2
  <2>4. /\ steady' = run
        /\ held' = \/ run = ConfirmFrames
                   \/ held /\ (stays \/ steady = ConfirmFrames)
    <3>1. Follow(stamp)
      BY <1>10 DEF HandleDetectorObservation, stamp
    <3>2. near /\ stamp >= last_update
      BY <1>4, <1>10
    <3> QED
      BY <3>1, <3>2, Zenon DEF Follow
  <2>5. /\ run \in 1..ConfirmFrames /\ (~stays => run = 1)
        /\ stays => run = AtMost(steady + 1, ConfirmFrames)
    BY <1>2, <1>3 DEF AtMost
  <2>6. u.hits >= run
    <3>1. CASE stays
      <4>1. PICK t \in Followed(targets) : t.id = u.id
        BY <2>2, <3>1
      <4>2. t.hits >= steady /\ t.hits \in 1..ConfirmFrames
        BY <4>1 DEF HoldInv, TrackInv, GoodTargets, GoodTarget, TrackedTarget, Followed
      <4>3. u.hits = AtMost(t.hits + 1, ConfirmFrames)
        BY <2>2, <4>1 DEF Followed
      <4>4. run = AtMost(steady + 1, ConfirmFrames)
        BY <2>5, <3>1
      <4> HIDE DEF stays, run
      <4> QED
        BY <1>2, <1>3, <4>2, <4>3, <4>4 DEF AtMost
    <3>2. CASE ~stays
      <4>1. u.hits \in 1..ConfirmFrames
        BY <1>5 DEF Followed
      <4> QED
        BY <1>2, <2>5, <3>2, <4>1
    <3> QED
      BY <3>1, <3>2
  <2>7. ASSUME run = ConfirmFrames
        PROVE  level' = "STOP" /\ calmer' = 0
    <3>1. u \in targets' /\ u.class = "person" /\ u.missed = 0
      BY DEF Followed
    <3>2. u.hits = ConfirmFrames /\ GoodTarget(u)
      BY <1>2, <1>5, <2>6, <2>7, <3>1
    <3>3. u.state = "CONFIRMED"
      BY <1>2, <3>1, <3>2 DEF GoodTarget, TrackedTarget
    <3>4. u.place \in Nat
      BY <3>2 DEF GoodTarget, TrackedTarget
    <3>5. candidate = "STOP"
      BY <1>4, <2>1, <2>2, <3>1, <3>3, <3>4, CloseIsStop DEF Eligible, candidate
    <3> QED
      BY <1>3, <2>3, <3>5, EvaluateFacts
  <2> HIDE DEF run, stays
  <2>8. ASSUME run # ConfirmFrames, held, stays \/ steady = ConfirmFrames
        PROVE  level' = "STOP" /\ calmer' <= run
    <3>1. level = "STOP" /\ calmer <= steady /\ (steady = ConfirmFrames => calmer = 0)
      BY <2>8 DEF HoldInv
    <3>2. calmer + 1 <= run
      <4>1. CASE stays
        <5>1. run = AtMost(steady + 1, ConfirmFrames)
          BY <2>5, <4>1
        <5>2. run = steady + 1
          BY <1>2, <1>3, <2>8, <5>1 DEF AtMost
        <5> QED
          BY <1>2, <1>3, <3>1, <5>2
      <4>2. CASE ~stays
        BY <1>2, <1>3, <2>5, <2>8, <3>1, <4>2
      <4> QED
        BY <4>1, <4>2
    <3>3. calmer + 1 < ClearObservations
      BY <1>2, <1>3, <2>5, <2>8, <3>2
    <3>4. level' = "STOP" /\ calmer' <= calmer + 1
      BY <1>3, <2>3, <3>1, <3>3, EvaluateFacts
    <3> QED
      BY <1>2, <1>3, <1>8, <2>5, <3>2, <3>4
  <2>9. steady' \in 0..ConfirmFrames /\ held' \in BOOLEAN /\ steady' >= 1
    BY <1>2, <2>4, <2>5
  <2>10. held' => /\ level' = "STOP" /\ calmer' <= steady'
                  /\ steady' = ConfirmFrames => calmer' = 0
    <3>1. CASE run = ConfirmFrames
      BY <1>2, <2>4, <2>7, <3>1
    <3>2. CASE run # ConfirmFrames
      <4>1. steady' # ConfirmFrames
        BY <2>4, <3>2
      <4>2. held' => held /\ (stays \/ steady = ConfirmFrames)
        BY <2>4, <3>2, Zenon
      <4> QED
        BY <2>4, <2>8, <3>2, <4>1, <4>2
    <3> QED
      BY <3>1, <3>2
  <2>11. \A t \in targets' : t.class = "person" /\ t.missed = 0 => t.hits >= steady'
    <3>1. \A t \in targets' : t.class = "person" /\ t.missed = 0 => t = u
      BY <2>2 DEF Followed
    <3> QED
      BY <2>4, <2>6, <3>1
  <2> QED
    BY <1>8, <2>9, <2>10, <2>11 DEF HoldInv
<1> QED
  BY <1>9, <1>10

\* Nothing else touches what the two invariants are about, and time passes.
LEMMA OthersKeepPersons ==
    ASSUME PersonInv, clock' \in {clock, clock + 1},
           UNCHANGED <<targets, next_id, last_update, level, calmer, steady, held>>
    PROVE  TrackInv' /\ HoldInv'
<1>1. clock \in Nat
  BY DEF PersonInv, EventInv, EventTypeOK, GateTypeOK
<1>2. last_update' \in 0..clock'
  BY <1>1 DEF PersonInv, TrackInv
<1> QED
  BY <1>2 DEF PersonInv, TrackInv, HoldInv

LEMMA PersonStep ==
    ASSUME ConfirmFrames <= ClearObservations,
           PersonInv, [PerceptionNext \/ OtherInputs]_perceptionVars
    PROVE  PersonInv'
<1>1. EventInv'
  BY EventStep DEF PersonInv
<1>2. CASE \E person \in Places \cup {Depthless, Absent},
              thing \in Things, pose_known \in BOOLEAN :
                HandleDetectorObservation(person, thing, pose_known)
  <2>1. PICK person \in Places \cup {Depthless, Absent},
             thing \in Things, pose_known \in BOOLEAN :
                HandleDetectorObservation(person, thing, pose_known)
    BY <1>2
  <2>2. thing \in BOOLEAN
    BY PolicyAssumption
  <2>3. TrackInv'
    BY <2>1, <2>2, FrameKeepsTargets DEF PersonInv
  <2>4. HoldInv'
    BY <2>1, <2>2, FrameHolds DEF PersonInv
  <2> QED
    BY <1>1, <2>3, <2>4 DEF PersonInv
<1>3. CASE \E event \in events : DeliverEvent(event) \/ LoseEvent(event)
  <2>1. /\ clock' = clock
        /\ UNCHANGED <<targets, next_id, last_update, level, calmer, steady, held>>
    BY <1>3
    DEF DeliverEvent, LoseEvent, HandlePerceptionEvent, trackVars, policyVars, historyVars,
        gateVars, timeVars
  <2> QED
    BY <1>1, <2>1, OthersKeepPersons DEF PersonInv
<1>4. CASE GateStep
  <2>1. /\ clock' \in {clock, clock + 1}
        /\ UNCHANGED <<targets, next_id, last_update, level, calmer, steady, held>>
    BY <1>4
    DEF GateStep, GateTick, ClockTick, trackVars, policyVars, historyVars, timeVars
  <2> QED
    BY <1>1, <2>1, OthersKeepPersons DEF PersonInv
<1>5. CASE OtherInputs
  <2>1. clock' = clock
    BY <1>5 DEF OtherInputs, HandleTwist, HandleTakeover, HandleRuntimeSafety,
         HandleLocalizationHealth, HandleSensor, HandleChassisState, ServiceStep,
         EnableEmergencyStop, ClearEmergencyStop, GoesStale, GraceEnds, timeVars
  <2>2. UNCHANGED <<targets, next_id, last_update, level, calmer, steady, held>>
    BY <1>5 DEF OtherInputs, otherVars, trackVars, policyVars, historyVars
  <2> QED
    BY <1>1, <2>1, <2>2, OthersKeepPersons DEF PersonInv
<1>6. CASE UNCHANGED perceptionVars
  <2>1. /\ clock' = clock
        /\ UNCHANGED <<targets, next_id, last_update, level, calmer, steady, held>>
    BY <1>6 DEF perceptionVars, trackVars, policyVars, historyVars, gateVars, timeVars
  <2> QED
    BY <1>1, <2>1, OthersKeepPersons DEF PersonInv
<1> QED
  BY <1>2, <1>3, <1>4, <1>5, <1>6 DEF PerceptionNext

LEMMA PersonsInitially == PerceptionInit => PersonInv
<1> SUFFICES ASSUME PerceptionInit
             PROVE  PersonInv
  OBVIOUS
<1>1. /\ ConfirmFrames \in Nat \ {0} /\ ClearObservations \in Nat \ {0} /\ MaxId \in Nat
  BY TrackingAssumption, PolicyAssumption
<1>2. targets = {} /\ next_id = 1 /\ last_update = 0 /\ calmer = 0 /\ steady = 0 /\ clock = 0
  BY DEF PerceptionInit
<1>3. held \in BOOLEAN /\ ~held
  BY Zenon DEF PerceptionInit
<1>4. TrackInv
  BY <1>1, <1>2 DEF TrackInv, GoodTargets
<1>5. HoldInv
  BY <1>1, <1>2, <1>3 DEF HoldInv
<1> QED
  BY <1>4, <1>5, EventsInitially DEF PersonInv

LEMMA PersonInvImplies == PersonInv => PerceptionInv
<1> SUFFICES ASSUME PersonInv
             PROVE  PerceptionInv
  OBVIOUS
<1>1. /\ GateTypeOK /\ level \in PerceptionStates /\ events \subseteq Event
      /\ newest \in Event \cup {NoEvent}
  BY DEF PersonInv, EventInv, EventTypeOK
<1>2. ASSUME NEW t \in targets
      PROVE  /\ t.id \in 1..MaxId /\ t.state \in TrackingStates /\ t.seen \in 0..MaxTime
             /\ t.state \in {"TENTATIVE", "CONFIRMED"} => t.missed < LostFrames
             /\ t.state = "CONFIRMED" => t.hits >= ConfirmFrames
  <2>1. /\ t.id \in 1..MaxId /\ t.seen \in 0..MaxTime
        /\ t.state \in {"TENTATIVE", "CONFIRMED", "LOST"}
        /\ t.missed \in 0..(RetirementFrames + 1)
        /\ t.state = "CONFIRMED" => t.hits = ConfirmFrames
        /\ t.state = "LOST" <=> t.missed >= LostFrames
    BY DEF PersonInv, TrackInv, GoodTargets, GoodTarget, TrackedTarget
  <2>2. LostFrames \in Nat /\ RetirementFrames \in Nat /\ ConfirmFrames \in Nat
    BY TrackingAssumption
  <2> QED
    BY <2>1, <2>2 DEF TrackingStates
<1>3. /\ \A t, u \in targets : t.id = u.id => t = u
      /\ next_id \in 1..(MaxId + 1)
  BY DEF PersonInv, TrackInv, GoodTargets
<1>4. last_update \in 0..MaxTime
  <2>1. last_update \in 0..clock /\ clock \in 0..MaxTime /\ MaxTime \in Nat
    BY <1>1, GateAssumption DEF PersonInv, TrackInv, GateTypeOK
  <2> QED
    BY <2>1
<1>5. /\ calmer \in 0..(ClearObservations - 1) /\ steady \in 0..ConfirmFrames
      /\ held \in BOOLEAN /\ ClosePersonHoldsStop
  BY DEF PersonInv, HoldInv, ClosePersonHoldsStop
<1> QED
  BY <1>1, <1>2, <1>3, <1>4, <1>5 DEF PerceptionInv, PerceptionTypeOK

(***************************************************************************)
(* A person whom the tracker has followed to a close place stops the robot *)
(* and keeps it stopped, also while the tracker takes the person for       *)
(* somebody else, wherever the person stands or walks, whatever else is    *)
(* detected, whatever happens to the events and whatever the gate's other  *)
(* inputs are.  This needs one thing of the configuration: a new target is *)
(* confirmed before the row of calmer observations that takes a stop back  *)
(* is complete.                                                            *)
(***************************************************************************)
THEOREM PersonsHoldTheirStops ==
    ASSUME ConfirmFrames <= ClearObservations
    PROVE  OpenSpec => []PerceptionInv
<1>1. PersonInv /\ [PerceptionNext \/ OtherInputs]_perceptionVars => PersonInv'
  BY PersonStep
<1> QED
  BY <1>1, PersonsInitially, PersonInvImplies, PTL DEF OpenSpec

(***************************************************************************)
(* The same of the system that the runs check.                             *)
(***************************************************************************)
COROLLARY PersonsHoldTheirStopsInChain ==
    ASSUME ConfirmFrames <= ClearObservations
    PROVE  PerceptionSpec => []PerceptionInv
<1>1. [PerceptionNext]_perceptionVars => [PerceptionNext \/ OtherInputs]_perceptionVars
  OBVIOUS
<1> QED
  BY <1>1, PersonsHoldTheirStops, PTL DEF PerceptionSpec, OpenSpec

=============================================================================
