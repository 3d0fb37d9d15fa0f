------------------------------ MODULE SafetyChain ------------------------------
(***************************************************************************)
(* From a lost pose to the wheels: the localization health monitor and the *)
(* safety gate, joined by the topic /localization/health.                  *)
(***************************************************************************)
EXTENDS LocalizationHealth, SafetyGate

chainVars == <<monitorVars, gateVars>>

\* The gate is in operation: every source has sent and the grace time is over.
ChainInit ==
    /\ LocalizationInit
    /\ emergency_stop = FALSE /\ emergency_stop_latched = FALSE
    /\ manual_takeover = FALSE
    /\ runtime_safety_stop = FALSE /\ dynamic_speed_limit = 0
    /\ last_twist = FullSpeed
    /\ seen = Topics /\ fresh = Topics
    /\ localization_health = "UNKNOWN"
    /\ chassis_state = Healthy
    /\ perception = EmptySnapshot
    /\ clock = 0
    /\ grace = FALSE
    /\ safety_state = "NORMAL"
    /\ cmd_vel = FullSpeed

\* The gate takes the last message the monitor has published.
Deliver ==
    /\ HandleLocalizationHealth(published_health)
    /\ UNCHANGED monitorVars

MonitorStep == LocalizationNext /\ UNCHANGED gateVars

GateStep ==
    /\ \/ GateTick
       \/ \E limit \in DynamicLimits \cup {0} : HandleRuntimeSafety(FALSE, limit)
       \/ \E active \in BOOLEAN : HandleTakeover(active)
       \/ \E topic \in Flaky : GoesStale(topic)
    /\ UNCHANGED monitorVars

ChainNext == MonitorStep \/ Deliver \/ GateStep

\* The timers of both nodes run, and a message that is repeated every tick
\* arrives.
ChainSpec ==
    /\ ChainInit
    /\ [][ChainNext]_chainVars
    /\ WF_chainVars(LocalizationTick /\ UNCHANGED gateVars)
    /\ WF_chainVars(LocalizationElapse /\ UNCHANGED gateVars)
    /\ WF_chainVars(GateTick /\ UNCHANGED monitorVars)
    /\ WF_chainVars(Deliver)

-----------------------------------------------------------------------------
PoseIsOld == has_amcl_pose /\ amcl_age > AmclTimeout

(***************************************************************************)
(* A pose that stays too old stops the robot in the end, whatever the      *)
(* monitor was doing before (lost, relocalizing, recovered) and whether or *)
(* not its messages still arrive.  A speed limit in force and a takeover   *)
(* are excluded: both outrank RECOVERY, and then commands pass.            *)
(***************************************************************************)
LostPoseStopsRobot ==
    <>[](PoseIsOld /\ dynamic_speed_limit = 0 /\ ~manual_takeover) => <>[](cmd_vel = 0)

(***************************************************************************)
(* Good signals release the robot again: no state of the monitor (an issue *)
(* timer, a recovery request, the hold time) and none of the gate stays    *)
(* behind.                                                                 *)
(***************************************************************************)
GoodSignals == Stable /\ fresh = Topics /\ dynamic_speed_limit = 0 /\ last_twist = FullSpeed
GoodSignalsReleaseRobot == <>[]GoodSignals => <>[](cmd_vel = FullSpeed)

(***************************************************************************)
(* A relocalization that an initial pose began is only left through        *)
(* RECOVERED, whatever poses, transforms and requests come in between      *)
(* (docs/localization.md: waiting for convergence).                        *)
(***************************************************************************)
RelocalizationEndsRecovered ==
    [][ published_health = "RECOVERING"
            => published_health' \in {"RECOVERING", "RECOVERED"} ]_chainVars

=============================================================================
