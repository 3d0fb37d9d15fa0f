--------------------------- MODULE PerceptionSafety ---------------------------
(***************************************************************************)
(* From a person in front of the camera to the wheels: the tracker, the    *)
(* perception's safety policy, its events, and the safety gate.            *)
(*                                                                         *)
(* Events are delivered late, in any order or not at all: the order of one *)
(* publisher is kept by the transport, the gate's own check is for the     *)
(* rest (a perception that was restarted).  The robot stands at place 0.   *)
(***************************************************************************)
EXTENDS TargetManager, SafetyGate

CONSTANTS
    Places,                      \* where a person may be
    DangerPlaces,                \* those in a danger zone
    StopDistance, SlowDistance,  \* person_stop_distance, person_slow_distance
    Hysteresis,                  \* stop_hysteresis and slow_hysteresis
    ClearObservations,           \* clear_observations
    MaxTargetAge,                \* max_target_age_sec
    ClearPlace,                  \* where a thing that is no person stands
    Things,                      \* whether it is detected: a subset of BOOLEAN
    MaxId, MaxWire               \* bounds: targets ever created, events under way

ASSUME PolicyAssumption ==
    /\ Places \subseteq Nat /\ DangerPlaces \subseteq Nat /\ ClearPlace \in Nat
    /\ Things \subseteq BOOLEAN
    /\ StopDistance \in Nat \ {0} /\ SlowDistance \in Nat /\ SlowDistance > StopDistance
    /\ Hysteresis \in Nat
    /\ ClearObservations \in Nat \ {0}
    /\ MaxTargetAge \in Nat \ {0}
    /\ MaxId \in Nat /\ MaxWire \in Nat

VARIABLES
    targets, next_id, last_update,
    level,               \* decision_.level
    calmer,              \* less_restrictive_observations_
    events,              \* safety events under way to the gate
    steady,              \* history: frames with a close person under one identity
    held,                \* history: a close person that was tracked all along
    newest               \* history: the newest event the gate was given in time

trackVars == <<targets, next_id, last_update>>
policyVars == <<level, calmer>>
historyVars == <<steady, held, newest>>
perceptionVars == <<trackVars, policyVars, events, historyVars, gateVars>>

Rank == [CLEAR |-> 0, SPEED_LIMITED |-> 1, STOP |-> 2]
Event == [state : PerceptionStates, stamp : 1..MaxTime]
NoEvent == [state |-> "CLEAR", stamp |-> 0]

(***************************************************************************)
(* The variables hold values of their types.  A target that is tracked has *)
(* not been missed for longer than the tracker allows, a confirmed one has *)
(* been seen often enough.                                                 *)
(***************************************************************************)
PerceptionTypeOK ==
    /\ GateTypeOK
    /\ \A t \in targets :
        /\ t.id \in 1..MaxId /\ t.state \in TrackingStates /\ t.seen \in 0..MaxTime
        /\ t.state \in {"TENTATIVE", "CONFIRMED"} => t.missed < LostFrames
        /\ t.state = "CONFIRMED" => t.hits >= ConfirmFrames
    /\ \A t, u \in targets : t.id = u.id => t = u
    /\ next_id \in 1..(MaxId + 1) /\ last_update \in 0..MaxTime
    /\ level \in PerceptionStates /\ calmer \in 0..(ClearObservations - 1)
    /\ events \subseteq Event
    /\ steady \in 0..ConfirmFrames /\ held \in BOOLEAN
    /\ newest \in Event \cup {NoEvent}

PerceptionInit ==
    /\ targets = {} /\ next_id = 1 /\ last_update = 0
    /\ level = "CLEAR" /\ calmer = 0
    /\ events = {}
    /\ steady = 0 /\ held = FALSE /\ newest = NoEvent
    /\ emergency_stop = FALSE /\ emergency_stop_latched = FALSE
    /\ manual_takeover = FALSE
    /\ runtime_safety_stop = FALSE /\ dynamic_speed_limit = 0
    /\ last_twist = FullSpeed
    /\ seen = Topics /\ fresh = Topics
    /\ localization_health = "OK"
    /\ chassis_state = Healthy
    /\ perception = EmptySnapshot
    /\ clock = 0
    /\ grace = FALSE
    /\ safety_state = "NORMAL" /\ cmd_vel = FullSpeed

-----------------------------------------------------------------------------
(* The policy. *)

Eligible(target) ==
    target.class = "person" /\ target.state \in {"CONFIRMED", "PROCESSED"} /\ target.missed = 0

\* A person that was seen after the frame makes the input malformed.
Malformed(ts, stamp) == \E t \in ts : Eligible(t) /\ t.seen > stamp

Considered(ts, stamp) ==
    {t \in ts : Eligible(t) /\ t.seen <= stamp /\ stamp - t.seen <= MaxTargetAge}

\* The distance thresholds are wider for the way back.
LevelAt(place) ==
    LET stop == StopDistance + IF level = "STOP" THEN Hysteresis ELSE 0
        slow == SlowDistance + IF level # "CLEAR" THEN Hysteresis ELSE 0
        too_close == place \in DangerPlaces \/ place < stop
    IN  CASE too_close -> "STOP"
          [] ~too_close /\ place <= slow -> "SPEED_LIMITED"
          [] ~too_close /\ ~(place <= slow) -> "CLEAR"

Classify(ts, stamp) ==
    LET levels == {"CLEAR"} \cup {LevelAt(t.place) : t \in Considered(ts, stamp)}
    IN  CHOOSE l \in levels : \A k \in levels : Rank[k] <= Rank[l]

\* Fault: the row of calmer observations is one too short.
FaultyEvaluate(candidate) ==
    IF Rank[candidate] >= Rank[level] \/ calmer + 2 >= ClearObservations
    THEN level' = candidate /\ calmer' = 0
    ELSE UNCHANGED level /\ calmer' = calmer + 1

Evaluate(candidate) ==
    IF Rank[candidate] >= Rank[level]
    THEN level' = candidate /\ calmer' = 0
    ELSE IF calmer + 1 >= ClearObservations
    THEN level' = candidate /\ calmer' = 0
    ELSE UNCHANGED level /\ calmer' = calmer + 1

\* EvaluateAndPublishSafety.  Without the robot's pose, or when a malformed
\* person could be the reason for what is found, nothing is published.
EvaluateAndPublishSafety(ts, stamp, pose_known) ==
    LET candidate == Classify(ts, stamp)
    IN  IF ~pose_known \/ (Malformed(ts, stamp) /\ Rank[candidate] <= Rank[level])
        THEN UNCHANGED <<policyVars, events>>
        ELSE /\ Evaluate(candidate)
             /\ events' = events \cup {[state |-> level', stamp |-> stamp]}

-----------------------------------------------------------------------------
(* A frame of the detector.  The person is nowhere, at a place, or detected *)
(* without a depth (Depthless); another thing may stand at ClearPlace.      *)

Depthless == -1
Absent == -2

Observations(person, thing) ==
    (IF person \in Places THEN <<[class |-> "person", place |-> person]>> ELSE <<>>)
    \o (IF thing THEN <<[class |-> "thing", place |-> ClearPlace]>> ELSE <<>>)

Close(place) == place < StopDistance \/ place \in DangerPlaces

\* The targets that were a person in the last frame.
Followed(ts) == {t \in ts : t.class = "person" /\ t.missed = 0}

\* History: a close person that is the same target as before, or has become
\* another one after it had been the old one for long enough.
Follow(stamp) ==
    LET stays == \E t \in Followed(targets), u \in Followed(targets') : t.id = u.id
        run == IF stays THEN AtMost(steady + 1, ConfirmFrames) ELSE 1
    IN  IF (\E u \in Followed(targets') : Close(u.place)) /\ stamp >= last_update
        THEN /\ steady' = run
             /\ held' = \/ run = ConfirmFrames
                        \/ held /\ (stays \/ steady = ConfirmFrames)
        ELSE steady' = 0 /\ held' = FALSE

\* TargetManager::Update takes no frame that is older than the one before.
Track(observations, stamp) ==
    LET next == next_id + Cardinality(New(Matched(targets, observations), observations))
    IN  IF stamp >= last_update
        THEN /\ next <= MaxId + 1
             /\ targets' = UpdateTargets(targets, next_id, observations, stamp)
             /\ next_id' = next
             /\ last_update' = stamp
        ELSE UNCHANGED trackVars

\* The next frame is as old as the step of the clock it comes with.
HandleDetectorObservation(person, thing, pose_known) ==
    LET observations == Observations(person, thing)
        stamp == clock + 1
    IN  /\ ClockTick
        /\ Track(observations, stamp)
        /\ IF observations # <<>>
           THEN /\ EvaluateAndPublishSafety(targets', stamp, pose_known)
                /\ Cardinality(events') <= MaxWire
           ELSE UNCHANGED <<policyVars, events>>
        /\ IF pose_known THEN Follow(stamp) ELSE steady' = 0 /\ held' = FALSE
        /\ UNCHANGED newest

-----------------------------------------------------------------------------
(* The events on their way, and the gate. *)

DeliverEvent(event) ==
    /\ event \in events
    /\ events' = events \ {event}
    /\ HandlePerceptionEvent(TRUE, event.state, event.stamp)
    /\ newest' = IF /\ event.stamp <= clock /\ clock - event.stamp <= PerceptionTimeout
                    /\ event.stamp > newest.stamp
                 THEN event ELSE newest
    /\ UNCHANGED <<trackVars, policyVars, steady, held>>

LoseEvent(event) ==
    /\ event \in events
    /\ events' = events \ {event}
    /\ UNCHANGED <<trackVars, policyVars, historyVars, gateVars>>

GateStep ==
    /\ GateTick \/ ClockTick
    /\ UNCHANGED <<trackVars, policyVars, events, historyVars>>

PerceptionNext ==
    \/ \E person \in Places \cup {Depthless, Absent},
       thing \in Things, pose_known \in BOOLEAN :
            HandleDetectorObservation(person, thing, pose_known)
    \/ \E event \in events : DeliverEvent(event) \/ LoseEvent(event)
    \/ GateStep

PerceptionSpec == PerceptionInit /\ [][PerceptionNext]_perceptionVars

-----------------------------------------------------------------------------
(***************************************************************************)
(* A person whom the tracker has followed to a close place stops the robot *)
(* and keeps it stopped, also while the tracker takes the person for       *)
(* somebody else: a new target is confirmed before the old one's stop is   *)
(* taken back.  This rests on ConfirmFrames <= ClearObservations, as       *)
(* configured (3 and 3).  An identity counts that lasts ConfirmFrames      *)
(* frames: a person who walks past ClearObservations targets that are lost *)
(* but kept takes a new one in each frame and is not confirmed in time.    *)
(* Close is the filtered place, which lags behind a person who walks up.   *)
(***************************************************************************)
ClosePersonHoldsStop == held => level = "STOP"

(***************************************************************************)
(* What holds between the steps of tracker, policy and gate.               *)
(***************************************************************************)
PerceptionInv == PerceptionTypeOK /\ ClosePersonHoldsStop

(***************************************************************************)
(* The gate obeys the newest stop it was given in time: no older event     *)
(* that arrives later moves the robot.                                     *)
(***************************************************************************)
NewestStopIsObeyed ==
    [][ (GateTick /\ newest.state = "STOP" /\ clock - newest.stamp <= PerceptionTimeout)
            => cmd_vel' = 0 ]_perceptionVars

(***************************************************************************)
(* docs/architecture.md:149: missing, invalid or old data makes no false   *)
(* CLEAR event.  A frame in which a person was detected without a depth    *)
(* takes no restriction back.                                              *)
(***************************************************************************)
NoFalseClear ==
    [][ \A thing \in Things, pose_known \in BOOLEAN :
            HandleDetectorObservation(Depthless, thing, pose_known)
                => Rank[level'] >= Rank[level] ]_perceptionVars
=============================================================================
