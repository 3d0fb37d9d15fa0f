------------------------------ MODULE Inspection ------------------------------
(***************************************************************************)
(* From a confirmed target to an inspected one.  The perception node asks  *)
(* once for the inspection of a target it has confirmed, the task node     *)
(* drives there with the sequence server and reports the completion, and   *)
(* the perception node then leaves the target alone for a while            *)
(* (inspection_event_policy.cpp, geometry_validation_node.cpp,             *)
(* visual_inspection_mission.cpp, visual_inspection_task_node.cpp).  Every *)
(* thing of the scene has an allowed class and enough confidence.          *)
(***************************************************************************)
EXTENDS TargetManager
LOCAL INSTANCE SequencesExt
LOCAL INSTANCE FiniteSetsExt

CONSTANTS
    Things,       \* places of the things that may be seen
    RetryCount,   \* inspection.retry_count
    MaxStamp,     \* bound: number of frames
    MaxTarget     \* bound: targets

ASSUME InspectionAssumption ==
    /\ Things \subseteq Int /\ Things # {}
    /\ RetryCount \in Nat /\ MaxStamp \in Nat /\ MaxTarget \in Nat

VARIABLES
    clock,                \* stamp of the latest frame, and time of both nodes
    targets, next_id,     \* the target manager's
    emitted_target_ids,   \* of the event policy
    events, completions,  \* /perception/events on the way to each of the nodes
    pending_event,        \* the event that waits for the robot's pose, or None
    mission,              \* [state, target] of the visual inspection mission
    seen_event_stamps,    \* target -> stamp of the event that was taken, -1 without
    attempts, retry_timer,
    goal                  \* the goal at the sequence server

perceptionVars == <<clock, targets, next_id, emitted_target_ids>>
missionVars == <<mission, seen_event_stamps, attempts, retry_timer, goal>>
inspectionVars == <<perceptionVars, events, completions, pending_event, missionVars>>

TargetId == 1..MaxTarget
None == [id |-> 0, stamp |-> 0]
Events == [id : TargetId, stamp : 0..MaxStamp]

Mission(state, target) == [state |-> state, target |-> target]

InspectionTypeOK ==
    /\ clock \in 0..MaxStamp /\ next_id \in 1..(MaxTarget + 1)
    /\ \A t \in targets : t.id \in TargetId /\ t.state \in TrackingStates
    /\ emitted_target_ids \subseteq TargetId
    /\ events \in Seq(Events) /\ completions \in Seq(Events)
    /\ pending_event \in Events \cup {None}
    /\ mission \in [state : {"IDLE", "REQUESTED", "NAVIGATING", "SUCCEEDED", "FAILED"},
                    target : TargetId \cup {0}]
    /\ seen_event_stamps \in [TargetId -> -1..MaxStamp]
    /\ attempts \in 0..(RetryCount + 1) /\ retry_timer \in BOOLEAN
    /\ goal \in {"none", "sent", "accepted"}

InspectionInit ==
    /\ clock = 0 /\ targets = {} /\ next_id = 1 /\ emitted_target_ids = {}
    /\ events = <<>> /\ completions = <<>> /\ pending_event = None
    /\ mission = Mission("IDLE", 0) /\ seen_event_stamps = [t \in TargetId |-> -1]
    /\ attempts = 0 /\ retry_timer = FALSE /\ goal = "none"
-----------------------------------------------------------------------------
(* The perception node.                                                    *)

Forgotten(ts) == {t.id : t \in {u \in ts : u.state = "TENTATIVE"}}

\* A target is asked for once until it is tentative again.
ShouldEmit(ts) ==
    {t.id : t \in {u \in ts : u.state = "CONFIRMED"}} \ (emitted_target_ids \ Forgotten(ts))

\* A frame in which the things at these places are seen.
Frame(places) ==
    LET observations == SetToSeq({[class |-> "chair", place |-> p] : p \in places})
        new  == New(Matched(targets, observations), observations)
        wanted == SetToSortSeq(ShouldEmit(targets'), <)
    IN  /\ clock < MaxStamp /\ clock' = clock + 1
        /\ next_id' = next_id + Cardinality(new) /\ next_id' <= MaxTarget + 1
        /\ targets' = UpdateTargets(targets, next_id, observations, clock')
        /\ emitted_target_ids' = (emitted_target_ids \ Forgotten(targets')) \cup ToSet(wanted)
        /\ events' = events \o [i \in DOMAIN wanted |-> [id |-> wanted[i], stamp |-> clock']]
        /\ UNCHANGED <<completions, pending_event, missionVars>>

\* Faulty: the completion is dated by the task node alone.
FaultyProcessedAt(e) == e.stamp

\* The target may have been seen after its inspection was completed.
ProcessedAt(e) == Max({e.stamp} \cup {t.seen : t \in {u \in targets : u.id = e.id}})

HandlePerceptionEvent ==
    /\ completions # <<>>
    /\ completions' = Tail(completions)
    /\ targets' = MarkProcessed(targets, Head(completions).id, ProcessedAt(Head(completions)))
    /\ UNCHANGED <<clock, next_id, emitted_target_ids, events, pending_event, missionVars>>
-----------------------------------------------------------------------------
(* The task node: one thread runs its subscription, timers and action       *)
(* callbacks.                                                              *)

Busy == mission.state \in {"REQUESTED", "NAVIGATING"}

\* Request: other events are refused and forgotten.
Acceptable(e) == e.stamp > seen_event_stamps[e.id] /\ ~Busy

\* HandleAttemptFailure of attempt n of mission m.
AttemptFails(m, n) ==
    /\ goal' = "none"
    /\ attempts' = n
    /\ IF n <= RetryCount THEN retry_timer' = TRUE /\ mission' = m
                          ELSE retry_timer' = FALSE /\ mission' = Mission("FAILED", 0)

\* SendActiveGoal, with or without a sequence server in sight.
SendActiveGoal(m, n) ==
    \/ goal' = "sent" /\ attempts' = n /\ mission' = m /\ retry_timer' = FALSE
    \/ AttemptFails(m, n)

\* TryPendingEvent when the robot's pose is known.
TakeUp(e) ==
    /\ pending_event' = None
    /\ IF Acceptable(e)
       THEN /\ seen_event_stamps' = [seen_event_stamps EXCEPT ![e.id] = e.stamp]
            /\ SendActiveGoal(Mission("REQUESTED", e.id), 1)
       ELSE UNCHANGED missionVars

\* An event that comes while another waits for the robot's pose is dropped.
HandleEvent ==
    /\ events # <<>>
    /\ events' = Tail(events)
    /\ \/ pending_event # None /\ UNCHANGED <<pending_event, missionVars>>
       \/ /\ pending_event = None
          /\ \/ TakeUp(Head(events))
             \/ pending_event' = Head(events) /\ UNCHANGED missionVars
    /\ UNCHANGED <<perceptionVars, completions>>

\* The pose has come, or the waiting has lasted too long.
TryPendingEvent ==
    /\ pending_event # None
    /\ \/ TakeUp(pending_event)
       \/ pending_event' = None /\ UNCHANGED missionVars
    /\ UNCHANGED <<perceptionVars, events, completions>>

GoalResponse ==
    /\ goal = "sent"
    /\ \/ /\ goal' = "accepted"
          /\ mission' = [mission EXCEPT !.state = "NAVIGATING"]
          /\ UNCHANGED <<attempts, retry_timer>>
       \/ AttemptFails(mission, attempts)
    /\ UNCHANGED <<perceptionVars, events, completions, pending_event, seen_event_stamps>>

\* The result callback; the completion goes back to the perception node.
GoalResult ==
    /\ goal = "accepted"
    /\ \/ AttemptFails(mission, attempts) /\ UNCHANGED completions
       \/ /\ goal' = "none" /\ mission' = Mission("SUCCEEDED", 0)
          /\ completions' = Append(completions, [id |-> mission.target, stamp |-> clock])
          /\ UNCHANGED <<attempts, retry_timer>>
    /\ UNCHANGED <<perceptionVars, events, pending_event, seen_event_stamps>>

Retry ==
    /\ retry_timer
    /\ SendActiveGoal(mission, attempts + 1)
    /\ UNCHANGED <<perceptionVars, events, completions, pending_event, seen_event_stamps>>
-----------------------------------------------------------------------------
InspectionNext ==
    \/ \E places \in SUBSET Things : Frame(places)
    \/ HandlePerceptionEvent
    \/ HandleEvent \/ TryPendingEvent \/ GoalResponse \/ GoalResult \/ Retry

\* The sequence server answers every goal (NavigateSequenceServer,
\* AcceptedGoalEnds), the retry timer runs and the completion is delivered.
InspectionFairness ==
    /\ WF_inspectionVars(GoalResponse) /\ WF_inspectionVars(GoalResult)
    /\ WF_inspectionVars(Retry) /\ WF_inspectionVars(HandlePerceptionEvent)

InspectionSpec == InspectionInit /\ [][InspectionNext]_inspectionVars /\ InspectionFairness
-----------------------------------------------------------------------------
StateOf(id) == {t.state : t \in {u \in targets : u.id = id}}

\* An inspection that was taken up comes to its end in both nodes: it has
\* failed, or its target is marked PROCESSED, if the perception still has it,
\* however long the drive took and whatever was seen meanwhile.
InspectionEndsInBothNodes ==
    \A id \in TargetId :
        (Busy /\ mission.target = id)
            ~> \/ mission.state = "FAILED"
               \/ "PROCESSED" \in StateOf(id)
               \/ StateOf(id) = {}
=============================================================================
