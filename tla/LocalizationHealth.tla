-------------------------- MODULE LocalizationHealth --------------------------
(***************************************************************************)
(* The localization health monitor: it watches the age of AMCL's pose, its *)
(* covariance and the transforms, and publishes one of six states.         *)
(*                                                                         *)
(* A stamp the node stores is kept as its age, in steps of Elapse, and     *)
(* saturates one above the limit it is compared with; Off stands for a     *)
(* cleared "active" flag, whose stamp is never read.                       *)
(***************************************************************************)
EXTENDS Integers

CONSTANTS AmclTimeout,     \* amcl_timeout_sec, in steps
          LostHold,        \* lost_hold_time_sec
          TfTimeout,       \* tf_timeout_sec
          RecoveredHold    \* recovered_hold_time_sec

ASSUME LocalizationAssumption ==
    /\ AmclTimeout \in Nat
    /\ LostHold \in Nat
    /\ TfTimeout \in Nat
    /\ RecoveredHold \in Nat

VARIABLES
    health,                 \* state_
    has_amcl_pose,
    amcl_age,               \* now - last_amcl_stamp_
    covariance,             \* EvaluateCovariance(covariance_, thresholds_)
    tf_ready,               \* what TfReady() would find
    recovering_requested,
    covariance_issue,       \* now - covariance_issue_stamp_, or Off
    tf_issue,               \* now - tf_issue_stamp_, or Off
    recovered_hold,         \* now - recovered_stamp_, or Off
    published_health        \* the last message on /localization/health

signals == <<has_amcl_pose, amcl_age, covariance, tf_ready>>
monitorVars == <<health, signals, recovering_requested, covariance_issue, tf_issue,
                 recovered_hold, published_health>>

Off == -1
Levels == {"OK", "WARN", "LOST"}
HealthStates == {"UNKNOWN", "OK", "UNSTABLE", "LOST", "RECOVERING", "RECOVERED"}

(***************************************************************************)
(* The variables hold values of their types, and every age is bounded.     *)
(***************************************************************************)
LocalizationTypeOK ==
    /\ health \in HealthStates
    /\ published_health \in HealthStates
    /\ has_amcl_pose \in BOOLEAN
    /\ amcl_age \in 0..(AmclTimeout + 1)
    /\ covariance \in Levels
    /\ tf_ready \in BOOLEAN
    /\ recovering_requested \in BOOLEAN
    /\ covariance_issue \in Off..LostHold
    /\ tf_issue \in Off..TfTimeout
    /\ recovered_hold \in Off..RecoveredHold

LocalizationInit ==
    /\ health = "UNKNOWN"
    /\ has_amcl_pose = FALSE
    /\ amcl_age = 0
    /\ covariance = "OK"
    /\ tf_ready = FALSE
    /\ recovering_requested = FALSE
    /\ covariance_issue = Off
    /\ tf_issue = Off
    /\ recovered_hold = Off
    /\ published_health = "UNKNOWN"

HandleAmclPose(level) ==
    /\ has_amcl_pose' = TRUE
    /\ amcl_age' = 0
    /\ covariance' = level
    /\ UNCHANGED <<health, tf_ready, recovering_requested, covariance_issue, tf_issue,
                   recovered_hold, published_health>>

HandleInitialPose ==
    /\ health \in {"LOST", "RECOVERING"}
    /\ health' = "RECOVERING"
    /\ recovering_requested' = TRUE
    /\ UNCHANGED <<signals, covariance_issue, tf_issue, recovered_hold, published_health>>

\* The transforms map -> odom and odom -> base appear or disappear.
TfChanges ==
    /\ tf_ready' = ~tf_ready
    /\ UNCHANGED <<health, has_amcl_pose, amcl_age, covariance, recovering_requested,
                   covariance_issue, tf_issue, recovered_hold, published_health>>

-----------------------------------------------------------------------------
\* UpdateIssueTimers: the age an issue has after this tick.
IssueAge(age, present) ==
    IF ~present THEN Off ELSE IF age = Off THEN 0 ELSE age

CovarianceIssue == IssueAge(covariance_issue, has_amcl_pose /\ covariance = "LOST")
TfIssue == IssueAge(tf_issue, ~tf_ready)

\* Fault: the age of the pose is not looked at.
FaultyAmclTimedOut == ~has_amcl_pose

AmclTimedOut == ~has_amcl_pose \/ amcl_age > AmclTimeout

Stable == has_amcl_pose /\ ~AmclTimedOut /\ covariance = "OK" /\ tf_ready

LostReason ==
    \/ AmclTimedOut
    \/ covariance = "LOST" /\ CovarianceIssue >= LostHold
    \/ ~tf_ready /\ TfIssue >= TfTimeout

\* Fault: a relocalization is not a loss.
FaultyHandleStable ==
    IF health = "LOST"
    THEN /\ health' = "RECOVERED"
         /\ recovering_requested' = FALSE
         /\ recovered_hold' = 0
    ELSE /\ UNCHANGED recovering_requested
         /\ health' = "OK" /\ recovered_hold' = Off

\* Fault: the request is never taken back.
FaultyHandleStableKeepsRequest ==
    /\ UNCHANGED recovering_requested
    /\ IF health \in {"LOST", "RECOVERING"} \/ recovering_requested
       THEN health' = "RECOVERED" /\ recovered_hold' = 0
       ELSE health' = "OK" /\ recovered_hold' = Off

HandleStable ==
    IF health \in {"LOST", "RECOVERING"} \/ recovering_requested
    THEN /\ health' = "RECOVERED"
         /\ recovering_requested' = FALSE
         /\ recovered_hold' = 0
    ELSE /\ UNCHANGED recovering_requested
         /\ IF recovered_hold # Off /\ recovered_hold < RecoveredHold
            THEN health' = "RECOVERED" /\ UNCHANGED recovered_hold
            ELSE health' = "OK" /\ recovered_hold' = Off

\* The first condition of Tick that holds decides.
EvaluateHealth ==
    CASE ~has_amcl_pose ->
            health' = "UNKNOWN" /\ UNCHANGED <<recovering_requested, recovered_hold>>
      [] has_amcl_pose /\ recovering_requested /\ ~Stable ->
            health' = "RECOVERING" /\ UNCHANGED <<recovering_requested, recovered_hold>>
      [] Stable ->
            HandleStable
      [] has_amcl_pose /\ ~recovering_requested /\ ~Stable /\ LostReason ->
            health' = "LOST" /\ UNCHANGED <<recovering_requested, recovered_hold>>
      [] has_amcl_pose /\ ~recovering_requested /\ ~Stable /\ ~LostReason ->
            health' = "UNSTABLE" /\ UNCHANGED <<recovering_requested, recovered_hold>>

LocalizationTick ==
    /\ covariance_issue' = CovarianceIssue
    /\ tf_issue' = TfIssue
    /\ EvaluateHealth
    /\ published_health' = health'
    /\ UNCHANGED signals

Older(age, limit) == IF age = Off \/ age >= limit THEN age ELSE age + 1

\* One step of time passes.
LocalizationElapse ==
    /\ amcl_age' = IF has_amcl_pose THEN Older(amcl_age, AmclTimeout + 1) ELSE amcl_age
    /\ covariance_issue' = Older(covariance_issue, LostHold)
    /\ tf_issue' = Older(tf_issue, TfTimeout)
    /\ recovered_hold' = Older(recovered_hold, RecoveredHold)
    /\ UNCHANGED <<health, has_amcl_pose, covariance, tf_ready, recovering_requested,
                   published_health>>

LocalizationNext ==
    \/ \E level \in Levels : HandleAmclPose(level)
    \/ HandleInitialPose
    \/ TfChanges
    \/ LocalizationTick
    \/ LocalizationElapse

LocalizationSpec ==
    /\ LocalizationInit
    /\ [][LocalizationNext]_monitorVars
    /\ WF_monitorVars(LocalizationTick)
    /\ WF_monitorVars(LocalizationElapse)
=============================================================================
