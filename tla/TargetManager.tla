----------------------------- MODULE TargetManager -----------------------------
(***************************************************************************)
(* The targets the perception keeps from the detections of one frame to    *)
(* the next.  A place is a whole number on a line: the filtered position   *)
(* of a target, rounded down.  hit_count and missed_frames stop at the     *)
(* last value anybody compares them with.                                  *)
(***************************************************************************)
EXTENDS Integers, Sequences, FiniteSets

CONSTANTS
    ConfirmFrames,       \* confirm_frames
    LostFrames,          \* lost_frames
    RetirementFrames,    \* lost_retirement_frames
    MaxMatchDistance,    \* max_match_distance
    EmaAlpha,            \* ema_alpha, in tenths
    Cooldown             \* processed_cooldown_sec, in steps of the clock

ASSUME TrackingAssumption ==
    /\ ConfirmFrames \in Nat \ {0} /\ LostFrames \in Nat \ {0}
    /\ RetirementFrames \in Nat /\ RetirementFrames >= LostFrames
    /\ MaxMatchDistance \in Nat \ {0}
    /\ EmaAlpha \in 1..10
    /\ Cooldown \in Nat

TrackingStates == {"TENTATIVE", "CONFIRMED", "LOST", "PROCESSED"}

Apart(a, b) == IF a < b THEN b - a ELSE a - b
AtMost(n, bound) == IF n < bound THEN n ELSE bound

CooldownExpired(target, stamp) ==
    /\ target.state = "PROCESSED"
    /\ stamp >= target.processed_at
    /\ stamp - target.processed_at >= Cooldown

\* What a match makes of the state, after hits of them.
StateAfterHit(state, hits) ==
    CASE state = "LOST" -> IF hits >= ConfirmFrames THEN "CONFIRMED" ELSE "TENTATIVE"
      [] state = "TENTATIVE" /\ hits >= ConfirmFrames -> "CONFIRMED"
      [] OTHER -> state

FilteredPlace(previous, current) ==
    (EmaAlpha * current + (10 - EmaAlpha) * previous) \div 10

UpdateMatchedTarget(target, observation, stamp) ==
    LET hits == AtMost(target.hits + 1, ConfirmFrames)
        matched == [target EXCEPT !.place = FilteredPlace(@, observation.place),
                                  !.seen = stamp, !.missed = 0]
    IN  CASE target.state = "PROCESSED" /\ ~CooldownExpired(target, stamp) -> matched
          [] CooldownExpired(target, stamp) ->
                [matched EXCEPT !.state = "TENTATIVE", !.hits = 1, !.processed_at = 0]
          [] target.state # "PROCESSED" ->
                [matched EXCEPT !.hits = hits, !.state = StateAfterHit(@, hits)]

AgeUnmatchedTarget(target, stamp) ==
    LET missed == AtMost(target.missed + 1, RetirementFrames + 1)
        lost == /\ missed >= LostFrames
                /\ \/ target.state \in {"TENTATIVE", "CONFIRMED"}
                   \/ CooldownExpired(target, stamp)
    IN  [target EXCEPT !.missed = missed, !.state = IF lost THEN "LOST" ELSE @]

Expired(target, stamp) ==
    /\ target.missed > RetirementFrames
    /\ target.state = "LOST" \/ CooldownExpired(target, stamp)

CreateTarget(id, observation, stamp) ==
    [id |-> id, class |-> observation.class, place |-> observation.place,
     hits |-> 1, missed |-> 0, seen |-> stamp, processed_at |-> 0,
     state |-> IF ConfirmFrames = 1 THEN "CONFIRMED" ELSE "TENTATIVE"]

-----------------------------------------------------------------------------
(* Which observation is which target: the nearest pairs first. *)

SameThing(a, b) == a.class = b.class /\ Apart(a.place, b.place) <= MaxMatchDistance

Pairs(targets, observations) ==
    {pair \in targets \X DOMAIN observations : SameThing(pair[1], observations[pair[2]])}

Nearer(p, q, observations) ==
    LET dp == Apart(p[1].place, observations[p[2]].place)
        dq == Apart(q[1].place, observations[q[2]].place)
    IN  \/ dp < dq
        \/ dp = dq /\ p[1].id < q[1].id
        \/ dp = dq /\ p[1].id = q[1].id /\ p[2] <= q[2]

Matched(targets, observations) ==
    LET round[n \in 0..Len(observations)] ==
            IF n = 0 THEN {}
            ELSE LET free == {p \in Pairs(targets, observations) :
                                \A q \in round[n - 1] : p[1] # q[1] /\ p[2] # q[2]}
                     best == {p \in free : \A q \in free : Nearer(p, q, observations)}
                 IN  round[n - 1] \cup best
    IN  round[Len(observations)]

\* The observations that are a target or become one.
Accepted(matched, observations) ==
    LET accepted[n \in 0..Len(observations)] ==
            IF n = 0 THEN {p[2] : p \in matched}
            ELSE IF \E k \in accepted[n - 1] : SameThing(observations[k], observations[n])
            THEN accepted[n - 1]
            ELSE accepted[n - 1] \cup {n}
    IN  accepted[Len(observations)]

New(matched, observations) ==
    Accepted(matched, observations) \ {p[2] : p \in matched}

\* Update: the targets after the observations of a frame, of which the new
\* ones are numbered from next on.
UpdateTargets(targets, next, observations, stamp) ==
    LET matched == Matched(targets, observations)
        new == New(matched, observations)
        kept == {UpdateMatchedTarget(p[1], observations[p[2]], stamp) : p \in matched}
                \cup {AgeUnmatchedTarget(t, stamp) : t \in {u \in targets :
                                                       \A p \in matched : p[1] # u}}
        created == {CreateTarget(next + Cardinality({k \in new : k < n}), observations[n], stamp)
                        : n \in new}
    IN  {t \in kept \cup created : ~Expired(t, stamp)}

\* MarkProcessed, with allow_lost as its only caller has it.
MarkProcessed(targets, id, stamp) ==
    {IF t.id = id /\ stamp >= t.seen
     THEN [t EXCEPT !.state = "PROCESSED", !.processed_at = stamp, !.missed = 0]
     ELSE t : t \in targets}
=============================================================================
