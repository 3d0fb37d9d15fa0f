-------------------------- MODULE MCFacilityRunner --------------------------
(***************************************************************************)
(* Instances of the facility runner for model checking: one workflow, with *)
(* the facility action as its step, and no station orders.                 *)
(***************************************************************************)
EXTENDS FacilityRunner

CONSTANT Named   \* the missions that are named in a client's reservation

NoLegs == [o \in Order |-> <<>>]
NoPath == <<>>
ActionWorkflow == [m \in Mission |-> IF m \in ActionMission THEN "workflow" ELSE None]
MainCharger == [d \in Dock |-> "charger"]

\* The operator is the only client.  It reserves chargers, for nobody or for a mission
\* that may come by itself, and lifts for its sessions.
MCFacilityService ==
    \E f \in Facility, release_existing \in BOOLEAN :
        \/ \E mission \in Named \cup {None} : f \in Charger /\
              ReserveFacilityResource(f, "operator", mission, release_existing)
        \/ RequestLiftSession(f, "operator", "operator", release_existing)
        \/ \E holder \in {"operator", None} :
              ReleaseFacilityResource(f, holder) \/ ReleaseLiftSession(f, holder)

\* The services that leave the facilities alone are left out: they only change the
\* order in which the missions come and go.
MCFacilityNext ==
    \/ RunnerStep
    \/ MCFacilityService \/ DockingService \/ ChargingService
    \/ Cancellation \/ FacilityResult

MCFacilitySpec == FacilityInit /\ [][MCFacilityNext]_facilityRunnerVars
=============================================================================
