--------------------------- MODULE MCMissionRunner ---------------------------
(***************************************************************************)
(* Instances of the mission runner for model checking.                     *)
(***************************************************************************)
EXTENDS MissionRunner

NoOrder == <<>>
NoWorkflow == [m \in Mission |-> None]

\* Two station orders whose routes meet in storage_a.
AislePath == {<<"receiving", "storage_a">>, <<"storage_a", "packing">>}
AisleOrders ==
    [m \in StationOrder |-> IF m = "order_1" THEN <<"receiving", "storage_a">>
                                             ELSE <<"storage_a", "packing">>]

\* order_1 is a step of a fleet order, so cancel_workflow reaches it.
FleetLegs == [o \in Order |-> <<>>]
FleetWorkflow == [m \in Mission |-> IF m = "order_1" THEN "fleet" ELSE None]

\* One station sequence of two legs.
SequenceLegs == [o \in Order |-> <<"leg_1", "leg_2">>]
SequenceWorkflow == [m \in Mission |-> IF m \in {"leg_1", "leg_2"} THEN "task" ELSE None]
=============================================================================
