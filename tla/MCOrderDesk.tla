----------------------------- MODULE MCOrderDesk -----------------------------
(***************************************************************************)
(* An instance of the order desk for model checking.  One kind of client   *)
(* is connected: the operators who are asked at the stations, the          *)
(* warehouse that fills orders, or the order system with its batches,      *)
(* workflows and fleet tasks.                                              *)
(***************************************************************************)
EXTENDS OrderDesk

VARIABLE client

\* All orders drive through the same aisle.
Aisle == <<"receiving", "packing">>
AislePaths == {Aisle}
AislePathOf == [m \in StationOrder |-> Aisle]

ShopLegs == [o \in Order |-> IF o = "wave" THEN <<"wave_leg">>
                             ELSE IF o = "milk" THEN <<"milk_leg">> ELSE <<>>]
OrderOf ==
    [m \in Mission |->
        IF m = "wave_leg" THEN "wave" ELSE IF m = "milk_leg" THEN "milk"
        ELSE IF m \in {"fleet_1", "door_1"} THEN "flow" ELSE None]

WavePick == [f \in PickDropoff |-> "pick"]
WaveDropoff == [f \in PickDropoff |-> "drop"]
MilkStops == [f \in MilkRun |-> {"drop"}]

TwoOrders == [b \in Batch |-> <<"batch_1", "batch_2">>]

FleetStepTask ==
    [kind |-> "station_transport", missions |-> <<"fleet_1">>, facility |-> None, hold |-> FALSE,
     task |-> "task_1", capable |-> Robot, priority |-> 45]
DoorStepTask ==
    [kind |-> "facility_action", missions |-> <<"door_1">>, facility |-> "door", hold |-> FALSE,
     task |-> None, capable |-> {}, priority |-> 58]
TwoSteps == [o \in {"flow"} |-> <<FleetStepTask, DoorStepTask>>]

\* The robots are equally near: the local one is the second choice.
At(battery, available) == [available |-> available, station |-> "receiving", battery |-> battery]
Fleet == <<At(24, TRUE), At(25, TRUE), At(20, TRUE)>>
Reports == {[robot |-> 1, state |-> At(24, FALSE)], [robot |-> 2, state |-> At(25, FALSE)]}
Distances == [s \in Station |-> [t \in Station |-> IF s = t THEN 0 ELSE 5]]

NoChargers == <<>>

Quantities == {-1, 2}

Clients == {"station operators", "warehouse", "order system"}

MCInit == OrderInit /\ client \in Clients

MCNext ==
    /\ \/ client = "station operators" /\ ConfirmationStep /\ UNCHANGED fleetVars
       \/ client = "warehouse" /\ WarehouseStep /\ UNCHANGED fleetVars
       \/ client = "order system" /\ OrderSystemStep
       \/ MissionStep
    /\ UNCHANGED client

MCSpec == MCInit /\ [][MCNext]_<<orderDeskVars, client>>
=============================================================================
