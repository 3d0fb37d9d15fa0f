----------------------------- MODULE StationDesk -----------------------------
(***************************************************************************)
(* What operators do at the stations: confirmations that wait for an       *)
(* answer or a timeout, and fulfillment orders whose picked pieces are     *)
(* counted.  Both maps live in the mission runner, beside the missions     *)
(* that drive to the stations: nothing but the operators' calls ties the   *)
(* state of an order to its missions (station_confirmation_workflow.cpp,   *)
(* fulfillment_workflow.cpp, mission_runner_node.cpp).                     *)
(***************************************************************************)
EXTENDS FacilityRunner

CONSTANTS
    Confirmation,        \* confirmation ids
    PickDropoff,         \* orders that are picking waves or replenishments
    MilkRun,             \* orders that are milk runs
    PickOf, DropoffOf,   \* the two confirmations of a pick and dropoff order
    StopsOf,             \* the confirmations of a milk run
    Quantity             \* quantities a client may name

ASSUME StationDeskAssumption ==
    /\ PickDropoff \subseteq Order /\ MilkRun \subseteq Order \ PickDropoff
    /\ PickOf \in [PickDropoff -> Confirmation] /\ DropoffOf \in [PickDropoff -> Confirmation]
    /\ StopsOf \in [MilkRun -> SUBSET Confirmation]
    /\ Quantity \subseteq Int

VARIABLES
    station_confirmations,  \* confirmation -> [state, policy], NoConfirmation without an entry
    fulfillment_orders      \* order -> its progress and counts, NoFulfillment without an entry

stationVars == <<station_confirmations, fulfillment_orders>>

Fulfillment == PickDropoff \cup MilkRun

\* Policy "none" never ends the waiting: there is no timeout, or its policy is
\* "retry" and each timeout only begins the waiting again.
TimeoutPolicy == {"none", "skip", "return_to_dock", "manual"}
Decided == {"CONFIRMED", "REJECTED", "SKIPPED", "TIMED_OUT"}

\* The policy is read only while the confirmation is pending.
Pending(policy) == [state |-> "PENDING", policy |-> policy]
Ended(state) == [state |-> state, policy |-> "none"]
NoConfirmation == Ended("none")

Progress(state, requested, picked, short) ==
    [state |-> state, requested |-> requested, picked |-> picked, short |-> short]
NoFulfillment == Progress("none", 0, 0, 0)

FulfillmentState == {"none", "AWAITING_PICK", "PICK_CONFIRMED", "SHORT_PICK", "FULFILLED",
                     "FULFILLED_WITH_SHORT_PICK", "ROUTE_QUEUED"}

StationTypeOK ==
    /\ station_confirmations \in
           [Confirmation -> [state : Decided \cup {"none", "PENDING"}, policy : TimeoutPolicy]]
    /\ fulfillment_orders \in
           [Fulfillment -> [state : FulfillmentState, requested : Nat, picked : Nat, short : Nat]]

StationInit ==
    /\ station_confirmations = [c \in Confirmation |-> NoConfirmation]
    /\ fulfillment_orders = [f \in Fulfillment |-> NoFulfillment]

IsPending(c) == station_confirmations[c].state = "PENDING"
-----------------------------------------------------------------------------
(* Confirmations.                                                          *)

\* A decided confirmation may be asked for again under the same id.
RequestStationConfirmation(c, policy) ==
    /\ ~IsPending(c)
    /\ station_confirmations' = [station_confirmations EXCEPT ![c] = Pending(policy)]
    /\ UNCHANGED <<facilityRunnerVars, fulfillment_orders>>

\* Answers of ConfirmStationAction and RejectStationAction.  The other users of
\* an answer ignore that it is refused when the confirmation is not pending.
Resolved(confirmations, cs, answer) ==
    [c \in Confirmation |->
        IF c \in cs /\ confirmations[c].state = "PENDING"
        THEN Ended(answer) ELSE confirmations[c]]

ResolveStationConfirmation(c, answer) ==
    /\ IsPending(c)
    /\ station_confirmations' = Resolved(station_confirmations, {c}, answer)
    /\ UNCHANGED <<facilityRunnerVars, fulfillment_orders>>

\* Faulty: the timer does not look whether the question is still open.
FaultyFallsDue(c, policy) ==
    station_confirmations[c] # NoConfirmation /\ (IsPending(c) => station_confirmations[c].policy = policy)

FallsDue(c, policy) == IsPending(c) /\ station_confirmations[c].policy = policy

TimesOut(c, state) ==
    station_confirmations' = [station_confirmations EXCEPT ![c] = Ended(state)]

\* One pass of ExpireStationConfirmations over one confirmation.  It runs in the
\* timer tick after the queue was started, so a start that is requested goes
\* first.
ExpireStationConfirmation(c) ==
    /\ mission_active \/ ~queue_start_requested
    /\ \/ /\ FallsDue(c, "skip") /\ TimesOut(c, "SKIPPED")
          /\ UNCHANGED facilityRunnerVars
       \/ /\ FallsDue(c, "return_to_dock") /\ TimesOut(c, "TIMED_OUT")
          /\ RequestDockReturn
          /\ UNCHANGED <<paused_workflow_orders, low_battery_dock_request_sent, trafficVars,
                         facilityVars>>
       \/ /\ FallsDue(c, "manual") /\ TimesOut(c, "TIMED_OUT")
          /\ current_state' = "NEEDS_OPERATOR"
          /\ UNCHANGED <<queueVars, paused_workflow_orders, profileVars, goalVars, controlVars,
                         recoveryVars, low_battery_dock_request_sent, trafficVars, facilityVars>>
    /\ UNCHANGED fulfillment_orders
-----------------------------------------------------------------------------
(* Fulfillment.                                                            *)

\* AddStationConfirmation leaves a confirmation that is pending already as it is.
Asked(cs) ==
    [c \in Confirmation |-> IF c \in cs /\ ~IsPending(c) THEN Pending("none")
                                                         ELSE station_confirmations[c]]

\* Faulty: an order that is known already is taken again.
FaultyQueueFulfillment(f, priority, start_if_idle) ==
    /\ SubmitStationSequenceTask(f, priority, start_if_idle, FALSE)
    /\ UNCHANGED facilityVars

\* The sequence of an order that is known already is not queued again, although
\* its missions may have ended.
QueueFulfillment(f, priority, start_if_idle) ==
    /\ fulfillment_orders[f] = NoFulfillment
    /\ SubmitStationSequenceTask(f, priority, start_if_idle, FALSE)
    /\ UNCHANGED facilityVars

SubmitFulfillmentOrder(f, quantity, priority, start_if_idle) ==
    /\ f \in PickDropoff
    /\ QueueFulfillment(f, priority, start_if_idle)
    /\ fulfillment_orders' = [fulfillment_orders EXCEPT ![f] =
           Progress("AWAITING_PICK", IF quantity > 1 THEN quantity ELSE 1, 0, 0)]
    /\ station_confirmations' = Asked({PickOf[f], DropoffOf[f]})

SubmitMilkRun(f, priority, start_if_idle) ==
    /\ f \in MilkRun
    /\ QueueFulfillment(f, priority, start_if_idle)
    /\ fulfillment_orders' = [fulfillment_orders EXCEPT ![f] = Progress("ROUTE_QUEUED", 0, 0, 0)]
    /\ station_confirmations' = Asked(StopsOf[f])

NotNegative(n) == IF n > 0 THEN n ELSE 0

\* Faulty: the missing pieces are not written down.
FaultyPicked(order, quantity) ==
    Progress("PICK_CONFIRMED", order.requested, NotNegative(quantity), 0)

Picked(order, quantity) ==
    LET picked == NotNegative(quantity)
        short  == NotNegative(order.requested - picked)
    IN  Progress(IF short > 0 THEN "SHORT_PICK" ELSE "PICK_CONFIRMED", order.requested, picked, short)

\* The order shows SHORT_PICK whatever is missing.
ShortPicked(order, quantity) ==
    LET short == NotNegative(quantity)
    IN  Progress("SHORT_PICK", order.requested, NotNegative(order.requested - short), short)

DroppedOff(order) ==
    [order EXCEPT !.state = IF order.short > 0 THEN "FULFILLED_WITH_SHORT_PICK" ELSE "FULFILLED"]

AwaitsPick(f) == f \in PickDropoff /\ fulfillment_orders[f].state = "AWAITING_PICK"

ConfirmPick(f, quantity) ==
    /\ AwaitsPick(f)
    /\ fulfillment_orders' = [fulfillment_orders EXCEPT ![f] = Picked(@, quantity)]
    /\ station_confirmations' = Resolved(station_confirmations, {PickOf[f]}, "CONFIRMED")
    /\ UNCHANGED facilityRunnerVars

\* The question for the pick stays open.
ReportShortPick(f, quantity) ==
    /\ AwaitsPick(f)
    /\ fulfillment_orders' = [fulfillment_orders EXCEPT ![f] = ShortPicked(@, quantity)]
    /\ UNCHANGED <<station_confirmations, facilityRunnerVars>>

ConfirmDropoff(f) ==
    /\ f \in PickDropoff
    /\ fulfillment_orders[f].state \in {"PICK_CONFIRMED", "SHORT_PICK"}
    /\ fulfillment_orders' = [fulfillment_orders EXCEPT ![f] = DroppedOff(@)]
    /\ station_confirmations' = Resolved(station_confirmations, {DropoffOf[f]}, "CONFIRMED")
    /\ UNCHANGED facilityRunnerVars
-----------------------------------------------------------------------------
FulfillmentRequest(priority, start_if_idle) ==
    \E f \in Fulfillment :
        \/ \E n \in Quantity : SubmitFulfillmentOrder(f, n, priority, start_if_idle)
        \/ SubmitMilkRun(f, priority, start_if_idle)

Answer ==
    \E c \in Confirmation, answer \in {"CONFIRMED", "REJECTED"} :
        ResolveStationConfirmation(c, answer)

ConfirmationStep ==
    \/ \E c \in Confirmation :
          \/ \E policy \in TimeoutPolicy : RequestStationConfirmation(c, policy)
          \/ ExpireStationConfirmation(c)
    \/ Answer

FulfillmentStep ==
    \E f \in Fulfillment :
        \/ \E n \in Quantity : ConfirmPick(f, n) \/ ReportShortPick(f, n)
        \/ ConfirmDropoff(f)

WarehouseStep ==
    \/ \E p \in Priority : \E start \in BOOLEAN : FulfillmentRequest(p, start)
    \/ FulfillmentStep \/ Answer

StationStep == ConfirmationStep \/ WarehouseStep
-----------------------------------------------------------------------------
\* An answered, skipped or expired confirmation stays as it was decided until
\* somebody asks again: an answer that comes after the timeout changes nothing,
\* nor does the timer after an answer.
ConfirmationIsDecidedOnce ==
    [][\A c \in Confirmation :
          /\ station_confirmations[c].state \in Decided
          /\ station_confirmations'[c] # station_confirmations[c]
          => station_confirmations'[c].state = "PENDING"]_station_confirmations

\* An order goes forward only, from the pick to the dropoff, however often it is
\* submitted: what was picked or delivered is not picked again.
FulfillmentOnlyAdvances ==
    [][\A f \in PickDropoff :
          LET next == fulfillment_orders'[f].state IN
          CASE fulfillment_orders[f].state = "none" -> next \in {"none", "AWAITING_PICK"}
            [] fulfillment_orders[f].state = "AWAITING_PICK" ->
                   next \in {"PICK_CONFIRMED", "SHORT_PICK"}
                       \/ fulfillment_orders'[f] = fulfillment_orders[f]
            [] fulfillment_orders[f].state \in {"PICK_CONFIRMED", "SHORT_PICK"} ->
                   next \in {"FULFILLED", "FULFILLED_WITH_SHORT_PICK"}
                       \/ fulfillment_orders'[f] = fulfillment_orders[f]
            [] OTHER -> fulfillment_orders'[f] = fulfillment_orders[f]]_fulfillment_orders

\* The pieces of an order add up, whatever quantities the operators name: an
\* order shows FULFILLED only if everything that was requested was picked, and
\* FULFILLED_WITH_SHORT_PICK only if something is missing.
StockIsCounted ==
    \A f \in PickDropoff :
        LET order == fulfillment_orders[f] IN
        /\ order.state \notin {"none", "AWAITING_PICK"} =>
               order.picked + order.short >= order.requested
        /\ order.state = "FULFILLED" => order.picked >= order.requested
        /\ order.state = "FULFILLED_WITH_SHORT_PICK" => order.picked < order.requested
=============================================================================
