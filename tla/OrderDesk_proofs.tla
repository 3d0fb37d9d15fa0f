-------------------------- MODULE OrderDesk_proofs --------------------------
(***************************************************************************)
(* What holds of the station desk and of the orders for every catalog of   *)
(* confirmations, fulfillment orders, batches, workflows and robots, for   *)
(* any quantities and policies.                                            *)
(***************************************************************************)
EXTENDS OrderDesk, FacilityRunner_proofs, WellFoundedInduction
-----------------------------------------------------------------------------
(* The station desk.                                                        *)

\* Only the stations' own calls and the timer touch questions and pieces: orders,
\* the fleet and the missions leave them alone.
LEMMA StationCases ==
    ASSUME [OrderNext]_orderDeskVars
    PROVE  StationStep \/ UNCHANGED stationVars
<1>1. OrderSystemStep => UNCHANGED stationVars
  <2>1. ASSUME NEW p, SubmitOrder(p)  PROVE UNCHANGED stationVars
    BY <2>1 DEF SubmitOrder, Branch, SubmitStationOrderBatch, SubmitScenarioWorkflow,
                SubmitBusinessOrder, SubmitScenarioTask, SubmitFleetStationTask,
                SubmitVda5050Order, SubmitInTurn
  <2>2. OrderControl => UNCHANGED stationVars
    BY DEF OrderControl, CancelStationOrderBatch, ReprioritizeBatch, CancelOrder
  <2>3. FleetStep => UNCHANGED stationVars
    BY DEF FleetStep, UpdateFleetRobotState, UpdateRemoteTaskState
  <2> QED
    BY <2>1, <2>2, <2>3 DEF OrderSystemStep
<1>2. MissionStep => UNCHANGED stationVars
  BY DEF MissionStep
<1>3. UNCHANGED orderDeskVars => UNCHANGED stationVars
  BY DEF orderDeskVars
<1> QED
  BY <1>1, <1>2, <1>3 DEF OrderNext

\* What an order has counted so far.  After the pick the pieces add up, and pieces
\* are missing only when fewer were picked than requested.
Counted(order) ==
    /\ order.state # "ROUTE_QUEUED"
    /\ order.state # "none" => order.requested >= 1
    /\ order.state \notin {"none", "AWAITING_PICK"} =>
           /\ order.picked + order.short >= order.requested
           /\ order.short > 0 => order.picked < order.requested
    /\ order.state = "FULFILLED" => order.short = 0
    /\ order.state = "FULFILLED_WITH_SHORT_PICK" => order.short > 0

StationInv ==
    /\ StationTypeOK
    /\ \A f \in PickDropoff : Counted(fulfillment_orders[f])

LEMMA StationInvInit == OrderInit => StationInv
<1> SUFFICES ASSUME OrderInit  PROVE StationInv
  OBVIOUS
<1>1. NoConfirmation \in [state : Decided \cup {"none", "PENDING"}, policy : TimeoutPolicy]
  BY DEF NoConfirmation, Ended, TimeoutPolicy
<1>2. NoFulfillment \in [state : FulfillmentState, requested : Nat, picked : Nat, short : Nat]
  BY DEF NoFulfillment, Progress, FulfillmentState
<1>3. Counted(NoFulfillment)
  BY DEF Counted, NoFulfillment, Progress
<1> QED
  BY <1>1, <1>2, <1>3 DEF OrderInit, StationInit, StationInv, StationTypeOK, Fulfillment

\* The entries of the two maps.
StationOrderType == [state : FulfillmentState, requested : Nat, picked : Nat, short : Nat]
QuestionType == [state : Decided \cup {"none", "PENDING"}, policy : TimeoutPolicy]

LEMMA CountsOfPick ==
    ASSUME NEW order \in StationOrderType, Counted(order), order.state = "AWAITING_PICK",
           NEW n \in Int
    PROVE  /\ Picked(order, n) \in StationOrderType /\ Counted(Picked(order, n))
           /\ Picked(order, n).state \in {"PICK_CONFIRMED", "SHORT_PICK"}
           /\ ShortPicked(order, n) \in StationOrderType /\ Counted(ShortPicked(order, n))
           /\ ShortPicked(order, n).state = "SHORT_PICK"
<1>1. order.requested \in Nat /\ order.requested >= 1
  BY DEF Counted, StationOrderType
<1>2. \A k \in Int : NotNegative(k) \in Nat /\ NotNegative(k) >= k /\ (NotNegative(k) > 0 => NotNegative(k) = k)
  BY DEF NotNegative
<1>3. ASSUME NEW picked \in Nat, NEW short \in Nat, NEW state \in {"PICK_CONFIRMED", "SHORT_PICK"},
             picked + short >= order.requested, short > 0 => picked < order.requested
      PROVE  /\ Progress(state, order.requested, picked, short) \in StationOrderType
             /\ Counted(Progress(state, order.requested, picked, short))
             /\ Progress(state, order.requested, picked, short).state = state
  BY <1>1, <1>3 DEF Progress, Counted, StationOrderType, FulfillmentState
<1>4. /\ Picked(order, n) \in StationOrderType /\ Counted(Picked(order, n))
      /\ Picked(order, n).state \in {"PICK_CONFIRMED", "SHORT_PICK"}
  <2> DEFINE picked == NotNegative(n)
             short  == NotNegative(order.requested - picked)
             state  == IF short > 0 THEN "SHORT_PICK" ELSE "PICK_CONFIRMED"
  <2>1. Picked(order, n) = Progress(state, order.requested, picked, short)
    BY DEF Picked
  <2>2. picked \in Nat
    BY <1>2
  <2>3. short \in Nat /\ short >= order.requested - picked
        /\ (short > 0 => short = order.requested - picked)
    BY <1>1, <1>2, <2>2
  <2>4. state \in {"PICK_CONFIRMED", "SHORT_PICK"}
    OBVIOUS
  <2> HIDE DEF picked, short, state
  <2>5. picked + short >= order.requested /\ (short > 0 => picked < order.requested)
    BY <1>1, <2>2, <2>3
  <2> QED
    BY <1>3, <2>1, <2>2, <2>3, <2>4, <2>5
<1>5. /\ ShortPicked(order, n) \in StationOrderType /\ Counted(ShortPicked(order, n))
      /\ ShortPicked(order, n).state = "SHORT_PICK"
  <2> DEFINE short  == NotNegative(n)
             picked == NotNegative(order.requested - short)
  <2>1. ShortPicked(order, n) = Progress("SHORT_PICK", order.requested, picked, short)
    BY DEF ShortPicked
  <2>2. short \in Nat
    BY <1>2
  <2>3. picked \in Nat /\ picked >= order.requested - short
        /\ (picked > 0 => picked = order.requested - short)
    BY <1>1, <1>2, <2>2
  <2> HIDE DEF picked, short
  <2>4. picked + short >= order.requested /\ (short > 0 => picked < order.requested)
    BY <1>1, <2>2, <2>3
  <2> QED
    BY <1>3, <2>1, <2>2, <2>3, <2>4
<1> QED
  BY <1>4, <1>5

LEMMA CountsOfDropoff ==
    ASSUME NEW order \in StationOrderType, Counted(order),
           order.state \in {"PICK_CONFIRMED", "SHORT_PICK"}
    PROVE  /\ DroppedOff(order) \in StationOrderType /\ Counted(DroppedOff(order))
           /\ DroppedOff(order).state \in {"FULFILLED", "FULFILLED_WITH_SHORT_PICK"}
<1>1. order.short \in Nat /\ order.picked \in Nat /\ order.requested \in Nat
  BY DEF StationOrderType
<1>2. CASE order.short > 0
  BY <1>1, <1>2 DEF DroppedOff, Counted, StationOrderType, FulfillmentState
<1>3. CASE ~(order.short > 0)
  <2>1. order.short = 0
    BY <1>1, <1>3
  <2> QED
    BY <1>1, <2>1 DEF DroppedOff, Counted, StationOrderType, FulfillmentState
<1> QED
  BY <1>2, <1>3

\* How the state of an order may change: a first entry, the pick, the dropoff.
Advances(order, next) ==
    \/ next = order
    \/ order.state = "none" /\ next.state = "AWAITING_PICK"
    \/ order.state = "AWAITING_PICK" /\ next.state \in {"PICK_CONFIRMED", "SHORT_PICK"}
    \/ /\ order.state \in {"PICK_CONFIRMED", "SHORT_PICK"}
       /\ next.state \in {"FULFILLED", "FULFILLED_WITH_SHORT_PICK"}

OrdersAdvance ==
    /\ fulfillment_orders' \in [Fulfillment -> StationOrderType]
    /\ \A f \in PickDropoff :
          /\ Counted(fulfillment_orders'[f])
          /\ Advances(fulfillment_orders[f], fulfillment_orders'[f])

LEMMA OneOrderAdvances ==
    ASSUME StationInv, NEW f \in Fulfillment, NEW next \in StationOrderType,
           fulfillment_orders' = [fulfillment_orders EXCEPT ![f] = next],
           f \in PickDropoff => Counted(next) /\ Advances(fulfillment_orders[f], next)
    PROVE  OrdersAdvance
<1>1. fulfillment_orders \in [Fulfillment -> StationOrderType] /\ PickDropoff \subseteq Fulfillment
  BY DEF StationInv, StationTypeOK, StationOrderType, Fulfillment
<1>2. fulfillment_orders' \in [Fulfillment -> StationOrderType]
  BY <1>1
<1>3. ASSUME NEW g \in PickDropoff
      PROVE  /\ Counted(fulfillment_orders'[g])
             /\ Advances(fulfillment_orders[g], fulfillment_orders'[g])
  <2>1. CASE g = f
    BY <1>1, <2>1
  <2>2. CASE g # f
    <3>1. fulfillment_orders'[g] = fulfillment_orders[g]
      BY <1>1, <2>2
    <3>2. Counted(fulfillment_orders[g])
      BY DEF StationInv
    <3> QED
      BY <3>1, <3>2 DEF Advances
  <2> QED
    BY <2>1, <2>2
<1> QED
  BY <1>2, <1>3 DEF OrdersAdvance

LEMMA OrdersStay ==
    ASSUME StationInv, fulfillment_orders' = fulfillment_orders
    PROVE  OrdersAdvance
  BY DEF StationInv, StationTypeOK, StationOrderType, OrdersAdvance, Advances

LEMMA FulfillmentStepCases ==
    ASSUME StationInv, StationStep
    PROVE  OrdersAdvance
<1>0. /\ PickDropoff \subseteq Fulfillment /\ MilkRun \subseteq Fulfillment
      /\ MilkRun \cap PickDropoff = {} /\ Quantity \subseteq Int
      /\ fulfillment_orders \in [Fulfillment -> StationOrderType]
  BY StationDeskAssumption DEF Fulfillment, StationInv, StationTypeOK, StationOrderType
<1>1. ASSUME NEW f \in Fulfillment, NEW n \in Quantity, NEW p, NEW start,
             SubmitFulfillmentOrder(f, n, p, start)
      PROVE  OrdersAdvance
  <2> DEFINE requested == IF n > 1 THEN n ELSE 1
             next == Progress("AWAITING_PICK", requested, 0, 0)
  <2>1. requested \in Nat /\ requested >= 1
    BY <1>0
  <2> HIDE DEF requested
  <2>2. next \in StationOrderType /\ Counted(next) /\ next.state = "AWAITING_PICK"
    BY <2>1 DEF StationOrderType, Counted, Progress, FulfillmentState
  <2>3. /\ fulfillment_orders' = [fulfillment_orders EXCEPT ![f] = next]
        /\ fulfillment_orders[f] = NoFulfillment
    BY <1>1 DEF SubmitFulfillmentOrder, QueueFulfillment, requested
  <2>4. Advances(fulfillment_orders[f], next)
    BY <2>2, <2>3 DEF Advances, NoFulfillment, Progress
  <2> HIDE DEF next
  <2> QED
    BY <2>2, <2>3, <2>4, OneOrderAdvances
<1>2. ASSUME NEW f \in Fulfillment, NEW p, NEW start, SubmitMilkRun(f, p, start)
      PROVE  OrdersAdvance
  <2> DEFINE next == Progress("ROUTE_QUEUED", 0, 0, 0)
  <2>1. next \in StationOrderType
    BY DEF StationOrderType, Progress, FulfillmentState
  <2>2. fulfillment_orders' = [fulfillment_orders EXCEPT ![f] = next] /\ f \notin PickDropoff
    BY <1>0, <1>2 DEF SubmitMilkRun
  <2> HIDE DEF next
  <2> QED
    BY <2>1, <2>2, OneOrderAdvances
<1>3. ASSUME NEW f \in Fulfillment, NEW n \in Quantity, ConfirmPick(f, n) \/ ReportShortPick(f, n)
      PROVE  OrdersAdvance
  <2>1. /\ fulfillment_orders[f] \in StationOrderType /\ f \in PickDropoff /\ n \in Int
        /\ fulfillment_orders[f].state = "AWAITING_PICK" /\ Counted(fulfillment_orders[f])
    BY <1>0, <1>3 DEF ConfirmPick, ReportShortPick, AwaitsPick, StationInv
  <2>2. PICK next : /\ next \in {Picked(fulfillment_orders[f], n), ShortPicked(fulfillment_orders[f], n)}
                    /\ fulfillment_orders' = [fulfillment_orders EXCEPT ![f] = next]
    BY <1>3 DEF ConfirmPick, ReportShortPick
  <2>3. /\ next \in StationOrderType /\ Counted(next)
        /\ next.state \in {"PICK_CONFIRMED", "SHORT_PICK"}
    BY <2>1, <2>2, CountsOfPick
  <2> QED
    BY <2>1, <2>2, <2>3, OneOrderAdvances DEF Advances
<1>4. ASSUME NEW f \in Fulfillment, ConfirmDropoff(f)
      PROVE  OrdersAdvance
  <2>1. /\ fulfillment_orders[f] \in StationOrderType /\ f \in PickDropoff
        /\ fulfillment_orders[f].state \in {"PICK_CONFIRMED", "SHORT_PICK"}
        /\ Counted(fulfillment_orders[f])
    BY <1>0, <1>4 DEF ConfirmDropoff, StationInv
  <2>2. fulfillment_orders' = [fulfillment_orders EXCEPT ![f] = DroppedOff(fulfillment_orders[f])]
    BY <1>4 DEF ConfirmDropoff
  <2> QED
    BY <2>1, <2>2, CountsOfDropoff, OneOrderAdvances DEF Advances
<1>5. Answer \/ ConfirmationStep => fulfillment_orders' = fulfillment_orders
  BY DEF Answer, ConfirmationStep, ResolveStationConfirmation, RequestStationConfirmation,
         ExpireStationConfirmation
<1> QED
  BY <1>1, <1>2, <1>3, <1>4, <1>5, OrdersStay
     DEF StationStep, WarehouseStep, FulfillmentRequest, FulfillmentStep

\* A decided question changes only by being asked again.
AskedAgain(question, next) ==
    question.state \in Decided /\ next # question => next.state = "PENDING"

QuestionsAreKept ==
    /\ station_confirmations' \in [Confirmation -> QuestionType]
    /\ \A c \in Confirmation : AskedAgain(station_confirmations[c], station_confirmations'[c])

LEMMA OneQuestion ==
    ASSUME StationInv, NEW c \in Confirmation, NEW next \in QuestionType,
           station_confirmations' = [station_confirmations EXCEPT ![c] = next],
           AskedAgain(station_confirmations[c], next)
    PROVE  QuestionsAreKept
<1>1. station_confirmations \in [Confirmation -> QuestionType]
  BY DEF StationInv, StationTypeOK, QuestionType
<1>2. station_confirmations' \in [Confirmation -> QuestionType]
  BY <1>1
<1>3. ASSUME NEW d \in Confirmation
      PROVE  AskedAgain(station_confirmations[d], station_confirmations'[d])
  BY <1>1 DEF AskedAgain
<1> QED
  BY <1>2, <1>3 DEF QuestionsAreKept

LEMMA AnswersAndQuestions ==
    ASSUME StationInv, NEW cs
    PROVE  /\ station_confirmations' = Asked(cs) => QuestionsAreKept
           /\ \A answer \in {"CONFIRMED", "REJECTED"} :
                 station_confirmations' = Resolved(station_confirmations, cs, answer)
                     => QuestionsAreKept
<1>1. station_confirmations \in [Confirmation -> QuestionType]
  BY DEF StationInv, StationTypeOK, QuestionType
<1>2. ASSUME station_confirmations' = Asked(cs)
      PROVE  QuestionsAreKept
  <2>1. Pending("none") \in QuestionType /\ Pending("none").state = "PENDING"
    BY DEF Pending, QuestionType, TimeoutPolicy
  <2>2. \A c \in Confirmation : station_confirmations'[c] \in {Pending("none"), station_confirmations[c]}
    BY <1>2 DEF Asked
  <2>3. station_confirmations' \in [Confirmation -> QuestionType]
    BY <1>1, <1>2, <2>1 DEF Asked
  <2> QED
    BY <2>1, <2>2, <2>3 DEF QuestionsAreKept, AskedAgain
<1>3. ASSUME NEW answer \in {"CONFIRMED", "REJECTED"},
             station_confirmations' = Resolved(station_confirmations, cs, answer)
      PROVE  QuestionsAreKept
  <2>1. Ended(answer) \in QuestionType
    BY <1>3 DEF Ended, QuestionType, TimeoutPolicy, Decided
  <2>2. \A c \in Confirmation :
           \/ station_confirmations'[c] = station_confirmations[c]
           \/ station_confirmations[c].state = "PENDING"
    BY <1>3 DEF Resolved
  <2>3. station_confirmations' \in [Confirmation -> QuestionType]
    BY <1>1, <1>3, <2>1 DEF Resolved
  <2> QED
    BY <2>2, <2>3 DEF QuestionsAreKept, AskedAgain, Decided
<1> QED
  BY <1>2, <1>3

LEMMA QuestionCases ==
    ASSUME StationInv, StationStep
    PROVE  QuestionsAreKept
<1>1. station_confirmations' = station_confirmations => QuestionsAreKept
  BY DEF StationInv, StationTypeOK, QuestionType, QuestionsAreKept, AskedAgain
<1>2. ASSUME NEW c \in Confirmation, NEW policy \in TimeoutPolicy,
             RequestStationConfirmation(c, policy)
      PROVE  QuestionsAreKept
  <2>1. Pending(policy) \in QuestionType /\ Pending(policy).state = "PENDING"
    BY DEF Pending, QuestionType
  <2>2. AskedAgain(station_confirmations[c], Pending(policy))
    BY <2>1 DEF AskedAgain
  <2>3. station_confirmations' = [station_confirmations EXCEPT ![c] = Pending(policy)]
    BY <1>2 DEF RequestStationConfirmation
  <2> QED
    BY <2>1, <2>2, <2>3, OneQuestion
<1>3. ASSUME NEW c \in Confirmation, ExpireStationConfirmation(c)
      PROVE  QuestionsAreKept
  <2>1. PICK state \in {"SKIPPED", "TIMED_OUT"} : TimesOut(c, state)
    BY <1>3 DEF ExpireStationConfirmation
  <2>2. station_confirmations[c].state = "PENDING"
    BY <1>3 DEF ExpireStationConfirmation, FallsDue, IsPending
  <2>3. Ended(state) \in QuestionType
    BY DEF Ended, QuestionType, Decided, TimeoutPolicy
  <2>4. AskedAgain(station_confirmations[c], Ended(state))
    BY <2>2 DEF AskedAgain, Decided
  <2>5. station_confirmations' = [station_confirmations EXCEPT ![c] = Ended(state)]
    BY <2>1 DEF TimesOut
  <2> QED
    BY <2>3, <2>4, <2>5, OneQuestion
<1>4. Answer => QuestionsAreKept
  BY AnswersAndQuestions DEF Answer, ResolveStationConfirmation
<1>5. FulfillmentStep => QuestionsAreKept
  BY <1>1, AnswersAndQuestions DEF FulfillmentStep, ConfirmPick, ReportShortPick, ConfirmDropoff
<1>6. ASSUME NEW p, NEW start, FulfillmentRequest(p, start)
      PROVE  QuestionsAreKept
  BY <1>6, AnswersAndQuestions DEF FulfillmentRequest, SubmitFulfillmentOrder, SubmitMilkRun
<1> QED
  BY <1>2, <1>3, <1>4, <1>5, <1>6 DEF StationStep, WarehouseStep, ConfirmationStep

LEMMA StationInvStep ==
    ASSUME StationInv, [OrderNext]_orderDeskVars
    PROVE  StationInv' /\ OrdersAdvance /\ QuestionsAreKept
<1>1. OrdersAdvance /\ QuestionsAreKept
  <2>1. CASE StationStep
    BY <2>1, FulfillmentStepCases, QuestionCases
  <2>2. CASE UNCHANGED stationVars
    BY <2>2, OrdersStay DEF stationVars, QuestionsAreKept, AskedAgain, QuestionType, StationInv, StationTypeOK
  <2> QED
    BY <2>1, <2>2, StationCases
<1> QED
  BY <1>1 DEF StationInv, StationTypeOK, OrdersAdvance, QuestionsAreKept, QuestionType, StationOrderType

\* The maps of the station desk keep their types, and the pieces of every pick and
\* dropoff order add up.
THEOREM StationInvariance == OrderSpec => []StationInv
<1>1. StationInv /\ [OrderNext]_orderDeskVars => StationInv'
  BY StationInvStep
<1> QED
  BY <1>1, StationInvInit, PTL DEF OrderSpec

\* Whatever quantities operators name and however often they call, an order is shown
\* as fulfilled only if everything requested was picked, and as short only if
\* something is missing.
THEOREM StockIsAlwaysCounted == OrderSpec => []StockIsCounted
<1>1. StationInv => StockIsCounted
  <2> SUFFICES ASSUME StationInv, NEW f \in PickDropoff
               PROVE  LET order == fulfillment_orders[f] IN
                      /\ order.state \notin {"none", "AWAITING_PICK"} =>
                             order.picked + order.short >= order.requested
                      /\ order.state = "FULFILLED" => order.picked >= order.requested
                      /\ order.state = "FULFILLED_WITH_SHORT_PICK" => order.picked < order.requested
    BY DEF StockIsCounted
  <2>1. fulfillment_orders[f] \in StationOrderType /\ Counted(fulfillment_orders[f])
    BY DEF StationInv, StationTypeOK, StationOrderType, Fulfillment
  <2> QED
    BY <2>1 DEF Counted, StationOrderType
<1> QED
  BY <1>1, StationInvariance, PTL

\* A question that was answered, skipped or timed out stays so until it is asked again.
THEOREM ConfirmationsAreDecidedOnce == OrderSpec => ConfirmationIsDecidedOnce
<1>1. StationInv /\ [OrderNext]_orderDeskVars
        => [\A c \in Confirmation :
              /\ station_confirmations[c].state \in Decided
              /\ station_confirmations'[c] # station_confirmations[c]
              => station_confirmations'[c].state = "PENDING"]_station_confirmations
  BY StationInvStep DEF QuestionsAreKept, AskedAgain
<1> QED
  BY <1>1, StationInvariance, PTL DEF OrderSpec, ConfirmationIsDecidedOnce

\* An order goes from its pick to its dropoff and never back, however often it is
\* submitted or confirmed.
THEOREM FulfillmentAdvances == OrderSpec => FulfillmentOnlyAdvances
<1> DEFINE Forward(order, next) ==
        CASE order.state = "none" -> next.state \in {"none", "AWAITING_PICK"}
          [] order.state = "AWAITING_PICK" ->
                 next.state \in {"PICK_CONFIRMED", "SHORT_PICK"} \/ next = order
          [] order.state \in {"PICK_CONFIRMED", "SHORT_PICK"} ->
                 next.state \in {"FULFILLED", "FULFILLED_WITH_SHORT_PICK"} \/ next = order
          [] OTHER -> next = order
<1>1. ASSUME NEW order, NEW next, Advances(order, next)
      PROVE  Forward(order, next)
  <2>1. CASE next = order
    <3>1. next.state = order.state
      BY <2>1
    <3> QED
      BY <2>1, <3>1
  <2>2. CASE order.state = "none" /\ next.state = "AWAITING_PICK"
    BY <2>2
  <2>3. CASE order.state = "AWAITING_PICK" /\ next.state \in {"PICK_CONFIRMED", "SHORT_PICK"}
    BY <2>3
  <2>4. CASE /\ order.state \in {"PICK_CONFIRMED", "SHORT_PICK"}
             /\ next.state \in {"FULFILLED", "FULFILLED_WITH_SHORT_PICK"}
    BY <2>4
  <2> QED
    BY <1>1, <2>1, <2>2, <2>3, <2>4 DEF Advances
<1>2. StationInv /\ [OrderNext]_orderDeskVars
        => \A f \in PickDropoff : Forward(fulfillment_orders[f], fulfillment_orders'[f])
  BY <1>1, StationInvStep DEF OrdersAdvance
<1>3. StationInv /\ [OrderNext]_orderDeskVars
        => [\A f \in PickDropoff :
              LET next == fulfillment_orders'[f].state IN
              CASE fulfillment_orders[f].state = "none" -> next \in {"none", "AWAITING_PICK"}
                [] fulfillment_orders[f].state = "AWAITING_PICK" ->
                       next \in {"PICK_CONFIRMED", "SHORT_PICK"}
                           \/ fulfillment_orders'[f] = fulfillment_orders[f]
                [] fulfillment_orders[f].state \in {"PICK_CONFIRMED", "SHORT_PICK"} ->
                       next \in {"FULFILLED", "FULFILLED_WITH_SHORT_PICK"}
                           \/ fulfillment_orders'[f] = fulfillment_orders[f]
                [] OTHER -> fulfillment_orders'[f] = fulfillment_orders[f]]_fulfillment_orders
  BY <1>2
<1> QED
  BY <1>3, StationInvariance, PTL DEF OrderSpec, FulfillmentOnlyAdvances
-----------------------------------------------------------------------------
(* The fleet.                                                               *)

\* The item whose place is taken was admissible when the call came.
LEMMA TakenIsFree ==
    ASSUME NEW requests, NEW taken \in SUBSET DOMAIN requests, NEW continue_on_error,
           AdmittedInTurn(requests, taken, continue_on_error), NEW i \in taken
    PROVE  requests[i] # None /\ FreeBefore(requests[i])
  BY DEF AdmittedInTurn, Admissible

LEMMA RemoteTaskStep ==
    ASSUME DOMAIN remote_tasks = FleetTask,
           \A t \in FleetTask : DOMAIN remote_tasks[t] = {"robot", "state"},
           [OrderNext]_orderDeskVars
    PROVE  /\ DOMAIN remote_tasks' = FleetTask
           /\ \A t \in FleetTask : DOMAIN remote_tasks'[t] = {"robot", "state"}
           /\ \A t \in FleetTask : remote_tasks[t] # NotDispatched
                                       => remote_tasks'[t].robot = remote_tasks[t].robot
<1> DEFINE Kept ==
        /\ DOMAIN remote_tasks' = FleetTask
        /\ \A t \in FleetTask : DOMAIN remote_tasks'[t] = {"robot", "state"}
        /\ \A t \in FleetTask : remote_tasks[t] # NotDispatched
                                    => remote_tasks'[t].robot = remote_tasks[t].robot
<1> SUFFICES Kept
  OBVIOUS
<1>1. remote_tasks' = remote_tasks => Kept
  OBVIOUS
<1>2. ASSUME NEW requests, NEW continue_on_error, SubmitInTurn(requests, continue_on_error)
      PROVE  Kept
  <2>1. PICK taken \in SUBSET DOMAIN requests :
             /\ AdmittedInTurn(requests, taken, continue_on_error)
             /\ ReserveAll(requests, taken)
    BY <1>2 DEF SubmitInTurn
  <2> DEFINE Takes(t) == \E r \in {requests[i] : i \in taken} : r.task = t
             new(t) == [robot |-> (CHOOSE r \in {requests[i] : i \in taken} : r.task = t).robot,
                        state |-> "DISPATCHED_REMOTE"]
  <2>2. remote_tasks' = [t \in FleetTask |-> IF Takes(t) THEN new(t) ELSE remote_tasks[t]]
    BY <2>1 DEF ReserveAll
  <2>3. \A t \in FleetTask : Takes(t) => remote_tasks[t] = NotDispatched
    <3>1. ASSUME NEW t \in FleetTask, NEW i \in taken, requests[i].task = t
          PROVE  remote_tasks[t] = NotDispatched
      <4>1. FreeBefore(requests[i])
        BY <2>1, TakenIsFree
      <4> QED
        BY <3>1, <4>1, OrderDeskAssumption DEF FreeBefore, Undispatched
    <3> QED
      BY <3>1
  <2>4. \A t \in FleetTask : DOMAIN new(t) = {"robot", "state"}
    OBVIOUS
  <2> HIDE DEF Takes, new
  <2> QED
    BY <2>2, <2>3, <2>4
<1>3. ASSUME NEW t \in FleetTask, NEW state, UpdateRemoteTaskState(t, state)
      PROVE  Kept
  <2>1. remote_tasks' = [remote_tasks EXCEPT ![t].state = state]
    BY <1>3 DEF UpdateRemoteTaskState
  <2>2. \A u \in FleetTask \ {t} : remote_tasks'[u] = remote_tasks[u]
    BY <2>1
  <2>3. remote_tasks'[t] = [remote_tasks[t] EXCEPT !.state = state]
    BY <2>1
  <2>4. DOMAIN remote_tasks'[t] = {"robot", "state"} /\ remote_tasks'[t].robot = remote_tasks[t].robot
    BY <2>3
  <2> QED
    BY <2>1, <2>2, <2>4
<1>4. ASSUME NEW p, SubmitOrder(p)  PROVE Kept
  BY <1>2, <1>4 DEF SubmitOrder, Branch, SubmitStationOrderBatch, SubmitScenarioWorkflow,
                    SubmitBusinessOrder, SubmitScenarioTask, SubmitFleetStationTask,
                    SubmitVda5050Order
<1>5. OrderControl => remote_tasks' = remote_tasks
  BY DEF OrderControl, CancelStationOrderBatch, ReprioritizeBatch, CancelOrder, fleetVars
<1>6. FleetStep => Kept
  BY <1>1, <1>3 DEF FleetStep, UpdateFleetRobotState
<1>7. (StationStep /\ UNCHANGED fleetVars) \/ MissionStep \/ UNCHANGED orderDeskVars
         => remote_tasks' = remote_tasks
  BY DEF MissionStep, fleetVars, orderDeskVars
<1> QED
  BY <1>1, <1>4, <1>5, <1>6, <1>7 DEF OrderNext, OrderSystemStep

\* A task that was given to another robot stays with it: no later order, report or
\* change of the fleet gives it to a second robot.
THEOREM RemoteTasksKeepTheirRobots == OrderSpec => RemoteTaskKeepsItsRobot
<1> DEFINE Typed == /\ DOMAIN remote_tasks = FleetTask
                    /\ \A t \in FleetTask : DOMAIN remote_tasks[t] = {"robot", "state"}
<1>1. OrderInit => Typed
  BY DEF OrderInit, NotDispatched
<1>2. Typed /\ [OrderNext]_orderDeskVars
        => /\ Typed'
           /\ [\A t \in FleetTask :
                  remote_tasks[t] # NotDispatched
                      => remote_tasks'[t].robot = remote_tasks[t].robot]_orderDeskVars
  BY RemoteTaskStep
<1> HIDE DEF Typed
<1> QED
  BY <1>1, <1>2, PTL DEF OrderSpec, RemoteTaskKeepsItsRobot
-----------------------------------------------------------------------------
(* The items of an order.                                                   *)

\* What an item asks for: missions that differ from each other, a route only for a
\* station order, a facility only for a facility action.
GoodRequest(r) ==
    /\ r.priority \in Int
    /\ r.missions \in Seq(Mission)
    /\ \A j, k \in DOMAIN r.missions : r.missions[j] = r.missions[k] => j = k
    /\ r.locks # {} =>
           \E m \in StationOrder : r.missions = <<m>> /\ r.locks = BuildRouteLockIds(PathOf[m])
    /\ r.facility # None =>
           /\ r.facility \in Facility /\ r.hold \in BOOLEAN
           /\ \E m \in ActionMission : r.missions = <<m>>

GoodCall(requests) ==
    /\ \E n \in Nat : DOMAIN requests = 1..n
    /\ \A i \in DOMAIN requests : requests[i] # None => GoodRequest(requests[i])

LEMMA StationRequestIsGood ==
    ASSUME NEW m \in StationOrder, NEW p \in Int
    PROVE  GoodRequest(StationRequest(m, p))
<1>1. m \in Mission
  BY MissionRunnerAssumption
<1> QED
  BY <1>1 DEF GoodRequest, StationRequest, Request

LEMMA FleetRequestIsGood ==
    ASSUME NEW task \in Task, task.kind = "station_transport", NEW p \in Int,
           FleetRequest(task, p) # None
    PROVE  GoodRequest(FleetRequest(task, p))
<1>1. task.missions[1] \in StationOrder
  BY OrderDeskAssumption DEF TaskAssumption
<1>2. GoodRequest(StationRequest(task.missions[1], p))
  BY <1>1, StationRequestIsGood
<1>3. \A robot : GoodRequest(Request(<<>>, p, {}, None, FALSE, task.task, robot))
  BY DEF GoodRequest, Request
<1> DEFINE robot == SelectFleetRobot(task.capable, PathOf[task.missions[1]][1])
<1>4. CASE robot = None
  BY <1>4, OrderDeskAssumption DEF FleetRequest
<1>5. CASE robot = LocalRobot
  BY <1>2, <1>5, OrderDeskAssumption DEF FleetRequest
<1>6. CASE robot \notin {None, LocalRobot}
  BY <1>3, <1>6 DEF FleetRequest
<1> QED
  BY <1>4, <1>5, <1>6

LEMMA TaskRequestIsGood ==
    ASSUME NEW task \in Task, NEW p \in Int, TaskRequest(task, p) # None
    PROVE  GoodRequest(TaskRequest(task, p))
<1> DEFINE q == IF p > 0 THEN p ELSE task.priority
<1>0. TaskAssumption(task)
  BY OrderDeskAssumption
<1>1. q \in Int
  BY <1>0 DEF TaskAssumption
<1> HIDE DEF q
<1>2. CASE task.kind = "facility_action"
  <2>1. PICK m \in ActionMission : task.missions = <<m>>
    BY <1>0, <1>2 DEF TaskAssumption
  <2>2. m \in Mission /\ task.facility \in Facility /\ task.hold \in BOOLEAN
    BY <1>0, <1>2, FacilityRunnerAssumption DEF TaskAssumption, FacilityMission
  <2>3. TaskRequest(task, p) = Request(task.missions, q, {}, task.facility, task.hold, None, None)
    BY <1>2 DEF TaskRequest, q
  <2> QED
    BY <1>1, <2>1, <2>2, <2>3 DEF GoodRequest, Request
<1>3. CASE task.kind = "station_sequence"
  <2>1. task.missions \in Seq(Mission) /\ IsInjective(task.missions)
    BY <1>0, <1>3 DEF TaskAssumption
  <2>2. TaskRequest(task, p) = Request(task.missions, q, {}, None, FALSE, None, None)
    BY <1>3 DEF TaskRequest, q
  <2> QED
    BY <1>1, <2>1, <2>2 DEF GoodRequest, Request, IsInjective
<1>4. CASE task.kind = "station_transport"
  <2>1. TaskRequest(task, p) = FleetRequest(task, q)
    BY <1>4 DEF TaskRequest, q
  <2> QED
    BY <1>1, <1>4, <2>1, FleetRequestIsGood
<1> QED
  BY <1>0, <1>2, <1>3, <1>4 DEF TaskAssumption

\* Every kind of order hands over such items.
LEMMA OrdersAreGoodCalls ==
    ASSUME NEW p \in Priority, SubmitOrder(p)
    PROVE  \E requests : \E continue_on_error \in BOOLEAN :
               GoodCall(requests) /\ SubmitInTurn(requests, continue_on_error)
<1>0. p \in Int /\ WorkflowPriority \in Int
  BY MissionRunnerAssumption, OrderDeskAssumption
<1>1. ASSUME NEW b \in Batch, NEW continue_on_error \in BOOLEAN,
             SubmitStationOrderBatch(b, p, continue_on_error)
      PROVE  \E requests : GoodCall(requests) /\ SubmitInTurn(requests, continue_on_error)
  <2> DEFINE requests == [i \in DOMAIN BatchOrders[b] |-> StationRequest(BatchOrders[b][i], p - i + 1)]
  <2>1. BatchOrders[b] \in Seq(StationOrder)
    BY OrderDeskAssumption
  <2>2. \A i \in DOMAIN BatchOrders[b] : i \in Nat /\ BatchOrders[b][i] \in StationOrder
    BY <2>1
  <2>3. \A i \in DOMAIN BatchOrders[b] : GoodRequest(StationRequest(BatchOrders[b][i], p - i + 1))
    BY <1>0, <2>2, StationRequestIsGood
  <2>4. DOMAIN requests = 1..Len(BatchOrders[b]) /\ Len(BatchOrders[b]) \in Nat
    BY <2>1
  <2>5. GoodCall(requests)
    BY <2>3, <2>4 DEF GoodCall
  <2> QED
    BY <1>1, <2>5 DEF SubmitStationOrderBatch
<1>2. ASSUME NEW o \in DOMAIN Steps, SubmitScenarioWorkflow(o, p)
      PROVE  \E requests : GoodCall(requests) /\ SubmitInTurn(requests, FALSE)
  <2> DEFINE q == IF p > 0 THEN p ELSE WorkflowPriority
             requests == [i \in DOMAIN Steps[o] |-> TaskRequest(Steps[o][i], q - i + 1)]
  <2>1. Steps[o] \in Seq(Task) /\ q \in Int
    BY <1>0, OrderDeskAssumption
  <2> HIDE DEF q
  <2>2. \A i \in DOMAIN Steps[o] : i \in Nat /\ Steps[o][i] \in Task
    BY <2>1
  <2>3. \A i \in DOMAIN Steps[o] : TaskRequest(Steps[o][i], q - i + 1) # None
                                       => GoodRequest(TaskRequest(Steps[o][i], q - i + 1))
    BY <2>1, <2>2, TaskRequestIsGood
  <2>4. DOMAIN requests = 1..Len(Steps[o]) /\ Len(Steps[o]) \in Nat
    BY <2>1
  <2>5. GoodCall(requests)
    BY <2>3, <2>4 DEF GoodCall
  <2>6. SubmitInTurn(requests, FALSE)
    BY <1>2 DEF SubmitScenarioWorkflow, q
  <2> QED
    BY <2>5, <2>6
<1>3. ASSUME NEW r, SubmitInTurn(<<r>>, FALSE), r # None => GoodRequest(r)
      PROVE  \E requests : GoodCall(requests) /\ SubmitInTurn(requests, FALSE)
  <2>1. GoodCall(<<r>>)
    BY <1>3 DEF GoodCall
  <2> QED
    BY <1>3, <2>1
<1>4. \A o \in DOMAIN Steps : \A i \in DOMAIN Steps[o] : Steps[o][i] \in Task
  BY DEF Task, Range
<1>5. ASSUME NEW o \in DOMAIN Steps, NEW i \in DOMAIN Steps[o],
             SubmitScenarioTask(Steps[o][i], p) \/ SubmitFleetStationTask(Steps[o][i], p)
      PROVE  \E requests : GoodCall(requests) /\ SubmitInTurn(requests, FALSE)
  BY <1>0, <1>3, <1>4, <1>5, TaskRequestIsGood, FleetRequestIsGood
     DEF SubmitScenarioTask, SubmitFleetStationTask
<1>6. ASSUME NEW m \in VdaOrder, SubmitVda5050Order(m, p)
      PROVE  \E requests : GoodCall(requests) /\ SubmitInTurn(requests, FALSE)
  BY <1>0, <1>3, <1>6, StationRequestIsGood, OrderDeskAssumption DEF SubmitVda5050Order
<1>7. ASSUME NEW o \in BusinessOrder, SubmitBusinessOrder(o, p)
      PROVE  \E requests : GoodCall(requests) /\ SubmitInTurn(requests, FALSE)
  BY <1>2, <1>7, OrderDeskAssumption DEF SubmitBusinessOrder
<1> QED
  BY <1>1, <1>2, <1>5, <1>6, <1>7 DEF SubmitOrder, Branch
-----------------------------------------------------------------------------
(* What the admitted items take together.                                   *)

\* The admitted items found free what they take, and take nothing twice.
Together(requests, taken) ==
    /\ \E n \in Nat : taken \subseteq 1..n
    /\ \A i \in taken : GoodRequest(requests[i]) /\ FreeBefore(requests[i])
    /\ \A i, j \in taken : i # j =>
          /\ Range(requests[i].missions) \cap Range(requests[j].missions) = {}
          /\ requests[i].locks \cap requests[j].locks = {}
          /\ requests[i].facility \in Exclusive => requests[j].facility # requests[i].facility

LEMMA AdmittedTogether ==
    ASSUME NEW requests, GoodCall(requests), NEW taken \in SUBSET DOMAIN requests,
           NEW continue_on_error, AdmittedInTurn(requests, taken, continue_on_error)
    PROVE  Together(requests, taken)
<1>1. \E n \in Nat : taken \subseteq 1..n
  BY DEF GoodCall
<1>2. \A i \in taken : GoodRequest(requests[i]) /\ FreeBefore(requests[i])
  BY TakenIsFree DEF GoodCall
<1>3. ASSUME NEW i \in taken, NEW j \in taken, j < i
      PROVE  /\ Range(requests[i].missions) \cap Range(requests[j].missions) = {}
             /\ requests[i].locks \cap requests[j].locks = {}
             /\ requests[i].facility \in Exclusive => requests[j].facility # requests[i].facility
  <2>1. Admissible(requests[i], {requests[k] : k \in {l \in taken : l < i}})
    BY DEF AdmittedInTurn
  <2>2. requests[j] \in {requests[k] : k \in {l \in taken : l < i}}
    BY <1>3
  <2> HIDE DEF AdmittedInTurn
  <2> QED
    BY <2>1, <2>2 DEF Admissible
<1>4. \A i, j \in taken : i # j => i < j \/ j < i
  BY <1>1
<1> QED
  BY <1>1, <1>2, <1>3, <1>4 DEF Together

\* A mission that no item brings a route for keeps its note of locks.
LEMMA RoutesKept ==
    ASSUME NEW requests, NEW taken, ReserveAll(requests, taken), NEW m \in Mission,
           \A i \in taken : requests[i].missions = <<m>> => requests[i].locks = {}
    PROVE  route_locks_by_mission'[m] = route_locks_by_mission[m]
<1> DEFINE Own(n) == {r \in {requests[i] : i \in taken} : r.missions = <<n>>}
<1>1. route_locks_by_mission' = [n \in Mission |->
             IF \E r \in Own(n) : r.locks # {}
             THEN UNION {r.locks : r \in Own(n)} ELSE route_locks_by_mission[n]]
  BY DEF ReserveAll
<1>2. ~ \E r \in Own(m) : r.locks # {}
  OBVIOUS
<1> HIDE DEF Own
<1> QED
  BY <1>1, <1>2

\* A lock of an item goes to the item's mission, a lock of none stays where it is.
LEMMA RoutesTaken ==
    ASSUME NEW requests, NEW taken, Together(requests, taken), ReserveAll(requests, taken)
    PROVE  /\ DOMAIN route_locks' = Resource /\ DOMAIN route_locks_by_mission' = Mission
           /\ route_locks' = [l \in Resource |-> route_locks'[l]]
           /\ route_locks_by_mission' = [m \in Mission |-> route_locks_by_mission'[m]]
           /\ \A i \in taken : \A l \in requests[i].locks :
                 l \in Resource => route_locks'[l] = requests[i].missions[1]
           /\ \A l \in Resource : (\A i \in taken : l \notin requests[i].locks)
                                      => route_locks'[l] = route_locks[l]
           /\ \A i \in taken, m \in Mission :
                 requests[i].missions = <<m>> /\ requests[i].locks # {}
                     => route_locks_by_mission'[m] = requests[i].locks
<1> DEFINE items == {requests[i] : i \in taken}
           Own(m) == {r \in items : r.missions = <<m>>}
<1>1. /\ route_locks' = [l \in Resource |->
             IF \E r \in items : l \in r.locks
             THEN (CHOOSE r \in items : l \in r.locks).missions[1] ELSE route_locks[l]]
      /\ route_locks_by_mission' = [m \in Mission |->
             IF \E r \in Own(m) : r.locks # {}
             THEN UNION {r.locks : r \in Own(m)} ELSE route_locks_by_mission[m]]
  BY DEF ReserveAll
<1>2. ASSUME NEW i \in taken, NEW l \in requests[i].locks
      PROVE  \A r \in items : l \in r.locks => r = requests[i]
  BY <1>2 DEF Together
<1>3. ASSUME NEW i \in taken, NEW m \in Mission, requests[i].missions = <<m>>
      PROVE  Own(m) = {requests[i]}
  <2>1. ASSUME NEW j \in taken, requests[j].missions = <<m>>
        PROVE  requests[j] = requests[i]
    <3>1. m \in Range(requests[i].missions) /\ m \in Range(requests[j].missions)
      BY <1>3, <2>1 DEF Range
    <3> QED
      BY <3>1 DEF Together
  <2> QED
    BY <1>3, <2>1
<1>4. ASSUME NEW i \in taken, NEW l \in requests[i].locks, l \in Resource
      PROVE  route_locks'[l] = requests[i].missions[1]
  <2>1. requests[i] \in items
    OBVIOUS
  <2>2. (CHOOSE r \in items : l \in r.locks) = requests[i]
    BY <1>2, <2>1
  <2> HIDE DEF items
  <2> QED
    BY <1>1, <1>4, <2>1, <2>2
<1>5. ASSUME NEW l \in Resource, \A i \in taken : l \notin requests[i].locks
      PROVE  route_locks'[l] = route_locks[l]
  BY <1>1, <1>5
<1>6. ASSUME NEW i \in taken, NEW m \in Mission, requests[i].missions = <<m>>,
             requests[i].locks # {}
      PROVE  route_locks_by_mission'[m] = requests[i].locks
  <2>1. Own(m) = {requests[i]}
    BY <1>3, <1>6
  <2>2. UNION {r.locks : r \in Own(m)} = requests[i].locks
    BY <2>1
  <2> HIDE DEF Own
  <2> QED
    BY <1>1, <1>6, <2>1, <2>2
<1>7. /\ DOMAIN route_locks' = Resource /\ DOMAIN route_locks_by_mission' = Mission
      /\ route_locks' = [l \in Resource |-> route_locks'[l]]
      /\ route_locks_by_mission' = [m \in Mission |-> route_locks_by_mission'[m]]
  <2> HIDE DEF items, Own
  <2> QED
    BY <1>1
<1> QED
  BY <1>4, <1>5, <1>6, <1>7

\* An item with a route is for one station order and takes the whole route, which
\* nobody else has.
LEMMA RouteOfItem ==
    ASSUME NEW requests, NEW taken, Together(requests, taken), ReserveAll(requests, taken),
           NEW i \in taken, requests[i].locks # {}
    PROVE  \E m \in StationOrder :
            /\ m \in Mission /\ requests[i].missions = <<m>>
            /\ requests[i].locks = BuildRouteLockIds(PathOf[m])
            /\ requests[i].locks \subseteq Resource
            /\ \A l \in requests[i].locks : route_locks[l] \in {Free, m} /\ route_locks'[l] = m
            /\ route_locks_by_mission'[m] = requests[i].locks
            /\ IntersectionLocks =>
                  \A e \in requests[i].locks \cap EdgeLocks : \A s \in e.ends :
                      NodeLock(s) \in requests[i].locks
<1>1. GoodRequest(requests[i]) /\ FreeBefore(requests[i])
  BY DEF Together
<1>2. PICK m \in StationOrder : /\ requests[i].missions = <<m>>
                                /\ requests[i].locks = BuildRouteLockIds(PathOf[m])
  BY <1>1 DEF GoodRequest
<1>3. m \in Mission /\ PathOf[m] \in Path
  BY MissionRunnerAssumption
<1>4. /\ requests[i].locks \subseteq Resource
      /\ IntersectionLocks =>
            \A e \in requests[i].locks \cap EdgeLocks : \A s \in e.ends :
                NodeLock(s) \in requests[i].locks
  BY <1>2, <1>3, RouteLockIds
<1>5. \A l \in requests[i].locks : route_locks[l] \in {Free, m}
  BY <1>1, <1>2 DEF FreeBefore
<1>6. \A l \in requests[i].locks : route_locks'[l] = m
  BY <1>2, <1>4, RoutesTaken
<1>7. route_locks_by_mission'[m] = requests[i].locks
  BY <1>2, <1>3, RoutesTaken
<1> QED
  BY <1>2, <1>3, <1>4, <1>5, <1>6, <1>7

\* The routes that were taken keep the invariant of the table.
LEMMA RoutesTakenKeepInv ==
    ASSUME TrafficInv, NEW requests, NEW taken, Together(requests, taken),
           ReserveAll(requests, taken)
    PROVE  /\ TrafficInv'
           /\ \A m \in Mission :
                 \/ OwnedBy(m)' \subseteq OwnedBy(m)
                 \/ m \in StationOrder /\ \E i \in taken : requests[i].missions = <<m>>
           /\ \A l \in Resource : route_locks[l] # Free => route_locks'[l] = route_locks[l]
<1> DEFINE New(l) == \E i \in taken : l \in requests[i].locks
<1>0. /\ TrafficTypeOK /\ Free \notin Mission
      /\ Mission \subseteq Owner
  BY RouteLocksAssumption DEF TrafficInv, Owner
<1>1. ASSUME NEW i \in taken, requests[i].locks # {}
      PROVE  \E m \in StationOrder :
                /\ m \in Mission /\ requests[i].missions = <<m>>
                /\ requests[i].locks = BuildRouteLockIds(PathOf[m])
                /\ requests[i].locks \subseteq Resource
                /\ \A l \in requests[i].locks : route_locks[l] \in {Free, m} /\ route_locks'[l] = m
                /\ route_locks_by_mission'[m] = requests[i].locks
                /\ IntersectionLocks =>
                      \A e \in requests[i].locks \cap EdgeLocks : \A s \in e.ends :
                          NodeLock(s) \in requests[i].locks
  BY <1>1, RouteOfItem
<1>2. ASSUME NEW l \in Resource, New(l)
      PROVE  \E m \in StationOrder :
                /\ m \in Mission /\ route_locks[l] \in {Free, m} /\ route_locks'[l] = m
                /\ \E i \in taken : requests[i].missions = <<m>>
  <2>1. PICK i \in taken : l \in requests[i].locks
    BY <1>2
  <2> QED
    BY <1>1, <2>1
<1>3. ASSUME NEW l \in Resource, ~New(l)
      PROVE  route_locks'[l] = route_locks[l]
  BY <1>3, RoutesTaken
<1>9. ASSUME NEW m \in Mission,
             \A i \in taken : requests[i].missions = <<m>> => requests[i].locks = {}
      PROVE  route_locks_by_mission'[m] = route_locks_by_mission[m]
  BY <1>9, RoutesKept
<1>4. ASSUME NEW l \in Resource, route_locks[l] # Free
      PROVE  route_locks'[l] = route_locks[l]
  <2>1. CASE New(l)
    BY <1>0, <1>2, <1>4, <2>1
  <2>2. CASE ~New(l)
    BY <1>3, <1>4, <2>2
  <2> QED
    BY <2>1, <2>2
<1> HIDE DEF New
<1>5. TrafficTypeOK'
  <2>1. \A l \in Resource : route_locks'[l] \in Owner
    BY <1>0, <1>2, <1>3 DEF TrafficTypeOK
  <2>2. \A m \in Mission : route_locks_by_mission'[m] \subseteq Resource
    <3>1. ASSUME NEW m \in Mission,
                 NEW i \in taken, requests[i].missions = <<m>>, requests[i].locks # {}
          PROVE  route_locks_by_mission'[m] \subseteq Resource
      BY <1>1, <3>1, RoutesTaken
    <3>2. ASSUME NEW m \in Mission,
                 \A i \in taken : requests[i].missions = <<m>> => requests[i].locks = {}
          PROVE  route_locks_by_mission'[m] \subseteq Resource
      BY <1>0, <1>9, <3>2 DEF TrafficTypeOK
    <3> QED
      BY <3>1, <3>2
  <2>3. /\ route_locks' = [l \in Resource |-> route_locks'[l]]
        /\ route_locks_by_mission' = [m \in Mission |-> route_locks_by_mission'[m]]
    BY RoutesTaken
  <2>4. route_locks' \in [Resource -> Owner]
    BY <2>1, <2>3
  <2>5. route_locks_by_mission' \in [Mission -> SUBSET Resource]
    BY <2>2, <2>3
  <2> QED
    BY <2>4, <2>5 DEF TrafficTypeOK
<1>6. EdgeOwnerHoldsStations'
  <2> SUFFICES ASSUME IntersectionLocks, NEW e \in EdgeLocks, route_locks'[e] \in Mission,
                      NEW s \in e.ends
               PROVE  route_locks'[NodeLock(s)] = route_locks'[e]
    BY DEF EdgeOwnerHoldsStations
  <2>1. e \in Resource /\ NodeLock(s) \in Resource
    BY LocksAreDisjoint
  <2>2. CASE New(e)
    <3>1. PICK i \in taken : e \in requests[i].locks
      BY <2>2 DEF New
    <3> QED
      BY <1>1, <3>1
  <2>3. CASE ~New(e)
    <3>1. route_locks'[e] = route_locks[e]
      BY <1>3, <2>1, <2>3
    <3>2. route_locks[NodeLock(s)] = route_locks[e]
      BY <3>1 DEF TrafficInv, EdgeOwnerHoldsStations
    <3> QED
      BY <1>0, <1>4, <2>1, <3>1, <3>2
  <2> QED
    BY <2>2, <2>3
<1>7. ReservationsAreOwned'
  <2> SUFFICES ASSUME NEW n \in Mission, NEW r \in route_locks_by_mission'[n]
               PROVE  r \in Resource /\ route_locks'[r] = n
    BY DEF ReservationsAreOwned, OwnedBy
  <2>1. ASSUME NEW i \in taken, requests[i].missions = <<n>>, requests[i].locks # {}
        PROVE  r \in Resource /\ route_locks'[r] = n
    <3>1. PICK m \in StationOrder :
             /\ requests[i].missions = <<m>> /\ requests[i].locks \subseteq Resource
             /\ \A l \in requests[i].locks : route_locks'[l] = m
             /\ route_locks_by_mission'[m] = requests[i].locks
      BY <1>1, <2>1
    <3>2. m = n
      BY <2>1, <3>1
    <3> QED
      BY <3>1, <3>2
  <2>2. ASSUME \A i \in taken : requests[i].missions = <<n>> => requests[i].locks = {}
        PROVE  r \in Resource /\ route_locks'[r] = n
    <3>1. r \in route_locks_by_mission[n]
      BY <1>9, <2>2
    <3>2. r \in Resource /\ route_locks[r] = n
      BY <3>1 DEF TrafficInv, ReservationsAreOwned, OwnedBy
    <3> QED
      BY <1>0, <1>4, <3>2
  <2> QED
    BY <2>1, <2>2
<1>8. ASSUME NEW m \in Mission, NEW r \in OwnedBy(m)', r \notin OwnedBy(m)
      PROVE  m \in StationOrder /\ \E i \in taken : requests[i].missions = <<m>>
  <2>1. r \in Resource /\ route_locks'[r] = m /\ route_locks[r] # m
    BY <1>8 DEF OwnedBy
  <2>2. New(r)
    BY <1>3, <2>1
  <2> QED
    BY <1>2, <2>1, <2>2
<1> QED
  BY <1>4, <1>5, <1>6, <1>7, <1>8 DEF TrafficInv

\* The missions of the items are clients that ask together: each gets its route.
LEMMA RoutesTakenTogether ==
    ASSUME TrafficInv, NEW requests, NEW taken, Together(requests, taken),
           ReserveAll(requests, taken)
    PROVE  Service!JointNext
<1> DEFINE want == [m \in Mission |->
                      {l \in Resource : \E i \in taken :
                          requests[i].missions = <<m>> /\ l \in requests[i].locks}]
<1>0. Free \notin Mission /\ TrafficBlock \notin Mission /\ TrafficBlock # Free
  BY RouteLocksAssumption
<1>1. ASSUME NEW i \in taken, NEW j \in taken, NEW m \in Mission,
             requests[i].missions = <<m>>, requests[j].missions = <<m>>
      PROVE  i = j
  <2>1. m \in Range(requests[i].missions) /\ m \in Range(requests[j].missions)
    BY <1>1 DEF Range
  <2> QED
    BY <2>1 DEF Together
<1>2. ASSUME NEW l \in Resource, NEW i \in taken, l \in requests[i].locks
      PROVE  \E m \in Mission : /\ requests[i].missions = <<m>>
                                /\ route_locks[l] \in {Free, m} /\ route_locks'[l] = m
  BY <1>2, RouteOfItem
<1>3. ASSUME NEW m \in Mission, NEW l \in want[m]
      PROVE  l \in Resource /\ route_locks[l] \in {Free, m} /\ route_locks'[l] = m
  <2>1. PICK i \in taken : requests[i].missions = <<m>> /\ l \in requests[i].locks
    BY <1>3
  <2>2. PICK n \in Mission : /\ requests[i].missions = <<n>>
                             /\ route_locks[l] \in {Free, n} /\ route_locks'[l] = n
    BY <1>2, <1>3, <2>1
  <2>3. n = m
    BY <2>1, <2>2
  <2> QED
    BY <1>3, <2>2, <2>3
<1>4. ASSUME NEW l \in Resource, \A m \in Mission : l \notin want[m]
      PROVE  route_locks'[l] = route_locks[l]
  <2>1. \A i \in taken : l \notin requests[i].locks
    BY <1>2, <1>4
  <2> QED
    BY <2>1, RoutesTaken
<1>5. want \in [Mission -> {BuildRouteLockIds(p) : p \in Path} \cup {{}}]
  <2> SUFFICES ASSUME NEW m \in Mission, want[m] # {}
               PROVE  want[m] \in {BuildRouteLockIds(p) : p \in Path}
    OBVIOUS
  <2>1. PICK i \in taken : requests[i].missions = <<m>> /\ requests[i].locks # {}
    OBVIOUS
  <2>2. PICK n \in StationOrder : /\ requests[i].missions = <<n>>
                                  /\ requests[i].locks = BuildRouteLockIds(PathOf[n])
                                  /\ requests[i].locks \subseteq Resource
    BY <2>1, RouteOfItem
  <2>3. \A j \in taken : requests[j].missions = <<m>> => j = i
    BY <1>1, <2>1
  <2>4. want[m] = requests[i].locks
    BY <2>1, <2>2, <2>3
  <2>5. PathOf[n] \in Path
    BY MissionRunnerAssumption
  <2> QED
    BY <2>2, <2>4, <2>5
<1> HIDE DEF want
<1>6. ASSUME NEW c \in Mission
      PROVE  /\ want[c] \cap OwnedBy(TrafficBlock) = {}
             /\ \A d \in Mission \ {c} : want[c] \cap (OwnedBy(d) \cup want[d]) = {}
             /\ OwnedBy(c)' = OwnedBy(c) \cup want[c]
  <2>1. want[c] \cap OwnedBy(TrafficBlock) = {}
    BY <1>0, <1>3 DEF OwnedBy
  <2>2. ASSUME NEW d \in Mission \ {c}
        PROVE  want[c] \cap OwnedBy(d) = {} /\ want[c] \cap want[d] = {}
    BY <1>0, <1>3 DEF OwnedBy
  <2>3. ASSUME NEW l \in OwnedBy(c) \cup want[c]
        PROVE  l \in OwnedBy(c)'
    BY <1>0, <1>3, RoutesTakenKeepInv DEF OwnedBy
  <2>4. ASSUME NEW l \in OwnedBy(c)', l \notin want[c]
        PROVE  l \in OwnedBy(c)
    <3>1. l \in Resource /\ route_locks'[l] = c
      BY <2>4 DEF OwnedBy
    <3>2. \A m \in Mission : l \notin want[m]
      BY <1>3, <2>4, <3>1
    <3> QED
      BY <1>4, <3>1, <3>2 DEF OwnedBy
  <2> QED
    BY <2>1, <2>2, <2>3, <2>4
<1>7. OwnedBy(TrafficBlock)' = OwnedBy(TrafficBlock)
  <2>1. \A l \in Resource : route_locks[l] = TrafficBlock => route_locks'[l] = TrafficBlock
    BY <1>0, RoutesTakenKeepInv
  <2>2. \A l \in Resource : route_locks'[l] = TrafficBlock => route_locks[l] = TrafficBlock
    BY <1>0, <1>3, <1>4
  <2> QED
    BY <2>1, <2>2 DEF OwnedBy
<1>8. Service!AcquireTogether(want)
  <2>1. [c \in Mission |-> OwnedBy(c)]' = [c \in Mission |-> OwnedBy(c) \cup want[c]]
    BY <1>6
  <2> QED
    BY <1>6, <1>7, <2>1 DEF Service!AcquireTogether
<1> QED
  BY <1>5, <1>8 DEF Service!JointNext

\* A set of places has a last one.
LEMMA LastPlace ==
    ASSUME NEW n \in Nat, NEW S \in SUBSET (1..n), S # {}
    PROVE  \E i \in S : \A j \in S : j <= i
<1> DEFINE T == {n - i : i \in S}
<1>1. T \subseteq Nat /\ T # {}
  <2>1. \A i \in S : n - i \in Nat
    OBVIOUS
  <2>2. PICK i \in S : TRUE
    OBVIOUS
  <2>3. n - i \in T
    OBVIOUS
  <2> QED
    BY <2>1, <2>3
<1>2. PICK x \in T : \A y \in T : ~(<<y, x>> \in OpToRel(<, Nat))
  <2> DEFINE R == OpToRel(<, Nat)
  <2> HIDE DEF T
  <2>1. IsWellFoundedOn(R, Nat)
    BY NatLessThanWellFounded, Zenon
  <2> HIDE DEF R
  <2>2. \E x \in T : \A y \in T : ~(<<y, x>> \in R)
    BY <1>1, <2>1, WFMin, Zenon
  <2> QED
    BY <2>2, Zenon DEF R
<1>3. ASSUME NEW y \in T PROVE x <= y
  <2> HIDE DEF T
  <2>1. x \in Nat /\ y \in Nat
    BY <1>1, <1>2
  <2>2. y < x => <<y, x>> \in OpToRel(<, Nat)
    BY <2>1 DEF OpToRel
  <2>3. ~(y < x)
    BY <1>2, <2>2, Zenon
  <2> QED
    BY <2>1, <2>3
<1>4. PICK i \in S : x = n - i
  BY <1>2
<1>5. \A j \in S : j <= i
  BY <1>3, <1>4
<1> QED
  BY <1>5

\* A mission that none of the admitted items is for keeps its note of a facility.
LEMMA FacilityNoteKept ==
    ASSUME NEW requests, NEW taken, ReserveAll(requests, taken), NEW m \in Mission,
           \A i \in taken : requests[i].missions # <<m>>
    PROVE  facility_resource_by_mission'[m] = facility_resource_by_mission[m]
<1> DEFINE Own(n) == {r \in {requests[i] : i \in taken} : r.missions = <<n>>}
<1>1. facility_resource_by_mission' = [n \in Mission |->
             IF \E r \in Own(n) : r.facility # None
             THEN (CHOOSE r \in Own(n) : TRUE).facility ELSE facility_resource_by_mission[n]]
  BY DEF ReserveAll
<1>2. Own(m) = {}
  OBVIOUS
<1> HIDE DEF Own
<1> QED
  BY <1>1, <1>2

\* The facilities that were taken show one of the items that asked for them.
LEMMA FacilitiesTaken ==
    ASSUME NEW requests, NEW taken, Together(requests, taken), ReserveAll(requests, taken)
    PROVE  /\ facility_reservations' = [f \in Facility |-> facility_reservations'[f]]
           /\ facility_resource_by_mission' = [m \in Mission |-> facility_resource_by_mission'[m]]
           /\ \A f \in Facility :
                 \/ facility_reservations'[f] = facility_reservations[f]
                 \/ \E i \in taken :
                       /\ requests[i].facility = f
                       /\ facility_reservations'[f] =
                              Reservation(requests[i].missions[1], requests[i].missions[1],
                                          "reserved", requests[i].hold)
           /\ \A i \in taken, m \in Mission :
                 requests[i].missions = <<m>> /\ requests[i].facility # None
                     => facility_resource_by_mission'[m] = requests[i].facility
           /\ \A m \in Mission :
                 \/ facility_resource_by_mission'[m] = facility_resource_by_mission[m]
                 \/ \E i \in taken : /\ requests[i].missions = <<m>>
                                     /\ requests[i].facility \in Facility
                                     /\ facility_resource_by_mission'[m] = requests[i].facility
<1> DEFINE items == {requests[i] : i \in taken}
           Visits(f) == {i \in taken : requests[i].facility = f}
           Visitor(f) == requests[CHOOSE i \in Visits(f) : \A j \in Visits(f) : j <= i]
           Own(m) == {r \in items : r.missions = <<m>>}
<1>1. /\ facility_reservations' = [f \in Facility |->
             IF Visits(f) = {} THEN facility_reservations[f]
             ELSE Reservation(Visitor(f).missions[1], Visitor(f).missions[1], "reserved",
                              Visitor(f).hold)]
      /\ facility_resource_by_mission' = [m \in Mission |->
             IF \E r \in Own(m) : r.facility # None
             THEN (CHOOSE r \in Own(m) : TRUE).facility ELSE facility_resource_by_mission[m]]
  BY DEF ReserveAll
<1>2. ASSUME NEW f \in Facility, Visits(f) # {}
      PROVE  \E i \in taken : requests[i].facility = f /\ Visitor(f) = requests[i]
  <2>1. \E i \in Visits(f) : \A j \in Visits(f) : j <= i
    BY <1>2, LastPlace DEF Together
  <2> QED
    BY <2>1
<1>3. ASSUME NEW f \in Facility
      PROVE  \/ facility_reservations'[f] = facility_reservations[f]
             \/ \E i \in taken :
                   /\ requests[i].facility = f
                   /\ facility_reservations'[f] =
                          Reservation(requests[i].missions[1], requests[i].missions[1],
                                      "reserved", requests[i].hold)
  <2>1. CASE Visits(f) = {}
    BY <1>1, <2>1
  <2>2. CASE Visits(f) # {}
    <3>1. PICK i \in taken : requests[i].facility = f /\ Visitor(f) = requests[i]
      BY <1>2, <2>2
    <3>2. facility_reservations'[f] =
              Reservation(Visitor(f).missions[1], Visitor(f).missions[1], "reserved", Visitor(f).hold)
      BY <1>1, <2>2
    <3> HIDE DEF Visitor
    <3> QED
      BY <3>1, <3>2
  <2> QED
    BY <2>1, <2>2
<1>4. ASSUME NEW i \in taken, NEW m \in Mission, requests[i].missions = <<m>>
      PROVE  Own(m) = {requests[i]}
  <2>1. ASSUME NEW j \in taken, requests[j].missions = <<m>>
        PROVE  requests[j] = requests[i]
    <3>1. m \in Range(requests[i].missions) /\ m \in Range(requests[j].missions)
      BY <1>4, <2>1 DEF Range
    <3> QED
      BY <3>1 DEF Together
  <2> QED
    BY <1>4, <2>1
<1>5. ASSUME NEW i \in taken, NEW m \in Mission, requests[i].missions = <<m>>
      PROVE  facility_resource_by_mission'[m] = IF requests[i].facility # None
                 THEN requests[i].facility ELSE facility_resource_by_mission[m]
  <2>1. Own(m) = {requests[i]}
    BY <1>4, <1>5
  <2>2. (CHOOSE r \in Own(m) : TRUE) = requests[i]
    BY <2>1
  <2> HIDE DEF Own
  <2> QED
    BY <1>1, <2>1, <2>2
<1>6. ASSUME NEW m \in Mission, \A i \in taken : requests[i].missions # <<m>>
      PROVE  facility_resource_by_mission'[m] = facility_resource_by_mission[m]
  BY <1>6, FacilityNoteKept
<1>7. \A i \in taken : requests[i].facility # None => requests[i].facility \in Facility
  BY DEF Together, GoodRequest
<1>8. /\ facility_reservations' = [f \in Facility |-> facility_reservations'[f]]
      /\ facility_resource_by_mission' = [m \in Mission |-> facility_resource_by_mission'[m]]
  <2> HIDE DEF Visits, Visitor, Own
  <2> QED
    BY <1>1
<1> HIDE DEF items, Visits, Visitor, Own
<1>9. \A m \in Mission :
         \/ facility_resource_by_mission'[m] = facility_resource_by_mission[m]
         \/ \E i \in taken : /\ requests[i].missions = <<m>>
                             /\ requests[i].facility \in Facility
                             /\ facility_resource_by_mission'[m] = requests[i].facility
  BY <1>5, <1>6, <1>7
<1> QED
  BY <1>3, <1>5, <1>6, <1>8, <1>9

\* No dock is approached, and no resource is held under a robot: orders ask for neither.
NoDocking ==
    /\ \A m \in Mission : dock_by_mission[m] = None
    /\ \A f \in Facility : facility_reservations[f].status \in {"available", "reserved"}

LEMMA FacilitiesTakenKeepInv ==
    ASSUME FacilityInv, NoDocking, NEW requests, NEW taken, Together(requests, taken),
           ReserveAll(requests, taken), UNCHANGED <<dock_states, dock_by_mission>>
    PROVE  FacilityInv' /\ NoDocking'
<1>0. /\ facility_reservations \in [Facility -> GoodReservation] /\ FacilityMapsTyped
      /\ DockingMission \subseteq Mission
  BY FacilityInvParts, FacilityRunnerAssumption DEF FacilityMission
<1>1. ASSUME NEW f \in Facility
      PROVE  /\ facility_reservations'[f] \in GoodReservation
             /\ facility_reservations'[f].status \in {"available", "reserved"}
  <2>1. CASE facility_reservations'[f] = facility_reservations[f]
    BY <1>0, <2>1 DEF NoDocking
  <2>2. ASSUME NEW i \in taken, requests[i].facility = f,
               facility_reservations'[f] = Reservation(requests[i].missions[1],
                                                       requests[i].missions[1],
                                                       "reserved", requests[i].hold)
        PROVE  /\ facility_reservations'[f] \in GoodReservation
               /\ facility_reservations'[f].status = "reserved"
    <3>1. GoodRequest(requests[i]) /\ f # None
      BY FacilityRunnerAssumption DEF Together
    <3>2. PICK m \in ActionMission : requests[i].missions = <<m>> /\ requests[i].hold \in BOOLEAN
      BY <2>2, <3>1 DEF GoodRequest
    <3>3. m \in FacilityMission \ DockingMission /\ "reserved" \in ReservationStatus
      BY FacilityRunnerAssumption DEF FacilityMission, ReservationStatus
    <3>4. Reservation(m, m, "reserved", requests[i].hold) \in GoodReservation
      BY <3>2, <3>3, MissionReservation
    <3>5. Reservation(m, m, "reserved", requests[i].hold).status = "reserved"
      BY DEF Reservation
    <3>6. facility_reservations'[f] = Reservation(m, m, "reserved", requests[i].hold)
      BY <2>2, <3>2
    <3> QED
      BY <3>4, <3>5, <3>6
  <2> QED
    BY <2>1, <2>2, FacilitiesTaken
<1>2. facility_reservations' \in [Facility -> GoodReservation]
  <2>1. facility_reservations' = [f \in Facility |-> facility_reservations'[f]]
    BY FacilitiesTaken
  <2> QED
    BY <1>1, <2>1
<1>3. FacilityMapsTyped'
  <2>1. facility_resource_by_mission' = [m \in Mission |-> facility_resource_by_mission'[m]]
    BY FacilitiesTaken
  <2>2. \A m \in Mission : facility_resource_by_mission'[m] \in Facility \cup {None}
    BY <1>0, FacilitiesTaken DEF FacilityMapsTyped
  <2>3. facility_resource_by_mission' \in [Mission -> Facility \cup {None}]
    BY <2>1, <2>2
  <2> QED
    BY <1>0, <2>3 DEF FacilityMapsTyped
<1>4. NoDocking'
  BY <1>1 DEF NoDocking
<1>5. ASSUME NEW m \in Mission \ FacilityMission
      PROVE  facility_resource_by_mission'[m] = None
  <2>1. ASSUME NEW i \in taken, requests[i].missions = <<m>>, requests[i].facility \in Facility
        PROVE  FALSE
    <3>1. GoodRequest(requests[i]) /\ requests[i].facility # None
      BY <2>1, FacilityRunnerAssumption DEF Together
    <3>2. PICK n \in ActionMission : requests[i].missions = <<n>>
      BY <3>1 DEF GoodRequest
    <3> QED
      BY <2>1, <3>2 DEF FacilityMission
  <2>2. facility_resource_by_mission[m] = None
    BY DEF FacilityInv, NotesInv
  <2>3. \/ facility_resource_by_mission'[m] = facility_resource_by_mission[m]
        \/ \E i \in taken : /\ requests[i].missions = <<m>>
                            /\ requests[i].facility \in Facility
    BY FacilitiesTaken
  <2> QED
    BY <2>1, <2>2, <2>3
<1>6. NotesInv'
  <2>1. \A m \in DockingMission : dock_by_mission'[m] = None
    BY <1>0, <1>4 DEF NoDocking
  <2> QED
    BY <1>5, <2>1 DEF NotesInv
<1> QED
  BY <1>2, <1>3, <1>4, <1>6, FacilityInvNext

\* New missions under numbers that were not given yet keep the queue in order.
LEMMA EntriesKeepQueue ==
    ASSUME QueueTyped, QueueInv, NEW entries, NEW n \in Nat, PushEntries(entries, n),
           \A e \in entries :
               /\ e \in QueueEntry /\ e.id \notin QueuedIds
               /\ next_queue_sequence <= e.sequence /\ e.sequence < next_queue_sequence + n,
           \A e, f \in entries : e.id = f.id \/ e.sequence = f.sequence => e = f
    PROVE  QueueTyped' /\ QueueInv' /\ QueuedIds' = QueuedIds \cup {e.id : e \in entries}
<1>1. /\ mission_queue' = mission_queue \cup entries
      /\ next_queue_sequence' = next_queue_sequence + n /\ next_queue_sequence \in Nat
  BY DEF PushEntries, QueueTyped
<1>2. \A e \in mission_queue : /\ e.sequence \in Nat /\ e.sequence < next_queue_sequence
                               /\ e.id \in QueuedIds
  BY DEF QueuedIds, QueueInv, UniqueSequence, QueueTyped, QueueEntry
<1>3. \A e \in entries : e.sequence \in Nat
  BY DEF QueueEntry
<1>4. ASSUME NEW e \in mission_queue', NEW f \in mission_queue',
             e.id = f.id \/ e.sequence = f.sequence
      PROVE  e = f
  <2>1. CASE e \in mission_queue /\ f \in mission_queue
    BY <1>4, <2>1 DEF QueueInv, UniqueSequence
  <2>2. ASSUME NEW old \in mission_queue, NEW new \in entries
        PROVE  old.id # new.id /\ old.sequence # new.sequence
    BY <1>1, <1>2, <1>3, <2>2
  <2>3. CASE e \in entries /\ f \in entries
    BY <1>4, <2>3
  <2> QED
    BY <1>1, <1>4, <2>1, <2>2, <2>3
<1>5. \A e \in mission_queue' : e.sequence < next_queue_sequence'
  BY <1>1, <1>2, <1>3
<1>6. QueueTyped'
  BY <1>1 DEF QueueTyped
<1>7. QueuedIds' = QueuedIds \cup {e.id : e \in entries}
  BY <1>1 DEF QueuedIds
<1> QED
  BY <1>4, <1>5, <1>6, <1>7 DEF QueueInv, UniqueSequence

\* The missions of the admitted items are queued, and none was known before.
LEMMA PlacesQueued ==
    ASSUME CoreInv, NEW requests, NEW taken, Together(requests, taken),
           NEW start \in BOOLEAN, NEW preempt \in BOOLEAN,
           QueueAll(requests, taken, start, preempt)
    PROVE  /\ CoreInv' /\ Live \subseteq Live'
           /\ \A i \in taken : \A k \in DOMAIN requests[i].missions :
                 requests[i].missions[k] \in Live' \ Live
<1> DEFINE places == Places(requests, taken)
<1>1. \A p \in places : /\ p = <<p[1], p[2]>> /\ p[1] \in taken
                        /\ p[2] \in DOMAIN requests[p[1]].missions
  BY DEF Places
<1>2. \A i \in taken : \A k \in DOMAIN requests[i].missions : <<i, k>> \in places
  BY DEF Places
<1>3. \A i \in taken : \A k \in DOMAIN requests[i].missions :
          requests[i].missions[k] \in Mission \ Live
  BY DEF Together, GoodRequest, FreeBefore, NotKnown, MissionIdActiveOrQueued, Live
<1>4. CASE places = {}
  <2>1. UNCHANGED <<queueVars, paused_workflow_orders, profileVars, goalVars, controlVars,
                    recoveryVars, low_battery_dock_request_sent, current_state>>
    BY <1>4 DEF QueueAll
  <2>2. CoreInv' /\ Live' = Live
    BY <2>1 DEF queueVars, profileVars, goalVars, controlVars, recoveryVars, CoreInv, RunnerTypeOK,
                QueueInv, UniqueSequence, ActiveInv, Live, ActiveMission, QueuedIds
  <2> QED
    BY <1>2, <1>4, <2>2
<1>5. CASE places # {}
  <2> DEFINE entry(p, k) == Entry(requests[p[1]].missions[p[2]], requests[p[1]].priority,
                                  next_queue_sequence + k - 1)
  <2>0. PICK n \in 1..MaxSequence : \E number \in Bijection(places, 1..n) :
            AdmitQueuedMissions({entry(p, number[p]) : p \in places}, n, start, preempt, TRUE)
    BY <1>5 DEF QueueAll
  <2>1. PICK number \in Bijection(places, 1..n) :
            AdmitQueuedMissions({entry(p, number[p]) : p \in places}, n, start, preempt, TRUE)
    BY <2>0
  <2> DEFINE entries == {entry(p, number[p]) : p \in places}
  <2>2. n \in Nat /\ PushEntries(entries, n)
    BY <2>1, MissionRunnerAssumption DEF AdmitQueuedMissions
  <2>3. /\ \A p \in places : number[p] \in 1..n
        /\ \A p, q \in places : number[p] = number[q] => p = q
    BY DEF Bijection, Injection, Surjection, IsInjective
  <2>4. next_queue_sequence \in Nat
    BY DEF CoreInv, RunnerTypeOK
  <2>5. ASSUME NEW p \in places
        PROVE  /\ entry(p, number[p]) \in QueueEntry
               /\ entry(p, number[p]).id = requests[p[1]].missions[p[2]]
               /\ entry(p, number[p]).sequence = next_queue_sequence + number[p] - 1
    <3>1. requests[p[1]].missions[p[2]] \in Mission /\ requests[p[1]].priority \in Int
      BY <1>1, <1>3 DEF Together, GoodRequest
    <3>2. next_queue_sequence + number[p] - 1 \in Nat
      BY <2>2, <2>3, <2>4
    <3> QED
      BY <3>1, <3>2 DEF Entry, QueueEntry
  <2>6. ASSUME NEW p \in places, NEW q \in places,
               requests[p[1]].missions[p[2]] = requests[q[1]].missions[q[2]]
        PROVE  p = q
    <3>1. p[1] = q[1]
      <4>1. requests[p[1]].missions[p[2]] \in Range(requests[p[1]].missions)
        BY <1>1 DEF Range
      <4>2. requests[q[1]].missions[q[2]] \in Range(requests[q[1]].missions)
        BY <1>1 DEF Range
      <4> QED
        BY <1>1, <2>6, <4>1, <4>2 DEF Together
    <3>2. p[2] = q[2]
      BY <1>1, <2>6, <3>1 DEF Together, GoodRequest
    <3> QED
      BY <1>1, <3>1, <3>2
  <2> HIDE DEF entry
  <2>7. \A e \in entries :
           /\ e \in QueueEntry /\ e.id \notin QueuedIds
           /\ next_queue_sequence <= e.sequence /\ e.sequence < next_queue_sequence + n
    <3>1. ASSUME NEW p \in places
          PROVE  /\ entry(p, number[p]) \in QueueEntry
                 /\ entry(p, number[p]).id \notin QueuedIds
                 /\ next_queue_sequence <= entry(p, number[p]).sequence
                 /\ entry(p, number[p]).sequence < next_queue_sequence + n
      BY <1>1, <1>3, <2>2, <2>3, <2>4, <2>5 DEF Live
    <3> QED
      BY <3>1
  <2>8. \A e, f \in entries : e.id = f.id \/ e.sequence = f.sequence => e = f
    <3>1. ASSUME NEW p \in places, NEW q \in places,
                 \/ entry(p, number[p]).id = entry(q, number[q]).id
                 \/ entry(p, number[p]).sequence = entry(q, number[q]).sequence
          PROVE  p = q
      <4>1. CASE entry(p, number[p]).id = entry(q, number[q]).id
        BY <2>5, <2>6, <4>1
      <4>2. CASE entry(p, number[p]).sequence = entry(q, number[q]).sequence
        <5>1. next_queue_sequence + number[p] - 1 = next_queue_sequence + number[q] - 1
          BY <2>5, <4>2
        <5>2. number[p] \in Nat /\ number[q] \in Nat
          BY <2>2, <2>3
        <5> QED
          BY <2>3, <2>4, <5>1, <5>2
      <4> QED
        BY <3>1, <4>1, <4>2
    <3> QED
      BY <3>1
  <2> HIDE DEF entries
  <2>9. QueueTyped' /\ QueueInv' /\ QueuedIds' = QueuedIds \cup {e.id : e \in entries}
    BY <2>2, <2>7, <2>8, EntriesKeepQueue, TypesSplit DEF CoreInv
  <2>10. \A e \in entries : e.id \in Mission \ Live
    BY <1>1, <1>3, <2>5 DEF entries
  <2>11. ActiveMission \cap QueuedIds' = {}
    BY <2>9, <2>10 DEF CoreInv, ActiveInv, Live
  <2>12. CoreInv'
    BY <2>1, <2>9, <2>11, AdmitStep DEF entries
  <2>13. ActiveMission' = ActiveMission
    BY <2>1 DEF AdmitQueuedMissions, profileVars, goalVars, ActiveMission
  <2>14. \A i \in taken : \A k \in DOMAIN requests[i].missions :
            requests[i].missions[k] \in {e.id : e \in entries}
    <3> SUFFICES ASSUME NEW i \in taken, NEW k \in DOMAIN requests[i].missions
                 PROVE  requests[i].missions[k] \in {e.id : e \in entries}
      OBVIOUS
    <3>1. <<i, k>> \in places
      BY <1>2
    <3>2. entry(<<i, k>>, number[<<i, k>>]).id = requests[i].missions[k]
      BY <2>5, <3>1
    <3> QED
      BY <3>1, <3>2 DEF entries
  <2> QED
    BY <1>3, <2>9, <2>12, <2>13, <2>14 DEF Live
<1> QED
  BY <1>4, <1>5
-----------------------------------------------------------------------------
(* Nothing is left behind.                                                  *)

\* The inductive invariant of the missions under all orders.
OrderInv == RunnerInv /\ FacilityInv /\ OrdersOwn /\ NoDocking

\* Nothing is held for a mission that has ended which was not held so before.
NothingLeft == Orphans' \subseteq Orphans /\ LeftBehind' \subseteq LeftBehind

LEMMA OrderInvInit == OrderInit => OrderInv
<1> SUFFICES ASSUME OrderInit  PROVE OrderInv
  OBVIOUS
<1>1. FacilityInit /\ Init
  BY DEF OrderInit, FacilityInit
<1>2. NoDocking
  BY <1>1 DEF FacilityInit, NoDocking, Unreserved, Reservation
<1> QED
  BY <1>1, <1>2, RunnerInvInit, FacilityInvInit, OrdersOwnInit DEF OrderInv

\* The items of a call take routes and facilities for missions that are queued in
\* the same step: a refused item takes nothing, an admitted one is not forgotten.
LEMMA OrderTakenStep ==
    ASSUME OrderInv, NEW requests, GoodCall(requests), NEW continue_on_error,
           SubmitInTurn(requests, continue_on_error)
    PROVE  OrderInv' /\ NothingLeft
<1>1. PICK taken \in SUBSET DOMAIN requests :
         /\ AdmittedInTurn(requests, taken, continue_on_error)
         /\ ReserveAll(requests, taken)
         /\ \E start, preempt \in BOOLEAN : QueueAll(requests, taken, start, preempt)
         /\ UNCHANGED <<dock_states, dock_by_mission>>
  <2>1. PICK taken \in (SUBSET DOMAIN requests) \ {{}} :
           /\ AdmittedInTurn(requests, taken, continue_on_error)
           /\ ReserveAll(requests, taken)
           /\ \E start, preempt \in BOOLEAN :
                 QueueAll(requests, taken, start /\ 1 \in taken /\ requests[1].missions # <<>>,
                          preempt /\ 1 \in taken /\ requests[1].missions # <<>>)
           /\ UNCHANGED <<dock_states, dock_by_mission>>
    BY DEF SubmitInTurn
  <2> QED
    BY <2>1
<1>2. Together(requests, taken)
  BY <1>1, AdmittedTogether
<1>3. PICK start \in BOOLEAN, preempt \in BOOLEAN : QueueAll(requests, taken, start, preempt)
  BY <1>1
<1>4. /\ CoreInv' /\ Live \subseteq Live'
      /\ \A i \in taken : \A k \in DOMAIN requests[i].missions :
            requests[i].missions[k] \in Live' \ Live
  BY <1>2, <1>3, PlacesQueued, CoreOfRunner DEF OrderInv
<1>5. \A i \in taken, m \in Mission : requests[i].missions = <<m>> => m \in Live' \ Live
  BY <1>4
<1>6. /\ TrafficInv'
      /\ \A m \in Mission :
            \/ OwnedBy(m)' \subseteq OwnedBy(m)
            \/ m \in StationOrder /\ \E i \in taken : requests[i].missions = <<m>>
  BY <1>1, <1>2, RoutesTakenKeepInv, CoreOfRunner DEF OrderInv
<1>7. FacilityInv' /\ NoDocking'
  BY <1>1, <1>2, FacilitiesTakenKeepInv DEF OrderInv
<1>8. RunnerInv'
  BY <1>4, <1>6 DEF RunnerInv, TypeOK, CoreInv, TrafficInv
<1>9. OrdersOwn'
  BY <1>6 DEF OrderInv, OrdersOwn
<1>10. Orphans' \subseteq Orphans
  BY <1>4, <1>5, <1>6 DEF Orphans
<1>11. ASSUME NEW f \in LeftBehind'  PROVE f \in LeftBehind
  <2>1. PICK m \in Mission : /\ f \in Facility /\ facility_reservations'[f].mission = m
                             /\ m \notin Live' \/ facility_resource_by_mission'[m] # f
    BY <1>11 DEF LeftBehind
  <2>2. CASE facility_reservations'[f] = facility_reservations[f]
    <3>1. CASE m \in Live
      <4>1. \A i \in taken : requests[i].missions # <<m>>
        BY <1>5, <3>1
      <4>2. facility_resource_by_mission'[m] = facility_resource_by_mission[m]
        BY <1>1, <4>1, FacilityNoteKept
      <4> QED
        BY <1>4, <2>1, <2>2, <3>1, <4>2 DEF LeftBehind
    <3>2. CASE m \notin Live
      BY <2>1, <2>2, <3>2 DEF LeftBehind
    <3> QED
      BY <3>1, <3>2
  <2>3. ASSUME NEW i \in taken, requests[i].facility = f,
               facility_reservations'[f] = Reservation(requests[i].missions[1],
                                                       requests[i].missions[1],
                                                       "reserved", requests[i].hold)
        PROVE  FALSE
    <3>1. GoodRequest(requests[i]) /\ f # None
      BY <1>2, <2>1, FacilityRunnerAssumption DEF Together
    <3>2. PICK n \in ActionMission : requests[i].missions = <<n>>
      BY <2>3, <3>1 DEF GoodRequest
    <3>3. n = m
      BY <2>1, <2>3, <3>2 DEF Reservation
    <3>4. m \in Live'
      BY <1>5, <3>2, <3>3
    <3>5. facility_resource_by_mission'[m] = f
      BY <1>1, <1>2, <2>3, <3>1, <3>2, <3>3, FacilitiesTaken
    <3> QED
      BY <2>1, <3>4, <3>5
  <2> QED
    BY <1>1, <1>2, <2>1, <2>2, <2>3, FacilitiesTaken
<1> QED
  BY <1>7, <1>8, <1>9, <1>10, <1>11 DEF OrderInv, NothingLeft

\* An order may be lost only with ERROR.
OrderDone == OrderInv' /\ (NothingLeft \/ current_state' = "ERROR")

\* A step that leaves the facilities alone and gives up no facility mission.
LEMMA FacilitiesStay ==
    ASSUME UNCHANGED facilityVars, OrderInv
    PROVE  /\ FacilityInv' /\ NoDocking'
           /\ Live \cap FacilityMission \subseteq Live' => LeftBehind' \subseteq LeftBehind
<1>1. FacilityInv'
  BY FacilitiesLeftAlone DEF OrderInv
<1>2. NoDocking'
  BY DEF OrderInv, NoDocking, facilityVars
<1>3. \A m \in Mission : facility_resource_by_mission[m] # None => m \in FacilityMission
  BY DEF OrderInv, FacilityInv, NotesInv
<1>4. ASSUME Live \cap FacilityMission \subseteq Live'
      PROVE  LeftBehind' \subseteq LeftBehind
  BY <1>3, <1>4, FacilityRunnerAssumption DEF LeftBehind, facilityVars
<1> QED
  BY <1>1, <1>2, <1>4

\* A step of the runner.
LEMMA RunnerOrderStep ==
    ASSUME OrderInv, [Next]_vars
    PROVE  RunnerInv' /\ OrdersOwn' /\ (Orphans' \subseteq Orphans \/ current_state' = "ERROR")
  BY RunnerInvStep, OrdersOwnStep, OrphansStep DEF OrderInv

LEMMA RunnerOrderDone ==
    ASSUME OrderInv, [Next]_vars, UNCHANGED facilityVars,
           Live \cap FacilityMission \subseteq Live' \/ current_state' = "ERROR"
    PROVE  OrderDone
  BY RunnerOrderStep, FacilitiesStay DEF OrderDone, OrderInv, NothingLeft

\* A step that changes the queue only, and forgets no mission.
LEMMA QueueOrderDone ==
    ASSUME OrderInv, CoreInv', UNCHANGED <<trafficVars, facilityVars>>, Live \subseteq Live'
    PROVE  OrderDone
<1>1. TrafficInv'
  BY TrafficInvStep, CoreOfRunner DEF OrderInv
<1>2. RunnerInv'
  BY <1>1 DEF RunnerInv, TypeOK, CoreInv, TrafficInv
<1>3. OrdersOwn' /\ Orphans' \subseteq Orphans
  BY DEF OrderInv, OrdersOwn, Orphans, OwnedBy, trafficVars
<1> QED
  BY <1>2, <1>3, FacilitiesStay DEF OrderDone, OrderInv, NothingLeft

\* A step that leaves the runner and the facilities alone.
LEMMA OrdersLeftAlone ==
    ASSUME OrderInv, UNCHANGED facilityRunnerVars
    PROVE  OrderDone
<1>1. RunnerInv' /\ Live' = Live
  BY RunnerLeftAlone DEF OrderInv, facilityRunnerVars
<1>2. CoreInv'
  BY <1>1 DEF RunnerInv, TypeOK, CoreInv
<1> QED
  BY <1>1, <1>2, QueueOrderDone DEF facilityRunnerVars, vars

\* The station desk queues the missions of an order, sends the robot to the dock or
\* asks for an operator.
LEMMA StationOrderStep ==
    ASSUME OrderInv, StationStep
    PROVE  OrderDone
<1>1. ASSUME NEW f \in Fulfillment, NEW p \in Priority, NEW start \in BOOLEAN,
             QueueFulfillment(f, p, start)
      PROVE  OrderDone
  <2>1. f \in Order
    BY StationDeskAssumption DEF Fulfillment
  <2>2. SubmitStationSequenceTask(f, p, start, FALSE) /\ UNCHANGED facilityVars
    BY <1>1 DEF QueueFulfillment
  <2>3. Next
    BY <2>1, <2>2 DEF Next, NextInQueueOrder, WorkflowService
  <2>4. Live \subseteq Live'
    BY <2>2 DEF SubmitStationSequenceTask, AdmitQueuedMissions, PushEntries, Live, ActiveMission,
                QueuedIds, profileVars, goalVars
  <2> QED
    BY <2>2, <2>3, <2>4, RunnerOrderDone
<1>2. ASSUME NEW c \in Confirmation, ExpireStationConfirmation(c)
      PROVE  OrderDone
  <2>1. CASE UNCHANGED facilityRunnerVars
    BY <2>1, OrdersLeftAlone
  <2>2. CASE ReturnToDock /\ UNCHANGED facilityVars
    <3>1. Live \subseteq Live' \/ current_state' = "ERROR"
      BY <2>2, RunnerStepCases DEF RunnerStep, OrderInv
    <3>2. Next
      BY <2>2 DEF Next, NextInQueueOrder, DockService
    <3> QED
      BY <2>2, <3>1, <3>2, RunnerOrderDone
  <2>3. CASE /\ current_state' = "NEEDS_OPERATOR"
             /\ UNCHANGED <<queueVars, paused_workflow_orders, profileVars, goalVars, controlVars,
                            recoveryVars, low_battery_dock_request_sent, trafficVars, facilityVars>>
    <3>1. CoreInv
      BY CoreOfRunner DEF OrderInv
    <3>2. FlagsTyped'
      BY <2>3, <3>1 DEF CoreInv, RunnerTypeOK, FlagsTyped, State, queueVars, goalVars, controlVars,
                        recoveryVars
    <3>3. CoreInv'
      BY <2>3, <3>1, <3>2, QuietStep DEF queueVars, goalVars, CoreInv, ActiveInv
    <3>4. Live' = Live
      BY <2>3 DEF Live, ActiveMission, QueuedIds, queueVars, profileVars, goalVars
    <3> QED
      BY <2>3, <3>3, <3>4, QueueOrderDone
  <2> QED
    BY <1>2, <2>1, <2>2, <2>3 DEF ExpireStationConfirmation, ReturnToDock
<1>3. ConfirmationStep => OrderDone
  BY <1>2, OrdersLeftAlone DEF ConfirmationStep, RequestStationConfirmation, Answer,
                               ResolveStationConfirmation
<1>4. WarehouseStep => OrderDone
  <2>1. ASSUME NEW p \in Priority, NEW start \in BOOLEAN, FulfillmentRequest(p, start)
        PROVE  OrderDone
    BY <1>1, <2>1 DEF FulfillmentRequest, SubmitFulfillmentOrder, SubmitMilkRun
  <2>2. FulfillmentStep \/ Answer => OrderDone
    BY OrdersLeftAlone DEF FulfillmentStep, ConfirmPick, ReportShortPick, ConfirmDropoff, Answer,
                           ResolveStationConfirmation
  <2> QED
    BY <2>1, <2>2 DEF WarehouseStep
<1> QED
  BY <1>3, <1>4 DEF StationStep

\* Where reservations only end, none is newly left behind.
LEMMA NothingNewLeft ==
    ASSUME OrderInv, FacilityNext, NoDocking',
           \A f \in Facility : facility_reservations'[f] \in {facility_reservations[f], Unreserved}
    PROVE  LeftBehind' \subseteq LeftBehind \/ current_state' = "ERROR"
<1> SUFFICES ASSUME NEW f \in LeftBehind', f \notin LeftBehind, current_state' # "ERROR"
             PROVE  FALSE
  OBVIOUS
<1>1. f \in Facility /\ facility_reservations'[f].mission \in Mission
  BY DEF LeftBehind
<1>2. facility_reservations'[f] = facility_reservations[f]
  BY <1>1, UnreservedIsGood, MissionRunnerAssumption
<1>3. facility_reservations'[f].status \in {"CHARGING", "DOCKING_CONTACT_FAILED"}
  BY <1>1, <1>2, LeftBehindStep DEF OrderInv
<1> QED
  BY <1>1, <1>3 DEF NoDocking

LEMMA NoDockingKept ==
    ASSUME NoDocking, UNCHANGED dock_by_mission,
           \A f \in Facility : facility_reservations'[f] \in {facility_reservations[f], Unreserved}
    PROVE  NoDocking'
<1>1. Unreserved.status = "available"
  BY DEF Unreserved, Reservation
<1> QED
  BY <1>1 DEF NoDocking

\* Canceling an order gives up the routes and the facilities of its missions, of the
\* active one at once.
LEMMA OrderCanceled ==
    ASSUME OrderInv, NEW o \in Order, NEW cancel_active \in BOOLEAN, CancelOrder(o, cancel_active)
    PROVE  OrderDone
<1>1. CancelFacilityWorkflow(o, cancel_active) /\ RunnerInv /\ FacilityInv /\ NoDocking
  BY DEF CancelOrder, OrderInv
<1>2. FacilityNext /\ Next
  BY <1>1 DEF FacilityNext, Cancellation, CancelFacilityWorkflow, Next, NextInQueueOrder,
              WorkflowService
<1>3. /\ UNCHANGED dock_by_mission
      /\ \A f \in Facility : facility_reservations'[f] \in {facility_reservations[f], Unreserved}
  <2>1. PICK ms \in SUBSET Mission :
            /\ UNCHANGED <<dock_states, dock_by_mission>>
            /\ \A f \in Facility : \/ facility_reservations'[f] = facility_reservations[f]
                                  \/ /\ facility_reservations'[f] = Unreserved
                                     /\ facility_reservations[f].mission \in ms
    BY <1>1, WorkflowCases
  <2> QED
    BY <2>1
<1>4. NoDocking'
  BY <1>1, <1>3, NoDockingKept
<1>5. LeftBehind' \subseteq LeftBehind \/ current_state' = "ERROR"
  BY <1>2, <1>3, <1>4, NothingNewLeft
<1>6. RunnerInv' /\ OrdersOwn' /\ (Orphans' \subseteq Orphans \/ current_state' = "ERROR")
  BY <1>2, RunnerOrderStep
<1>7. FacilityInv'
  BY <1>1, <1>2, FacilityInvStep
<1> QED
  BY <1>4, <1>5, <1>6, <1>7 DEF OrderDone, OrderInv, NothingLeft

\* Canceling a batch takes its queued orders away with their routes.
LEMMA BatchCanceled ==
    ASSUME OrderInv, NEW b \in Batch, NEW cancel_active \in BOOLEAN,
           CancelStationOrderBatch(b, cancel_active)
    PROVE  OrderDone
<1>1. /\ mission_queue' = QueueWithoutBatch(b)
      /\ ReleaseRouteLocksForMissions(ReleasedByBatch(b))
      /\ UNCHANGED <<next_queue_sequence, queue_running, queue_start_requested,
                     paused_workflow_orders, profileVars, goalVars, recoveryVars,
                     low_battery_dock_request_sent, facilityVars>>
      /\ \/ RequestActiveMissionCancel
         \/ SetStateIfIdle("QUEUED") /\ UNCHANGED controlVars
  BY DEF CancelStationOrderBatch
<1>2. CoreInv /\ TrafficInv
  BY CoreOfRunner DEF OrderInv
<1>3. BatchMissions(b) \subseteq StationOrder /\ BatchMissions(b) \subseteq Mission
      /\ BatchMissions(b) \cap FacilityMission = {}
  BY OrderDeskAssumption, MissionRunnerAssumption, FacilityRunnerAssumption DEF BatchMissions, Range
<1>4. CoreInv'
  <2>1. FlagsTyped'
    BY <1>1, <1>2 DEF RequestActiveMissionCancel, SetStateIfIdle, CoreInv, RunnerTypeOK, FlagsTyped,
                      State, goalVars, controlVars, recoveryVars
  <2> QED
    BY <1>1, <1>2, <2>1, QuietStep DEF QueueWithoutBatch, goalVars, CoreInv, ActiveInv
<1>5. TrafficInv'
  <2>1. ReleasedByBatch(b) \in SUBSET Mission
    BY <1>3 DEF ReleasedByBatch
  <2> QED
    BY <1>1, <1>2, <2>1, ReleaseKeepsInv
<1>6. RunnerInv'
  BY <1>4, <1>5 DEF RunnerInv, TypeOK, CoreInv, TrafficInv
<1>7. ASSUME NEW m \in Mission
      PROVE  OwnedBy(m)' = IF m \in ReleasedByBatch(b) THEN {} ELSE OwnedBy(m)
  <2>1. TrafficTypeOK
    BY <1>2 DEF TrafficInv
  <2> QED
    BY <1>1, <2>1, ReleaseOwned
<1>8. ASSUME NEW m \in Live, m \notin ReleasedByBatch(b)  PROVE m \in Live'
  <2>1. ActiveMission' = ActiveMission
    BY <1>1 DEF ActiveMission, profileVars, goalVars
  <2>2. m \in QueuedIds => m \in QueuedIds'
    BY <1>1, <1>8 DEF QueuedIds, QueueWithoutBatch, ReleasedByBatch
  <2> QED
    BY <2>1, <2>2 DEF Live
<1>9. OrdersOwn' /\ Orphans' \subseteq Orphans
  BY <1>7, <1>8 DEF OrderInv, OrdersOwn, Orphans
<1>10. Live \cap FacilityMission \subseteq Live'
  BY <1>3, <1>8 DEF ReleasedByBatch
<1> QED
  BY <1>1, <1>6, <1>9, <1>10, FacilitiesStay DEF OrderDone, OrderInv, NothingLeft

\* New priorities lose no mission of the queue.
LEMMA BatchReprioritized ==
    ASSUME OrderInv, NEW b \in Batch, NEW priorities \in [BatchMissions(b) -> Priority],
           ReprioritizeBatch(priorities)
    PROVE  OrderDone
<1> DEFINE changed(e) == IF e.id \in DOMAIN priorities
                         THEN [e EXCEPT !.priority = priorities[e.id]] ELSE e
<1>1. /\ mission_queue' = {changed(e) : e \in mission_queue}
      /\ UNCHANGED <<next_queue_sequence, queue_running, queue_start_requested,
                     paused_workflow_orders, profileVars, goalVars, controlVars, recoveryVars,
                     low_battery_dock_request_sent, trafficVars, facilityVars>>
      /\ SetStateIfIdle("QUEUED") \/ UNCHANGED current_state
  BY DEF ReprioritizeBatch, Reprioritized
<1>2. CoreInv /\ Priority \subseteq Int
  BY CoreOfRunner, MissionRunnerAssumption DEF OrderInv
<1>3. \A e \in mission_queue : /\ changed(e) \in QueueEntry
                               /\ changed(e).id = e.id /\ changed(e).sequence = e.sequence
  <2> SUFFICES ASSUME NEW e \in mission_queue
               PROVE  /\ changed(e) \in QueueEntry
                      /\ changed(e).id = e.id /\ changed(e).sequence = e.sequence
    OBVIOUS
  <2>1. e \in QueueEntry
    BY <1>2 DEF CoreInv, RunnerTypeOK
  <2>2. e.id \in DOMAIN priorities => priorities[e.id] \in Int
    BY <1>2
  <2> QED
    BY <2>1, <2>2 DEF QueueEntry
<1>4. QueueTyped'
  BY <1>1, <1>2, <1>3 DEF CoreInv, RunnerTypeOK, QueueTyped
<1>5. QueueInv'
  <2>1. ASSUME NEW d \in mission_queue, NEW c \in mission_queue,
               changed(d).id = changed(c).id \/ changed(d).sequence = changed(c).sequence
        PROVE  changed(d) = changed(c)
    <3>1. d = c
      BY <1>2, <1>3, <2>1 DEF CoreInv, QueueInv, UniqueSequence
    <3> QED
      BY <3>1
  <2>2. \A d \in mission_queue : changed(d).sequence < next_queue_sequence'
    BY <1>1, <1>2, <1>3 DEF CoreInv, QueueInv, UniqueSequence
  <2> HIDE DEF changed
  <2> QED
    BY <1>1, <2>1, <2>2 DEF QueueInv, UniqueSequence
<1>6. QueuedIds' = QueuedIds
  BY <1>1, <1>3 DEF QueuedIds
<1> HIDE DEF changed
<1>7. FlagsTyped'
  BY <1>1, <1>2 DEF SetStateIfIdle, CoreInv, RunnerTypeOK, FlagsTyped, State, goalVars, controlVars,
                    recoveryVars
<1>8. CoreInv'
  BY <1>1, <1>2, <1>4, <1>5, <1>6, <1>7, AdmissionStep DEF CoreInv, ActiveInv
<1>9. Live' = Live
  BY <1>1, <1>6 DEF Live, ActiveMission, profileVars, goalVars
<1> QED
  BY <1>1, <1>8, <1>9, QueueOrderDone

LEMMA OrderControlStep ==
    ASSUME OrderInv, OrderControl
    PROVE  OrderDone
<1>1. ASSUME NEW o \in DOMAIN Steps, NEW active \in BOOLEAN,
             PauseWorkflow(o, active) \/ ResumeWorkflow(o, active), UNCHANGED facilityVars
      PROVE  OrderDone
  <2>1. o \in Order
    BY OrderDeskAssumption
  <2>2. Next
    BY <1>1, <2>1 DEF Next, NextInQueueOrder, WorkflowService
  <2>3. Live' = Live
    BY <1>1 DEF PauseWorkflow, ResumeWorkflow, Live, ActiveMission, QueuedIds, profileVars, goalVars
  <2> QED
    BY <1>1, <2>2, <2>3, RunnerOrderDone
<1> QED
  BY <1>1, OrderCanceled, BatchCanceled, BatchReprioritized, OrderDeskAssumption DEF OrderControl

\* A mission that ends has no dock to approach, so what missions do is a step of the
\* runner.
LEMMA MissionStepIsNext ==
    ASSUME OrderInv, MissionStep
    PROVE  Next
<1>0. RunnerInv /\ NoDocking
  BY DEF OrderInv
<1>1. ASSUME FacilityResult
      PROVE  GoalResult
  <2>1. ApproachedDock = None
    BY <1>0 DEF ApproachedDock, NoDocking, RunnerInv, TypeOK, RunnerTypeOK
  <2>2. CompletedDockOrDocking = CompletedDock
    BY <2>1 DEF CompletedDockOrDocking, CompletedDock
  <2>3. None \notin Dock /\ DockingMission \subseteq Mission
    BY FacilityRunnerAssumption DEF FacilityMission
  <2>4. ASSUME NEW m \in DockingMission, NEW d \in Dock
        PROVE  ~DockingSucceeded(m, d) /\ ~DockingContactFailed(m, d)
    BY <1>0, <2>3 DEF DockingSucceeded, DockingContactFailed, NoDocking
  <2> QED
    BY <1>1, <2>2, <2>4 DEF FacilityResult, OtherMissionSucceeded, MissionFailed, MissionCanceled,
                            GoalResult
<1> QED
  BY <1>1 DEF MissionStep, RunnerStep, CancelFacilityMission, Next, NextInQueueOrder,
              MissionService, DockService

\* The missions end as the runner ends them, and give back what they hold.
LEMMA MissionOrderStep ==
    ASSUME OrderInv, MissionStep
    PROVE  OrderDone
<1>1. RunnerInv /\ FacilityInv /\ NoDocking
  BY DEF OrderInv
<1>2. FacilityNext
  BY DEF MissionStep, FacilityNext, Cancellation
<1>3. FacilityInv'
  BY <1>1, <1>2, FacilityInvStep
<1>5. Next
  BY MissionStepIsNext
<1>6. RunnerInv' /\ OrdersOwn' /\ (Orphans' \subseteq Orphans \/ current_state' = "ERROR")
  BY <1>5, RunnerOrderStep
<1>7. /\ NoDocking'
      /\ \A f \in Facility : facility_reservations'[f] \in {facility_reservations[f], Unreserved}
  <2>1. CASE UNCHANGED facilityVars
    BY <1>1, <2>1 DEF NoDocking, facilityVars
  <2>2. ASSUME NEW m \in Mission, ReleaseResourceForMission(m),
               \/ UNCHANGED dock_by_mission
               \/ \E state \in DockStatus : MarkDockingMissionTerminal(m, state)
        PROVE  /\ NoDocking'
               /\ \A f \in Facility :
                     facility_reservations'[f] \in {facility_reservations[f], Unreserved}
    <3>1. \A f \in Facility : facility_reservations'[f] \in {facility_reservations[f], Unreserved}
      BY <1>1, <2>2, ReleaseCases
    <3>2. Unreserved.status = "available"
      BY DEF Unreserved, Reservation
    <3>3. \A n \in Mission : dock_by_mission'[n] = None
      BY <1>1, <2>2 DEF NoDocking, MarkDockingMissionTerminal, FacilityInv, FacilityTypeOK
    <3> QED
      BY <1>1, <3>1, <3>2, <3>3 DEF NoDocking
  <2>3. CASE FacilityResult
    <3>1. {"CANCELED", "FAILED"} \subseteq DockStatus
      BY DEF DockStatus
    <3>2. DockingMission \subseteq Mission /\ None \notin Dock
      BY FacilityRunnerAssumption DEF FacilityMission
    <3>3. profile \in DockingMission => dock_by_mission[profile] \notin Dock
      BY <1>1, <3>2 DEF NoDocking
    <3> QED
      BY <1>1, <2>1, <2>2, <2>3, <3>1, <3>3, FacilityResultCases
  <2>4. CASE \E m \in Mission : \E cancel_active \in BOOLEAN : CancelFacilityMission(m, cancel_active)
    BY <2>1, <2>2, <2>4 DEF CancelFacilityMission, facilityVars
  <2> QED
    BY <2>1, <2>3, <2>4 DEF MissionStep, RunnerStep
<1>8. LeftBehind' \subseteq LeftBehind \/ current_state' = "ERROR"
  BY <1>2, <1>7, NothingNewLeft
<1> QED
  BY <1>3, <1>6, <1>7, <1>8 DEF OrderDone, OrderInv, NothingLeft

LEMMA OrderStep == OrderInv /\ [OrderNext]_orderDeskVars => OrderDone
<1> SUFFICES ASSUME OrderInv, [OrderNext]_orderDeskVars  PROVE OrderDone
  OBVIOUS
<1>1. ASSUME NEW p \in Priority, SubmitOrder(p)  PROVE OrderDone
  BY <1>1, OrdersAreGoodCalls, OrderTakenStep DEF OrderDone
<1>2. CASE FleetStep \/ UNCHANGED orderDeskVars
  BY <1>2, OrdersLeftAlone DEF FleetStep, UpdateFleetRobotState, UpdateRemoteTaskState, orderDeskVars
<1> QED
  BY <1>1, <1>2, OrderControlStep, StationOrderStep, MissionOrderStep DEF OrderNext, OrderSystemStep

\* Whatever mix of station, fleet, workflow and scenario orders comes in, the runner
\* keeps its queue, its locks and its facilities consistent, and no dock is approached.
THEOREM OrderInvariance == OrderSpec => []OrderInv
<1>1. OrderInv /\ [OrderNext]_orderDeskVars => OrderInv'
  BY OrderStep DEF OrderDone
<1> QED
  BY <1>1, OrderInvInit, PTL DEF OrderSpec

\* Routes are reserved for several missions in one call and released for several in
\* one cancellation; still no two missions meet at a station when intersection locks
\* are on.
THEOREM OrdersExcludeDeadlock == OrderSpec => []IntersectionLocksExcludeDeadlock
<1>1. OrderInv => IntersectionLocksExcludeDeadlock
  BY CoreOfRunner, OneMissionPerStation DEF OrderInv
<1> QED
  BY <1>1, OrderInvariance, PTL

\* Neither an item that is refused in the middle of an order nor an order that is
\* canceled, in part or whole, leaves a route or a facility behind, unless the step
\* shows ERROR.
THEOREM OrdersLeaveNothing == OrderSpec => OrdersLeaveNothingBehind
<1>1. OrderInv /\ [OrderNext]_orderDeskVars
        => [\/ Orphans' \subseteq Orphans /\ LeftBehind' \subseteq LeftBehind
            \/ current_state' = "ERROR"]_orderDeskVars
  BY OrderStep DEF OrderDone, NothingLeft
<1> QED
  BY <1>1, OrderInvariance, PTL DEF OrderSpec, OrdersLeaveNothingBehind
-----------------------------------------------------------------------------
(* The promises of the runner, under all orders.                            *)

\* What an order may do beside the steps of the runner: it starts and ends no mission
\* and stops no queue, and either leaves the locks alone, gives up those of missions
\* it takes out of the queue, or takes those of missions it brings.
LocksOfOrder ==
    \/ UNCHANGED trafficVars
    \/ \E ms \in SUBSET Mission : ReleaseRouteLocksForMissions(ms) /\ ms \cap Live' = {}
    \/ \E requests, taken : Together(requests, taken) /\ ReserveAll(requests, taken)

Beside ==
    /\ UNCHANGED <<profile, mission_active>>
    /\ Stalled' => Stalled
    /\ LocksOfOrder

LEMMA SubmitIsBeside ==
    ASSUME OrderInv, NEW requests, GoodCall(requests), NEW continue_on_error,
           SubmitInTurn(requests, continue_on_error)
    PROVE  Beside
<1>1. PICK taken \in (SUBSET DOMAIN requests) \ {{}} :
         /\ AdmittedInTurn(requests, taken, continue_on_error)
         /\ ReserveAll(requests, taken)
         /\ \E start, preempt \in BOOLEAN :
               QueueAll(requests, taken, start /\ 1 \in taken /\ requests[1].missions # <<>>,
                        preempt /\ 1 \in taken /\ requests[1].missions # <<>>)
  BY DEF SubmitInTurn
<1>2. PICK start \in BOOLEAN, preempt \in BOOLEAN : QueueAll(requests, taken, start, preempt)
  BY <1>1
<1>3. LocksOfOrder
  BY <1>1, AdmittedTogether DEF LocksOfOrder
<1>4. \/ UNCHANGED <<queueVars, profileVars, goalVars>>
      \/ \E entries, n : AdmitQueuedMissions(entries, n, start, preempt, TRUE)
  BY <1>2 DEF QueueAll
<1>5. CASE UNCHANGED <<queueVars, profileVars, goalVars>>
  BY <1>3, <1>5 DEF Beside, queueVars, profileVars, goalVars, Stalled
<1>6. ASSUME NEW entries, NEW n, AdmitQueuedMissions(entries, n, start, preempt, TRUE)
      PROVE  Beside
  <2>1. UNCHANGED <<profile, mission_active>>
    BY <1>6 DEF AdmitQueuedMissions, profileVars, goalVars
  <2>2. Stalled' => Stalled
    BY <1>6, AdmissionDoesNotStall DEF OrderInv
  <2> QED
    BY <1>3, <2>1, <2>2 DEF Beside
<1> QED
  BY <1>4, <1>5, <1>6

LEMMA BatchIsBeside ==
    ASSUME OrderInv, NEW b \in Batch, NEW cancel_active \in BOOLEAN,
           CancelStationOrderBatch(b, cancel_active)
    PROVE  Beside
<1>1. /\ mission_queue' = QueueWithoutBatch(b)
      /\ ReleaseRouteLocksForMissions(ReleasedByBatch(b))
      /\ UNCHANGED <<queue_running, queue_start_requested, profileVars, goalVars>>
  BY DEF CancelStationOrderBatch
<1>2. ReleasedByBatch(b) \in SUBSET Mission
  BY OrderDeskAssumption, MissionRunnerAssumption DEF ReleasedByBatch, BatchMissions, Range
<1>3. ReleasedByBatch(b) \cap Live' = {}
  <2>1. ActiveMission' = ActiveMission /\ ActiveMission \cap QueuedIds = {}
    BY <1>1, CoreOfRunner DEF ActiveMission, profileVars, goalVars, OrderInv, CoreInv, ActiveInv
  <2>2. ReleasedByBatch(b) \cap QueuedIds' = {}
    BY <1>1 DEF QueuedIds, QueueWithoutBatch, ReleasedByBatch
  <2> QED
    BY <2>1, <2>2 DEF Live, ReleasedByBatch
<1> QED
  BY <1>1, <1>2, <1>3 DEF Beside, LocksOfOrder, Stalled, profileVars, goalVars

\* Every step is one of the runner or does nothing but that.
LEMMA OrderAsRunner ==
    ASSUME OrderInv, [OrderNext]_orderDeskVars
    PROVE  [Next]_vars \/ Beside
<1>1. ASSUME NEW p \in Priority, SubmitOrder(p)  PROVE Beside
  BY <1>1, OrdersAreGoodCalls, SubmitIsBeside
<1>2. CASE OrderControl
  <2>1. ASSUME NEW o \in DOMAIN Steps, NEW active \in BOOLEAN,
               \/ CancelOrder(o, active) \/ PauseWorkflow(o, active) \/ ResumeWorkflow(o, active)
        PROVE  Next
    BY <2>1, OrderDeskAssumption DEF CancelOrder, CancelFacilityWorkflow, Next, NextInQueueOrder,
                                     WorkflowService
  <2>2. ASSUME NEW priorities, ReprioritizeBatch(priorities)  PROVE Beside
    BY <2>2 DEF ReprioritizeBatch, Beside, LocksOfOrder, Stalled, profileVars, goalVars
  <2> QED
    BY <1>2, <2>1, <2>2, BatchIsBeside DEF OrderControl
<1>3. CASE FleetStep \/ UNCHANGED orderDeskVars
  BY <1>3 DEF FleetStep, UpdateFleetRobotState, UpdateRemoteTaskState, orderDeskVars,
              facilityRunnerVars
<1>4. CASE StationStep
  <2>1. ASSUME NEW f \in Fulfillment, NEW p \in Priority, NEW start \in BOOLEAN,
               QueueFulfillment(f, p, start)
        PROVE  Next
    BY <2>1, StationDeskAssumption
       DEF QueueFulfillment, Fulfillment, Next, NextInQueueOrder, WorkflowService
  <2>2. ASSUME NEW c \in Confirmation, ExpireStationConfirmation(c)
        PROVE  [Next]_vars \/ Beside
    <3>1. CASE UNCHANGED facilityRunnerVars
      BY <3>1 DEF facilityRunnerVars
    <3>2. CASE ReturnToDock
      BY <3>2 DEF Next, NextInQueueOrder, DockService
    <3>3. CASE UNCHANGED <<queueVars, profileVars, goalVars, trafficVars>>
      BY <3>3 DEF Beside, LocksOfOrder, Stalled, queueVars, profileVars, goalVars
    <3> QED
      BY <2>2, <3>1, <3>2, <3>3 DEF ExpireStationConfirmation, ReturnToDock
  <2>3. ConfirmationStep => [Next]_vars \/ Beside
    BY <2>2 DEF ConfirmationStep, RequestStationConfirmation, Answer, ResolveStationConfirmation,
                facilityRunnerVars
  <2>4. WarehouseStep => [Next]_vars
    BY <2>1 DEF WarehouseStep, FulfillmentRequest, SubmitFulfillmentOrder, SubmitMilkRun,
                FulfillmentStep, ConfirmPick, ReportShortPick, ConfirmDropoff, Answer,
                ResolveStationConfirmation, facilityRunnerVars
  <2> QED
    BY <1>4, <2>3, <2>4 DEF StationStep
<1>5. CASE MissionStep
  BY <1>5, MissionStepIsNext
<1> QED
  BY <1>1, <1>2, <1>3, <1>4, <1>5 DEF OrderNext, OrderSystemStep

\* What such a step does to the locks: nobody loses one who stays, and the table is a
\* reservation service for those who ask together.
LEMMA BesideLocks ==
    ASSUME OrderInv, LocksOfOrder
    PROVE  /\ \A m \in Mission : m \in Live /\ m \in Live' => OwnedBy(m)' = OwnedBy(m)
           /\ \A l \in Resource : route_locks[l] = TrafficBlock => route_locks'[l] = TrafficBlock
           /\ Service!JointNext \/ UNCHANGED trafficVars
<1>0. TrafficInv /\ TrafficTypeOK /\ TrafficBlock \notin Mission /\ Free \notin Mission /\ TrafficBlock # Free
  BY CoreOfRunner, RouteLocksAssumption DEF OrderInv, TrafficInv
<1>1. CASE UNCHANGED trafficVars
  BY <1>1 DEF trafficVars, OwnedBy
<1>2. ASSUME NEW ms \in SUBSET Mission, ReleaseRouteLocksForMissions(ms), ms \cap Live' = {}
      PROVE  /\ \A m \in Mission : m \in Live /\ m \in Live' => OwnedBy(m)' = OwnedBy(m)
             /\ \A l \in Resource : route_locks[l] = TrafficBlock => route_locks'[l] = TrafficBlock
             /\ Service!JointNext
  <2>1. \A m \in Mission : OwnedBy(m)' = IF m \in ms THEN {} ELSE OwnedBy(m)
    BY <1>0, <1>2, ReleaseOwned
  <2>2. \A l \in Resource : route_locks[l] = TrafficBlock => route_locks'[l] = TrafficBlock
    BY <1>0, <1>2 DEF ReleaseRouteLocksForMissions
  <2>3. Service!JointNext
    BY <1>0, <1>2, ReleaseIsGiveBack DEF Service!JointNext, Service!Next
  <2> QED
    BY <1>2, <2>1, <2>2, <2>3
<1>3. ASSUME NEW requests, NEW taken, Together(requests, taken), ReserveAll(requests, taken)
      PROVE  /\ \A m \in Mission : m \in Live /\ m \in Live' => OwnedBy(m)' = OwnedBy(m)
             /\ \A l \in Resource : route_locks[l] = TrafficBlock => route_locks'[l] = TrafficBlock
             /\ Service!JointNext
  <2>1. ASSUME NEW m \in Live, NEW i \in taken
        PROVE  requests[i].missions # <<m>>
    BY <1>3 DEF Together, FreeBefore, NotKnown, MissionIdActiveOrQueued, Live
  <2>2. /\ \A m \in Mission : \/ OwnedBy(m)' \subseteq OwnedBy(m)
                               \/ \E i \in taken : requests[i].missions = <<m>>
        /\ \A l \in Resource : route_locks[l] # Free => route_locks'[l] = route_locks[l]
    BY <1>0, <1>3, RoutesTakenKeepInv
  <2>3. \A m \in Mission : OwnedBy(m) \subseteq OwnedBy(m)'
    BY <1>0, <2>2 DEF OwnedBy
  <2>4. \A m \in Mission : m \in Live => OwnedBy(m)' = OwnedBy(m)
    BY <2>1, <2>2, <2>3
  <2>5. \A l \in Resource : route_locks[l] = TrafficBlock => route_locks'[l] = TrafficBlock
    BY <1>0, <2>2
  <2> QED
    BY <1>0, <1>3, <2>4, <2>5, RoutesTakenTogether
<1> QED
  BY <1>1, <1>2, <1>3 DEF LocksOfOrder

\* A batch or a workflow reserves several routes in one call: to the missions the table
\* is still a reservation service, in which several clients may ask together.
THEOREM OrdersImplementJointReservations == OrderSpec => ImplementsJointReservations
<1>1. OrderInit => Service!Init
  BY ServiceInit DEF OrderInit, FacilityInit, Init
<1>2. ASSUME OrderInv, [OrderNext]_orderDeskVars
      PROVE  [Service!JointNext]_<<[m \in Mission |-> OwnedBy(m)], OwnedBy(TrafficBlock)>>
  <2>1. TypeOK /\ TrafficInv
    BY <1>2, CoreOfRunner DEF OrderInv, RunnerInv
  <2>2. CASE [Next]_vars
    BY <2>1, <2>2, TrafficStep, ServiceStep DEF Service!JointNext
  <2>3. CASE Beside
    BY <1>2, <2>3, BesideLocks DEF Beside, trafficVars, OwnedBy
  <2> QED
    BY <1>2, <2>2, <2>3, OrderAsRunner
<1> QED
  BY <1>1, <1>2, OrderInvariance, PTL DEF OrderSpec, ImplementsJointReservations, Service!JointSpec

\* No order, whole or in part, and no cancellation of a batch reopens a route that an
\* operator blocked.
THEOREM OrdersKeepBlocks == OrderSpec => BlockOutlivesMissions
<1>1. ASSUME OrderInv, [OrderNext]_orderDeskVars, NEW r \in Resource,
             route_locks[r] = TrafficBlock, route_locks'[r] # TrafficBlock, NEW q \in Resource \ {r}
      PROVE  route_locks'[q] = route_locks[q]
  <2>1. TypeOK /\ TrafficInv
    BY <1>1, CoreOfRunner DEF OrderInv, RunnerInv
  <2>2. CASE [Next]_vars
    BY <1>1, <2>1, <2>2, TrafficStep, BlockStep
  <2>3. CASE Beside
    BY <1>1, <2>3, BesideLocks DEF Beside
  <2> QED
    BY <1>1, <2>2, <2>3, OrderAsRunner
<1>2. OrderInv /\ [OrderNext]_orderDeskVars =>
          [\A r \in Resource : route_locks[r] = TrafficBlock /\ route_locks'[r] # TrafficBlock
              => \A q \in Resource \ {r} : route_locks'[q] = route_locks[q]]_trafficVars
  BY <1>1
<1> QED
  BY <1>2, OrderInvariance, PTL DEF OrderSpec, BlockOutlivesMissions

\* A live station order keeps its route whatever else is ordered, canceled or refused
\* around it, in its own batch too.
THEOREM OrdersKeepRoutes == OrderSpec => LiveOrderKeepsItsRoute
<1>1. OrderInv /\ [OrderNext]_orderDeskVars
        => [\A m \in StationOrder :
              /\ m \in Live /\ OwnedBy(m) # {}
              /\ m \in Live' /\ OwnedBy(m)' # OwnedBy(m)
              => \/ TrafficService
                 \/ m \in ActiveMission /\ current_state' = "RECOVERING"
                 \/ m \in ActiveMission /\ \E o \in Order : CancelWorkflow(o, TRUE)]_vars
  BY LiveRouteStep, OrderAsRunner, BesideLocks, MissionRunnerAssumption DEF OrderInv, Beside
<1> QED
  BY <1>1, OrderInvariance, PTL DEF OrderSpec, LiveOrderKeepsItsRoute

\* Locks are left behind only in a step that shows ERROR, by a batch that is canceled
\* in part as little as by a workflow that is refused in the middle.
THEOREM OrdersReleaseLocks == OrderSpec => LocksAreLeakedOnlyByErrors
<1>1. OrderInv /\ [OrderNext]_orderDeskVars
        => [Orphans' \subseteq Orphans \/ current_state' = "ERROR"]_vars
  BY OrderStep DEF OrderDone, NothingLeft
<1> QED
  BY <1>1, OrderInvariance, PTL DEF OrderSpec, LocksAreLeakedOnlyByErrors

\* No order starts a queued mission of a paused workflow, nor does a new item of the
\* same workflow.
THEOREM OrdersKeepPausedMissions == OrderSpec => PausedMissionsAreNotStarted
<1>1. ASSUME OrderInv, [OrderNext]_orderDeskVars, NEW m \in QueuedIds, BelongsToPausedWorkflow(m)
      PROVE  m \notin ActiveMission'
  <2>1. RunnerInv /\ m \notin ActiveMission
    BY <1>1 DEF OrderInv, RunnerInv, ActiveInv
  <2> QED
    BY <1>1, <2>1, PausedStep, OrderAsRunner DEF Beside, ActiveMission
<1>2. OrderInv /\ [OrderNext]_orderDeskVars
        => [\A m \in QueuedIds : BelongsToPausedWorkflow(m) => m \notin ActiveMission']_vars
  BY <1>1
<1> QED
  BY <1>2, OrderInvariance, PTL DEF OrderSpec, PausedMissionsAreNotStarted

\* A mission whose cancellation was requested, alone, with its batch or with its
\* workflow, ends as canceled or with ERROR and is not recovered.
THEOREM OrdersEndCanceledMissions == OrderSpec => CanceledIsNotRecovered
<1>1. OrderInv /\ [OrderNext]_orderDeskVars
        => [mission_active /\ cancellation_requested
              /\ (~mission_active' \/ profile' \notin {profile, None})
              => /\ current_state' \in {"CANCELED", "ERROR"}
                 /\ mission_queue' = mission_queue]_vars
  BY CanceledStep, OrderAsRunner DEF OrderInv, Beside
<1> QED
  BY <1>1, OrderInvariance, PTL DEF OrderSpec, CanceledIsNotRecovered

\* No order, refusal or cancellation stops the running queue unseen.
THEOREM OrdersShowStalls == OrderSpec => StallIsShown
<1>1. OrderInv /\ [OrderNext]_orderDeskVars
        => [AutoStartQueue /\ Stalled'
              => Stalled \/ current_state' \in {"ERROR", "WORKFLOW_PAUSED"}]_vars
  BY StallStep, OrderAsRunner DEF OrderInv, Beside
<1> QED
  BY <1>1, OrderInvariance, PTL DEF OrderSpec, StallIsShown
=============================================================================
