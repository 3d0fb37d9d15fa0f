-------------------------- MODULE RouteLocks_proofs --------------------------
(***************************************************************************)
(* Proofs about the route reservation table.  TrafficInv is inductive: it  *)
(* adds to the type invariant that a mission owns both end stations of     *)
(* each of its edges and everything its reservation records.               *)
(***************************************************************************)
EXTENDS RouteLocks, TLAPS

\* A path locks resources of the table, and with an edge its two stations.
LEMMA RouteLockIds ==
    ASSUME NEW p \in Path
    PROVE  /\ BuildRouteLockIds(p) \subseteq Resource
           /\ IntersectionLocks => \A e \in EdgeLocks \cap BuildRouteLockIds(p) :
                                       \A s \in e.ends : NodeLock(s) \in BuildRouteLockIds(p)
<1>1. p \in Seq(Station)
  BY RouteLocksAssumption
<1>2. \A i \in 1..Len(p) : p[i] \in Station
  BY <1>1
<1>3. \A i \in 1..(Len(p) - 1) : i \in 1..Len(p) /\ i + 1 \in 1..Len(p)
  BY <1>1
<1>4. \A i \in 1..Len(p) : NodeLock(p[i]) \in NodeLocks
  BY <1>2 DEF NodeLocks
<1>5. \A i \in 1..(Len(p) - 1) : EdgeLock(p[i], p[i + 1]) \in EdgeLocks
  BY <1>2, <1>3 DEF EdgeLocks
<1>6. BuildRouteLockIds(p) \subseteq Resource
  BY <1>4, <1>5 DEF BuildRouteLockIds, Resource
<1>7. ASSUME IntersectionLocks,
             NEW e \in EdgeLocks, e \in BuildRouteLockIds(p), NEW s \in e.ends
      PROVE  NodeLock(s) \in BuildRouteLockIds(p)
  <2>1. \A q : NodeLock(q).kind = "route_node"
    BY DEF NodeLock
  <2>2. e.kind = "route_edge"
    BY <1>7 DEF EdgeLocks, EdgeLock
  <2>3. PICK i \in 1..(Len(p) - 1) : e = EdgeLock(p[i], p[i + 1])
    BY <1>7, <2>1, <2>2 DEF BuildRouteLockIds
  <2>4. s = p[i] \/ s = p[i + 1]
    BY <1>7, <2>3 DEF EdgeLock
  <2> QED
    BY <1>3, <1>7, <2>4 DEF BuildRouteLockIds
<1> QED
  BY <1>6, <1>7

LEMMA LocksAreDisjoint ==
    /\ \A s \in Station : NodeLock(s) \in Resource /\ NodeLock(s) \notin EdgeLocks
    /\ \A s, t \in Station : EdgeLock(s, t) \in EdgeLocks
    /\ EdgeLocks \subseteq Resource
    /\ \A e \in EdgeLocks : e.ends \subseteq Station
<1>1. \A s : NodeLock(s).kind = "route_node"
  BY DEF NodeLock
<1>2. \A e \in EdgeLocks : e.kind = "route_edge"
  BY DEF EdgeLocks, EdgeLock
<1>3. \A s \in Station : NodeLock(s) \in Resource /\ NodeLock(s) \notin EdgeLocks
  BY <1>1, <1>2 DEF Resource, NodeLocks
<1>4. \A e \in EdgeLocks : e.ends \subseteq Station
  BY DEF EdgeLocks, EdgeLock
<1> QED
  BY <1>3, <1>4 DEF Resource, EdgeLocks
-----------------------------------------------------------------------------
LEMMA TrafficInvInit == TrafficInit => TrafficInv
<1> SUFFICES ASSUME TrafficInit PROVE TrafficInv
  OBVIOUS
<1>1. TrafficTypeOK
  BY DEF TrafficInit, TrafficTypeOK, Owner
<1>2. EdgeOwnerHoldsStations
  BY RouteLocksAssumption, LocksAreDisjoint DEF TrafficInit, EdgeOwnerHoldsStations
<1>3. ReservationsAreOwned
  BY DEF TrafficInit, ReservationsAreOwned
<1> QED
  BY <1>1, <1>2, <1>3 DEF TrafficInv

\* All or nothing: the new owner takes the nodes with the edges, and takes
\* nothing that another mission owns.
LEMMA ReserveKeepsInv ==
    ASSUME TrafficInv, NEW m \in Mission, NEW p \in Path,
           ReserveRouteLocksForMission(m, BuildRouteLockIds(p))
    PROVE  TrafficInv'
<1> DEFINE locks == BuildRouteLockIds(p)
<1>1. locks \subseteq Resource
  BY RouteLockIds
<1>2. /\ \A r \in locks : route_locks[r] \in {Free, m}
      /\ route_locks' = [r \in Resource |-> IF r \in locks THEN m ELSE route_locks[r]]
      /\ route_locks_by_mission' = [route_locks_by_mission EXCEPT ![m] = locks]
  BY DEF ReserveRouteLocksForMission, CanReserve
<1>3. TrafficTypeOK
  BY DEF TrafficInv
<1>4. TrafficTypeOK'
  BY <1>1, <1>2, <1>3 DEF TrafficTypeOK, Owner
<1>5. EdgeOwnerHoldsStations'
  <2> SUFFICES ASSUME IntersectionLocks, NEW e \in EdgeLocks, route_locks'[e] \in Mission,
                      NEW s \in e.ends
               PROVE  route_locks'[NodeLock(s)] = route_locks'[e]
    BY DEF EdgeOwnerHoldsStations
  <2>1. e \in Resource /\ s \in Station /\ NodeLock(s) \in Resource
    BY LocksAreDisjoint
  <2>2. CASE e \in locks
    BY <1>2, <2>1, <2>2, RouteLockIds
  <2>3. CASE e \notin locks
    <3>1. route_locks'[e] = route_locks[e] /\ route_locks[NodeLock(s)] = route_locks[e]
      BY <1>2, <2>1, <2>3 DEF TrafficInv, EdgeOwnerHoldsStations
    <3>2. CASE NodeLock(s) \in locks
      BY <1>2, <2>1, <3>1, <3>2, RouteLocksAssumption
    <3>3. CASE NodeLock(s) \notin locks
      BY <1>2, <2>1, <3>1, <3>3
    <3> QED
      BY <3>2, <3>3
  <2> QED
    BY <2>2, <2>3
<1>6. ReservationsAreOwned'
  <2> SUFFICES ASSUME NEW n \in Mission, NEW r \in route_locks_by_mission'[n]
               PROVE  r \in Resource /\ route_locks'[r] = n
    BY DEF ReservationsAreOwned, OwnedBy
  <2>1. CASE n = m
    BY <1>1, <1>2, <1>3, <2>1 DEF TrafficTypeOK
  <2>2. CASE n # m
    <3>1. r \in Resource /\ route_locks[r] = n
      BY <1>2, <1>3, <2>2 DEF TrafficTypeOK, TrafficInv, ReservationsAreOwned, OwnedBy
    <3> QED
      BY <1>2, <2>2, <3>1, RouteLocksAssumption
  <2> QED
    BY <2>1, <2>2
<1> QED
  BY <1>4, <1>5, <1>6 DEF TrafficInv

LEMMA ReleaseKeepsInv ==
    ASSUME TrafficInv, NEW ms \in SUBSET Mission, ReleaseRouteLocksForMissions(ms)
    PROVE  TrafficInv'
<1>1. /\ route_locks' = [r \in Resource |->
                            IF route_locks[r] \in ms THEN Free ELSE route_locks[r]]
      /\ route_locks_by_mission' = [m \in Mission |->
                                       IF m \in ms THEN {} ELSE route_locks_by_mission[m]]
  BY DEF ReleaseRouteLocksForMissions
<1>2. TrafficTypeOK'
  BY <1>1 DEF TrafficInv, TrafficTypeOK, Owner
<1>3. EdgeOwnerHoldsStations'
  BY <1>1, LocksAreDisjoint, RouteLocksAssumption DEF TrafficInv, EdgeOwnerHoldsStations
<1>4. ReservationsAreOwned'
  BY <1>1 DEF TrafficInv, ReservationsAreOwned, OwnedBy
<1> QED
  BY <1>2, <1>3, <1>4 DEF TrafficInv

\* A lock that no mission owns changes to one that no mission owns: blocks.
LEMMA BlockingKeepsInv ==
    ASSUME TrafficInv, NEW r \in Resource, NEW o \in {TrafficBlock, Free},
           route_locks[r] \notin Mission,
           route_locks' = [route_locks EXCEPT ![r] = o],
           UNCHANGED route_locks_by_mission
    PROVE  TrafficInv'
<1>1. TrafficTypeOK'
  BY DEF TrafficInv, TrafficTypeOK, Owner
<1>2. EdgeOwnerHoldsStations'
  BY LocksAreDisjoint, RouteLocksAssumption
     DEF TrafficInv, TrafficTypeOK, EdgeOwnerHoldsStations
<1>3. ReservationsAreOwned'
  BY DEF TrafficInv, TrafficTypeOK, ReservationsAreOwned, OwnedBy
<1> QED
  BY <1>1, <1>2, <1>3 DEF TrafficInv

LEMMA TrafficInvStep == TrafficInv /\ [TrafficNext]_trafficVars => TrafficInv'
<1> SUFFICES ASSUME TrafficInv, [TrafficNext]_trafficVars PROVE TrafficInv'
  OBVIOUS
<1>1. ASSUME NEW m \in Mission, NEW p \in Path,
             ReserveRouteLocksForMission(m, BuildRouteLockIds(p))
      PROVE  TrafficInv'
  BY <1>1, ReserveKeepsInv
<1>2. ASSUME NEW ms \in SUBSET Mission, ReleaseRouteLocksForMissions(ms)
      PROVE  TrafficInv'
  BY <1>2, ReleaseKeepsInv
<1>3. ASSUME NEW s \in Station, NEW t \in Station, BlockStationRoute(s, t)
      PROVE  TrafficInv'
  BY <1>3, BlockingKeepsInv, LocksAreDisjoint, RouteLocksAssumption DEF BlockStationRoute
<1>4. ASSUME NEW s \in Station, NEW t \in Station, UnblockStationRoute(s, t)
      PROVE  TrafficInv'
  BY <1>4, BlockingKeepsInv, LocksAreDisjoint, RouteLocksAssumption DEF UnblockStationRoute
<1>5. ASSUME NEW r \in Resource, ClearTrafficReservation(r)
      PROVE  TrafficInv'
  <2>1. CASE route_locks[r] = TrafficBlock
    BY <1>5, <2>1, BlockingKeepsInv, RouteLocksAssumption DEF ClearTrafficReservation
  <2>2. CASE route_locks[r] # TrafficBlock
    BY <1>5, <2>2, ReleaseKeepsInv DEF ClearTrafficReservation
  <2> QED
    BY <2>1, <2>2
<1>6. CASE UNCHANGED trafficVars
  BY <1>6 DEF trafficVars, TrafficInv, TrafficTypeOK, EdgeOwnerHoldsStations,
              ReservationsAreOwned, OwnedBy
<1> QED
  BY <1>1, <1>2, <1>3, <1>4, <1>5, <1>6 DEF TrafficNext

\* The table is well typed, a mission owns the stations of its edges and what
\* its reservation records, for every catalog, path set and number of missions.
THEOREM TrafficInvariance == TrafficSpec => []TrafficInv
  BY TrafficInvInit, TrafficInvStep, PTL DEF TrafficSpec

\* Two missions with edges at one station would both own its node.
LEMMA OneMissionPerStation == TrafficInv => IntersectionLocksExcludeDeadlock
<1> SUFFICES ASSUME TrafficInv, IntersectionLocks, NEW s \in Station,
                    NEW m \in MissionsAt(s), NEW n \in MissionsAt(s)
             PROVE  m = n
  BY DEF IntersectionLocksExcludeDeadlock, DetectTrafficDeadlock
<1>1. m = route_locks[NodeLock(s)] /\ n = route_locks[NodeLock(s)]
  BY DEF MissionsAt, TrafficInv, EdgeOwnerHoldsStations
<1> QED
  BY <1>1

\* With traffic_intersection_locks_enabled, detect_traffic_deadlock has nothing
\* to report.
THEOREM DeadlockIsExcluded == TrafficSpec => []IntersectionLocksExcludeDeadlock
  BY OneMissionPerStation, TrafficInvariance, PTL

\* A lock of a traffic block goes alone.
LEMMA BlockStep ==
    ASSUME TrafficInv, [TrafficNext]_trafficVars, NEW r \in Resource,
           route_locks[r] = TrafficBlock, route_locks'[r] # TrafficBlock,
           NEW q \in Resource \ {r}
    PROVE  route_locks'[q] = route_locks[q]
<1>1. ASSUME NEW m \in Mission, NEW p \in Path,
             ReserveRouteLocksForMission(m, BuildRouteLockIds(p))
      PROVE  FALSE
  BY <1>1, RouteLocksAssumption DEF ReserveRouteLocksForMission, CanReserve
<1>2. ASSUME NEW ms \in SUBSET Mission, ReleaseRouteLocksForMissions(ms)
      PROVE  FALSE
  BY <1>2, RouteLocksAssumption DEF ReleaseRouteLocksForMissions
<1>3. ASSUME NEW x \in Resource, NEW o, route_locks' = [route_locks EXCEPT ![x] = o]
      PROVE  route_locks'[q] = route_locks[q]
  BY <1>3 DEF TrafficInv, TrafficTypeOK
<1>4. ASSUME NEW s \in Station, NEW t \in Station,
             BlockStationRoute(s, t) \/ UnblockStationRoute(s, t)
      PROVE  route_locks'[q] = route_locks[q]
  BY <1>3, <1>4, LocksAreDisjoint DEF BlockStationRoute, UnblockStationRoute
<1>5. ASSUME NEW x \in Resource, ClearTrafficReservation(x)
      PROVE  route_locks'[q] = route_locks[q]
  BY <1>2, <1>3, <1>5 DEF ClearTrafficReservation
<1>6. CASE UNCHANGED trafficVars
  BY <1>6 DEF trafficVars
<1> QED
  BY <1>1, <1>2, <1>4, <1>5, <1>6 DEF TrafficNext

\* Only the operators' unblock and clear end a traffic block, and they touch
\* nothing else: no reservation or release of a mission does.
THEOREM BlocksOutliveMissions == TrafficSpec => BlockOutlivesMissions
<1>1. TrafficInv /\ [TrafficNext]_trafficVars =>
          [\A r \in Resource : route_locks[r] = TrafficBlock /\ route_locks'[r] # TrafficBlock
              => \A q \in Resource \ {r} : route_locks'[q] = route_locks[q]]_trafficVars
  BY BlockStep
<1> QED
  BY <1>1, TrafficInvariance, PTL DEF TrafficSpec, BlockOutlivesMissions
-----------------------------------------------------------------------------
LEMMA ServiceInit == TrafficInit => Service!Init
  BY RouteLocksAssumption DEF TrafficInit, Service!Init, OwnedBy

LEMMA ReserveIsAcquire ==
    ASSUME TrafficInv, NEW m \in Mission, NEW p \in Path,
           ReserveRouteLocksForMission(m, BuildRouteLockIds(p))
    PROVE  Service!Acquire(m, BuildRouteLockIds(p))
<1> DEFINE locks == BuildRouteLockIds(p)
<1>1. locks \subseteq Resource
  BY RouteLockIds
<1>2. /\ \A r \in locks : route_locks[r] \in {Free, m}
      /\ route_locks' = [r \in Resource |-> IF r \in locks THEN m ELSE route_locks[r]]
  BY DEF ReserveRouteLocksForMission, CanReserve
<1>3. locks \cap OwnedBy(TrafficBlock) = {}
  BY <1>2, RouteLocksAssumption DEF OwnedBy
<1>4. \A d \in Mission \ {m} : locks \cap OwnedBy(d) = {}
  BY <1>2, RouteLocksAssumption DEF OwnedBy
<1>5. OwnedBy(m)' = OwnedBy(m) \cup locks
  BY <1>1, <1>2 DEF OwnedBy
<1>6. \A d \in Mission \ {m} : OwnedBy(d)' = OwnedBy(d)
  BY <1>1, <1>2, RouteLocksAssumption DEF OwnedBy
<1>7. OwnedBy(TrafficBlock)' = OwnedBy(TrafficBlock)
  BY <1>1, <1>2, RouteLocksAssumption DEF OwnedBy
<1>8. [c \in Mission |-> OwnedBy(c)]' =
          [[c \in Mission |-> OwnedBy(c)] EXCEPT ![m] = @ \cup locks]
  BY <1>5, <1>6
<1> QED
  BY <1>3, <1>4, <1>7, <1>8 DEF Service!Acquire

LEMMA ReleaseIsGiveBack ==
    ASSUME TrafficInv, NEW ms \in SUBSET Mission, ReleaseRouteLocksForMissions(ms)
    PROVE  Service!GiveBack(ms)
<1>1. route_locks' = [r \in Resource |->
                         IF route_locks[r] \in ms THEN Free ELSE route_locks[r]]
  BY DEF ReleaseRouteLocksForMissions
<1>2. \A c \in Mission : OwnedBy(c)' = IF c \in ms THEN {} ELSE OwnedBy(c)
  BY <1>1, RouteLocksAssumption DEF OwnedBy
<1>3. OwnedBy(TrafficBlock)' = OwnedBy(TrafficBlock)
  BY <1>1, RouteLocksAssumption DEF OwnedBy
<1> QED
  BY <1>2, <1>3 DEF Service!GiveBack

LEMMA BlockIsClose ==
    ASSUME TrafficInv, NEW r \in Resource, route_locks[r] = Free,
           route_locks' = [route_locks EXCEPT ![r] = TrafficBlock]
    PROVE  Service!Close(r)
<1>1. \A c \in Mission : r \notin OwnedBy(c) /\ OwnedBy(c)' = OwnedBy(c)
  BY RouteLocksAssumption DEF OwnedBy, TrafficInv, TrafficTypeOK
<1>2. OwnedBy(TrafficBlock)' = OwnedBy(TrafficBlock) \cup {r}
  BY DEF OwnedBy, TrafficInv, TrafficTypeOK
<1> QED
  BY <1>1, <1>2 DEF Service!Close

LEMMA UnblockIsOpen ==
    ASSUME TrafficInv, NEW r \in Resource, route_locks[r] = TrafficBlock,
           route_locks' = [route_locks EXCEPT ![r] = Free]
    PROVE  Service!Open(r)
<1>1. \A c \in Mission : OwnedBy(c)' = OwnedBy(c)
  BY RouteLocksAssumption DEF OwnedBy, TrafficInv, TrafficTypeOK
<1>2. OwnedBy(TrafficBlock)' = OwnedBy(TrafficBlock) \ {r}
  BY RouteLocksAssumption DEF OwnedBy, TrafficInv, TrafficTypeOK
<1> QED
  BY <1>1, <1>2 DEF Service!Open

LEMMA ServiceStep ==
    TrafficInv /\ [TrafficNext]_trafficVars
        => [Service!Next]_<<[m \in Mission |-> OwnedBy(m)], OwnedBy(TrafficBlock)>>
<1> SUFFICES ASSUME TrafficInv, [TrafficNext]_trafficVars
             PROVE  [Service!Next]_<<[m \in Mission |-> OwnedBy(m)], OwnedBy(TrafficBlock)>>
  OBVIOUS
<1>1. ASSUME NEW m \in Mission, NEW p \in Path,
             ReserveRouteLocksForMission(m, BuildRouteLockIds(p))
      PROVE  Service!Next
  BY <1>1, ReserveIsAcquire DEF Service!Next
<1>2. ASSUME NEW ms \in SUBSET Mission, ReleaseRouteLocksForMissions(ms)
      PROVE  Service!Next
  BY <1>2, ReleaseIsGiveBack DEF Service!Next
<1>3. ASSUME NEW s \in Station, NEW t \in Station, BlockStationRoute(s, t)
      PROVE  Service!Next
  <2>1. Service!Close(EdgeLock(s, t))
    BY <1>3, BlockIsClose, LocksAreDisjoint DEF BlockStationRoute
  <2> QED
    BY <2>1, LocksAreDisjoint DEF Service!Next
<1>4. ASSUME NEW s \in Station, NEW t \in Station, UnblockStationRoute(s, t)
      PROVE  Service!Next
  <2>1. Service!Open(EdgeLock(s, t))
    BY <1>4, UnblockIsOpen, LocksAreDisjoint DEF UnblockStationRoute
  <2> QED
    BY <2>1, LocksAreDisjoint DEF Service!Next
<1>5. ASSUME NEW r \in Resource, ClearTrafficReservation(r)
      PROVE  Service!Next
  <2>1. CASE route_locks[r] = TrafficBlock /\ route_locks' = [route_locks EXCEPT ![r] = Free]
    BY <2>1, UnblockIsOpen DEF Service!Next
  <2>2. CASE route_locks[r] \in Mission /\ ReleaseRouteLocksForMissions({route_locks[r]})
    BY <2>2, <1>2
  <2> QED
    BY <1>5, <2>1, <2>2 DEF ClearTrafficReservation
<1>6. CASE UNCHANGED trafficVars
  BY <1>6 DEF trafficVars, OwnedBy
<1> QED
  BY <1>1, <1>2, <1>3, <1>4, <1>5, <1>6 DEF TrafficNext

\* The table implements the reservation service.
THEOREM TableImplementsReservations == TrafficSpec => ImplementsReservations
<1>1. TrafficSpec => []TrafficInv
  BY TrafficInvariance
<1> QED
  BY <1>1, ServiceInit, ServiceStep, PTL DEF TrafficSpec, ImplementsReservations, Service!Spec
=============================================================================
