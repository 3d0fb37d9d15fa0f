----------------------------- MODULE RouteLocks -----------------------------
(***************************************************************************)
(* The route reservation table of the mission runner: route_locks_ maps a  *)
(* route resource (a station node or an edge between two stations) to its  *)
(* owner, a mission or a traffic block, and route_locks_by_mission_ records *)
(* what each mission reserved.  All operations run on the runner's single  *)
(* executor thread, so each is one atomic step                             *)
(* (robot_tasks/src/traffic_reservation.cpp).                              *)
(***************************************************************************)
EXTENDS Integers, Sequences

CONSTANTS
    Station,            \* stations of the catalog
    Mission,            \* mission ids that may own a route lock
    Path,               \* the route paths FindRoutePath can return
    IntersectionLocks,  \* parameter traffic_intersection_locks_enabled
    TrafficBlock,       \* an owner "traffic_block:<reason>"
    Free                \* no entry in route_locks_

ASSUME RouteLocksAssumption ==
    /\ Path \subseteq Seq(Station)
    /\ \A p \in Path : p # <<>>
    /\ IntersectionLocks \in BOOLEAN
    /\ TrafficBlock \notin Mission
    /\ Free \notin Mission
    /\ TrafficBlock # Free

VARIABLES
    route_locks,            \* resource -> owner
    route_locks_by_mission  \* mission -> the resources of its reservation

trafficVars == <<route_locks, route_locks_by_mission>>
-----------------------------------------------------------------------------
NodeLock(s) == [kind |-> "route_node", ends |-> {s}]

\* An edge has one lock for both directions: RouteLockId sorts its end points.
EdgeLock(s, t) == [kind |-> "route_edge", ends |-> {s, t}]

NodeLocks == {NodeLock(s) : s \in Station}
EdgeLocks == {EdgeLock(s, t) : s, t \in Station}
Resource == NodeLocks \cup EdgeLocks

Owner == Mission \cup {TrafficBlock, Free}

\* Faulty: the last station of the path is left out.
FaultyBuildRouteLockIds(path) ==
    (IF IntersectionLocks THEN {NodeLock(path[i]) : i \in 1..(Len(path) - 1)} ELSE {})
        \cup {EdgeLock(path[i], path[i + 1]) : i \in 1..(Len(path) - 1)}

BuildRouteLockIds(path) ==
    (IF IntersectionLocks THEN {NodeLock(path[i]) : i \in 1..Len(path)} ELSE {})
        \cup {EdgeLock(path[i], path[i + 1]) : i \in 1..(Len(path) - 1)}

OwnedBy(m) == {r \in Resource : route_locks[r] = m}

TrafficTypeOK ==
    /\ route_locks \in [Resource -> Owner]
    /\ route_locks_by_mission \in [Mission -> SUBSET Resource]

TrafficInit ==
    /\ route_locks = [r \in Resource |-> Free]
    /\ route_locks_by_mission = [m \in Mission |-> {}]
-----------------------------------------------------------------------------
\* Faulty: only one of the resources has to be free.
FaultyCanReserve(m, locks) == \E r \in locks : route_locks[r] \in {Free, m}

CanReserve(m, locks) == \A r \in locks : route_locks[r] \in {Free, m}

\* All or nothing: a resource of another owner rejects the whole request.
ReserveRouteLocksForMission(m, locks) ==
    /\ CanReserve(m, locks)
    /\ route_locks' = [r \in Resource |-> IF r \in locks THEN m ELSE route_locks[r]]
    /\ route_locks_by_mission' = [route_locks_by_mission EXCEPT ![m] = locks]

\* Faulty: every route lock without a mission is dropped with the missions' own.
FaultyReleaseClearsBlocks(ms) ==
    /\ route_locks' = [r \in Resource |->
                          IF route_locks[r] \in ms \cup {TrafficBlock}
                          THEN Free ELSE route_locks[r]]
    /\ route_locks_by_mission' = [m \in Mission |->
                                     IF m \in ms THEN {} ELSE route_locks_by_mission[m]]

\* Faulty: the record of the reservation is not erased.
FaultyReleaseKeepsRecord(ms) ==
    /\ route_locks' = [r \in Resource |->
                          IF route_locks[r] \in ms THEN Free ELSE route_locks[r]]
    /\ UNCHANGED route_locks_by_mission

\* The recorded reservation and every other lock of the missions of ms go.
ReleaseRouteLocksForMissions(ms) ==
    /\ route_locks' = [r \in Resource |->
                          IF route_locks[r] \in ms THEN Free ELSE route_locks[r]]
    /\ route_locks_by_mission' = [m \in Mission |->
                                     IF m \in ms THEN {} ELSE route_locks_by_mission[m]]

RouteExists(from, to) == \E p \in Path : p[1] = from /\ p[Len(p)] = to

BlockStationRoute(from, to) ==
    /\ RouteExists(from, to)
    /\ route_locks[EdgeLock(from, to)] = Free
    /\ route_locks' = [route_locks EXCEPT ![EdgeLock(from, to)] = TrafficBlock]
    /\ UNCHANGED route_locks_by_mission

UnblockStationRoute(from, to) ==
    /\ route_locks[EdgeLock(from, to)] = TrafficBlock
    /\ route_locks' = [route_locks EXCEPT ![EdgeLock(from, to)] = Free]
    /\ UNCHANGED route_locks_by_mission

\* Clearing a resource of a mission releases everything that mission holds.
ClearTrafficReservation(r) ==
    \/ /\ route_locks[r] = TrafficBlock
       /\ route_locks' = [route_locks EXCEPT ![r] = Free]
       /\ UNCHANGED route_locks_by_mission
    \/ /\ route_locks[r] \in Mission
       /\ ReleaseRouteLocksForMissions({route_locks[r]})
-----------------------------------------------------------------------------
TrafficNext ==
    \/ \E m \in Mission, p \in Path : ReserveRouteLocksForMission(m, BuildRouteLockIds(p))
    \/ \E ms \in SUBSET Mission : ReleaseRouteLocksForMissions(ms)
    \/ \E s, t \in Station : BlockStationRoute(s, t)
    \/ \E s, t \in Station : UnblockStationRoute(s, t)
    \/ \E r \in Resource : ClearTrafficReservation(r)

TrafficSpec == TrafficInit /\ [][TrafficNext]_trafficVars

\* The table read as the abstract reservation service: missions hold resources,
\* a traffic block closes one.
Service == INSTANCE Reservations WITH
    Client  <- Mission,
    Request <- {BuildRouteLockIds(p) : p \in Path},
    held    <- [m \in Mission |-> OwnedBy(m)],
    closed  <- OwnedBy(TrafficBlock)
-----------------------------------------------------------------------------
\* PlanTrafficDeadlockDetection: the missions that own an edge ending at s.
MissionsAt(s) == {route_locks[e] : e \in {l \in EdgeLocks : s \in l.ends}} \cap Mission

DetectTrafficDeadlock == \E s \in Station : \E m, n \in MissionsAt(s) : m # n

\* With intersection locks, a mission that owns an edge owns both its end
\* stations, because a path reserves its nodes together with its edges and a
\* release never gives back a part.
EdgeOwnerHoldsStations ==
    IntersectionLocks =>
        \A e \in EdgeLocks : route_locks[e] \in Mission =>
            \A s \in e.ends : route_locks[NodeLock(s)] = route_locks[e]

\* With intersection locks, detect_traffic_deadlock never reports a station
\* shared by two missions: the all-or-nothing reservation excludes it.
IntersectionLocksExcludeDeadlock == IntersectionLocks => ~DetectTrafficDeadlock

\* What is recorded as reserved by a mission is owned by it in the table, so a
\* release by mission id leaves nothing of the reservation behind.
ReservationsAreOwned == \A m \in Mission : route_locks_by_mission[m] \subseteq OwnedBy(m)

\* The inductive invariant of the table.
TrafficInv == TrafficTypeOK /\ EdgeOwnerHoldsStations /\ ReservationsAreOwned

\* The table implements the reservation service: no operation takes a resource
\* over from another mission or from a traffic block, and none is half done.
ImplementsReservations == Service!Spec

\* A traffic block disappears alone: neither the end of a mission nor its
\* cancellation reopens a route an operator blocked.
BlockOutlivesMissions ==
    [][\A r \in Resource : route_locks[r] = TrafficBlock /\ route_locks'[r] # TrafficBlock
          => \A q \in Resource \ {r} : route_locks'[q] = route_locks[q]]_trafficVars
=============================================================================
