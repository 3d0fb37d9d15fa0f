---------------------------- MODULE Reservations ----------------------------
(***************************************************************************)
(* What the reservation tables of the mission runner promise: a client     *)
(* holds a set of resources that no other client holds, it gets all it     *)
(* asks for or nothing, it gives back all it holds, and a resource that is *)
(* closed is held by nobody.  RouteLocks implements this specification.    *)
(***************************************************************************)
CONSTANTS
    Client,
    Resource,
    Request    \* the sets of resources a client asks for together

VARIABLES
    held,    \* client -> the resources it holds
    closed   \* resources taken out of service

Init ==
    /\ held = [c \in Client |-> {}]
    /\ closed = {}

Acquire(c, rs) ==
    /\ rs \cap closed = {}
    /\ \A d \in Client \ {c} : rs \cap held[d] = {}
    /\ held' = [held EXCEPT ![c] = @ \cup rs]
    /\ UNCHANGED closed

GiveBack(cs) ==
    /\ held' = [c \in Client |-> IF c \in cs THEN {} ELSE held[c]]
    /\ UNCHANGED closed

Close(r) ==
    /\ \A c \in Client : r \notin held[c]
    /\ closed' = closed \cup {r}
    /\ UNCHANGED held

Open(r) ==
    /\ closed' = closed \ {r}
    /\ UNCHANGED held

Next ==
    \/ \E c \in Client, rs \in Request : Acquire(c, rs)
    \/ \E cs \in SUBSET Client : GiveBack(cs)
    \/ \E r \in Resource : Close(r) \/ Open(r)

Spec == Init /\ [][Next]_<<held, closed>>
-----------------------------------------------------------------------------
\* Several clients ask in one step.  None wants what another holds or wants, and
\* each gets all it asks for.
AcquireTogether(want) ==
    /\ \A c \in Client :
          /\ want[c] \cap closed = {}
          /\ \A d \in Client \ {c} : want[c] \cap (held[d] \cup want[d]) = {}
    /\ held' = [c \in Client |-> held[c] \cup want[c]]
    /\ UNCHANGED closed

JointNext == Next \/ \E want \in [Client -> Request \cup {{}}] : AcquireTogether(want)

JointSpec == Init /\ [][JointNext]_<<held, closed>>
=============================================================================
