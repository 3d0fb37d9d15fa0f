CONSTANTS
    Station = {"receiving", "storage_a", "packing"}
    Mission = {"dock", "order_1", "order_2"}
    Path <- AislePath
    IntersectionLocks = TRUE
    TrafficBlock = TrafficBlock
    Free = Free
    FileMission = {"dock"}
    StationOrder = {"order_1", "order_2"}
    TransportOrder = {}
    DefaultMission = "dock"
    DockMission = "dock"
    PathOf <- AisleOrders
    Order = {"fleet"}
    Legs <- FleetLegs
    WorkflowOf <- FleetWorkflow
    None = None
    Priority = {0}
    DockPriority = 100
    RecoveryPriority = 90
    RecoveryPolicy = "retry_then_dock"
    RetryLimit = 1
    AutoStartQueue = TRUE
    ReturnToDockAfterMission = FALSE
    ReturnToDockOnLowBattery = FALSE
    MaxSequence = 2
SPECIFICATION Spec
INVARIANTS TrafficInv IntersectionLocksExcludeDeadlock
PROPERTIES ImplementsReservations BlockOutlivesMissions ImplementsTraffic LocksAreLeakedOnlyByErrors LiveOrderKeepsItsRoute
