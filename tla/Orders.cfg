CONSTANTS
    Station = {"receiving", "packing"}
    Mission = {"dock", "wave_leg", "milk_leg", "batch_1", "batch_2", "fleet_1", "door_1", "vda_1"}
    Path <- AislePaths
    IntersectionLocks = TRUE
    TrafficBlock = TrafficBlock
    Free = Free
    FileMission = {"dock"}
    StationOrder = {"batch_1", "batch_2", "fleet_1", "vda_1"}
    TransportOrder = {}
    DefaultMission = "dock"
    DockMission = "dock"
    PathOf <- AislePathOf
    Order = {"wave", "milk", "flow"}
    Legs <- ShopLegs
    WorkflowOf <- OrderOf
    None = None
    Priority = {1}
    DockPriority = 100
    RecoveryPriority = 90
    RecoveryPolicy = "retry_then_dock"
    RetryLimit = 0
    AutoStartQueue = TRUE
    ReturnToDockAfterMission = FALSE
    ReturnToDockOnLowBattery = FALSE
    MaxSequence = 2
    Facility = {"door"}
    Exclusive = {"door"}
    Charger = {}
    Lift = {}
    Dock = {}
    ChargerOf <- NoChargers
    DockingMission = {}
    ChargingMission = {}
    ActionMission = {"door_1"}
    Client = {"operator"}
    UndockRequest = "undocking"
    Confirmation = {"pick", "drop"}
    PickDropoff = {"wave"}
    MilkRun = {"milk"}
    PickOf <- WavePick
    DropoffOf <- WaveDropoff
    StopsOf <- MilkStops
    Quantity <- Quantities
    Batch = {"batch"}
    BatchOrders <- TwoOrders
    Steps <- TwoSteps
    BusinessOrder = {"flow"}
    WorkflowPriority = 50
    VdaOrder = {"vda_1"}
    Robot = {1, 2, 3}
    LocalRobot = 1
    FleetCatalog <- Fleet
    FleetReport <- Reports
    FleetTask = {"task_1"}
    RemoteTaskState = {"FINISHED"}
    Approach <- Distances
SPECIFICATION MCSpec
INVARIANTS StockIsCounted
PROPERTIES ConfirmationIsDecidedOnce FulfillmentOnlyAdvances OrdersLeaveNothingBehind RemoteTaskKeepsItsRobot
