CONSTANTS
    Station = {}
    Mission = {"dock", "docking_1", "docking_2", "charging_1", "door_1"}
    Path = {}
    IntersectionLocks = TRUE
    TrafficBlock = TrafficBlock
    Free = Free
    FileMission = {"dock"}
    StationOrder = {}
    TransportOrder = {}
    DefaultMission = "dock"
    DockMission = "dock"
    PathOf <- NoPath
    Order = {"workflow"}
    Legs <- NoLegs
    WorkflowOf <- ActionWorkflow
    None = None
    Priority = {80}
    DockPriority = 100
    RecoveryPriority = 90
    RecoveryPolicy = "retry_then_dock"
    RetryLimit = 1
    AutoStartQueue = TRUE
    ReturnToDockAfterMission = FALSE
    ReturnToDockOnLowBattery = FALSE
    MaxSequence = 2
    Facility = {"charger", "lift"}
    Exclusive = {"charger", "lift"}
    Charger = {"charger"}
    Lift = {"lift"}
    Dock = {"main_dock"}
    ChargerOf <- MainCharger
    DockingMission = {"docking_1", "docking_2"}
    ChargingMission = {"charging_1"}
    ActionMission = {"door_1"}
    Client = {"operator", "docking_1"}
    Named = {"docking_1"}
    UndockRequest = "undocking"
SPECIFICATION MCFacilitySpec
PROPERTIES NothingIsTakenOver ResourcesAreLeftOnlyUnderDockedRobot LiveMissionKeepsItsFacility DockedRobotHoldsItsCharger
