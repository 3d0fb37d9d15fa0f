CONSTANTS
    Station = {}
    Mission = {"patrol", "dock", "transport_1"}
    Path = {}
    IntersectionLocks = TRUE
    TrafficBlock = TrafficBlock
    Free = Free
    FileMission = {"patrol", "dock"}
    StationOrder = {}
    TransportOrder = {"transport_1"}
    DefaultMission = "patrol"
    DockMission = "dock"
    PathOf <- NoOrder
    Order = {}
    Legs <- NoOrder
    WorkflowOf <- NoWorkflow
    None = None
    Priority = {0, 100}
    DockPriority = 100
    RecoveryPriority = 90
    RecoveryPolicy = "retry_then_dock"
    RetryLimit = 1
    AutoStartQueue = TRUE
    ReturnToDockAfterMission = TRUE
    ReturnToDockOnLowBattery = TRUE
    MaxSequence = 2
    LocalizationPauseOnLost = TRUE
    SafetyObstaclePauseOnBlockage = TRUE
SPECIFICATION PauseSpec
INVARIANTS RunnerInv
PROPERTIES CanceledIsNotRecovered LostRobotIsHeld LocalizationPauseIsEnded
