CONSTANTS
    Station = {}
    Mission = {"dock", "leg_1", "leg_2"}
    Path = {}
    IntersectionLocks = TRUE
    TrafficBlock = TrafficBlock
    Free = Free
    FileMission = {"dock"}
    StationOrder = {}
    TransportOrder = {}
    DefaultMission = "dock"
    DockMission = "dock"
    PathOf <- NoOrder
    Order = {"task"}
    Legs <- SequenceLegs
    WorkflowOf <- SequenceWorkflow
    None = None
    Priority = {0, 80}
    DockPriority = 100
    RecoveryPriority = 90
    RecoveryPolicy = "retry_then_dock"
    RetryLimit = 1
    AutoStartQueue = TRUE
    ReturnToDockAfterMission = TRUE
    ReturnToDockOnLowBattery = TRUE
    MaxSequence = 5
SPECIFICATION SpecWithoutReprioritize
INVARIANTS LegsInOrder
PROPERTIES PausedMissionsAreNotStarted StallIsShown
