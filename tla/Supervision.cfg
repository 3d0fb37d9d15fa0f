SPECIFICATION SupervisionSpec
CONSTANTS
    Switches = {"localization_lost_stop", "sensor_stale_stop", "chassis_fault_stop", "communication_lost_stop"}
    PerceptionTimeout = 1
    FullSpeed = 2
    LimitedSpeed = 1
    PerceptionLimit = 1
    DynamicLimits = {}
    Reports <- EmergencyChassis
    Flaky = {}
    MaxTime = 0
    MonitorTopics = {"chassis", "scan"}
    Unsteady = {"scan"}
    MonitorPerception = TRUE
    Voltages = {"normal", "critical"}
    PerceptionLevels = {"ERROR"}
    AutoClear = TRUE
    MaxPending = 2
    Operator = {"enable", "release"}
INVARIANTS SupervisionInv
PROPERTIES LastingErrorStopsRobot RecoveryReleasesRobot
