SPECIFICATION ChainSpec
CONSTANTS
    AmclTimeout = 1
    LostHold = 1
    TfTimeout = 1
    RecoveredHold = 1
    Switches = {"localization_lost_stop", "sensor_stale_stop", "chassis_fault_stop", "communication_lost_stop"}
    PerceptionTimeout = 1
    FullSpeed = 2
    LimitedSpeed = 1
    PerceptionLimit = 1
    DynamicLimits = {1}
    Reports = {}
    Flaky = {"localization"}
    MaxTime = 0
PROPERTIES RelocalizationEndsRecovered LostPoseStopsRobot GoodSignalsReleaseRobot
