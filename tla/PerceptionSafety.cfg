SPECIFICATION PerceptionSpec
CONSTANTS
    Switches = {"localization_lost_stop", "sensor_stale_stop", "chassis_fault_stop", "communication_lost_stop"}
    PerceptionTimeout = 1
    FullSpeed = 2
    LimitedSpeed = 1
    PerceptionLimit = 1
    DynamicLimits = {}
    Reports = {}
    Flaky = {}
    MaxTime = 5
    ConfirmFrames = 2
    LostFrames = 2
    RetirementFrames = 2
    MaxMatchDistance = 5
    EmaAlpha = 4
    Cooldown = 1
    Places = {8, 13, 17}
    DangerPlaces = {}
    StopDistance = 15
    SlowDistance = 30
    Hysteresis = 2
    ClearObservations = 2
    MaxTargetAge = 2
    ClearPlace = 50
    MaxId = 4
    Things = {TRUE}
    MaxWire = 2
INVARIANTS PerceptionInv
PROPERTIES NewestStopIsObeyed
