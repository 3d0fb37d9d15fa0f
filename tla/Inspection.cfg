CONSTANTS
    ConfirmFrames = 2
    LostFrames = 1
    RetirementFrames = 2
    MaxMatchDistance = 1
    EmaAlpha = 4
    Cooldown = 1
    Things = {0, 5}
    RetryCount = 1
    MaxStamp = 6
    MaxTarget = 2
SPECIFICATION InspectionSpec
PROPERTIES InspectionEndsInBothNodes
CHECK_DEADLOCK FALSE
