SPECIFICATION ChassisSpec
CONSTANTS
    CommandTimeout = 1
    HeartbeatTimeout = 1
    MaxBuffer = 2
    MaxWire = 1
    Kinds = {"odometry", "state"}
    ChassisFaults = {"NONE", "CMD_TIMEOUT"}
    Commands = {1}
    WriteOutcomes = {"sent", "dropped", "failed"}
INVARIANT DrivingOnIsReported
PROPERTIES EstopEndsByStatePacket SilenceIsReported GoodLinkReportsHealthy
