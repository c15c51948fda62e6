SPECIFICATION FairSpec
VIEW MCView
CONSTANTS
    TickModulus = 14
    WorkCount = 2
    MaxToken = 4
    Packet = {"VELOCITY", "ZERO", "LEFT_HOLD", "RIGHT_HOLD"}
    Timeout = 3
    MaxAge = 2
    MaxOutage = 1
    Robots <- AllRobots
INVARIANTS TypeOK ConfirmedMeansStopped WrittenMeansStill
PROPERTIES NoMotionOnceStopped ZeroGetsOut StopIsCarriedOut
