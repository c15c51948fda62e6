SPECIFICATION MCSpec
VIEW MCView
CONSTANTS
    TickModulus = 40
    MovingJoint = mj
    LockedJoint = lj
    Left = left
    E1 = e1
    E2 = e2
    Timeout = 4
    OpenEnded = {FALSE, TRUE}
    Boot = 35
    Reach = 3
    AppendsOnly = FALSE
    Joint <- MCJoint
    Arm <- MCArm
    Epoch <- MCEpoch
    NoEpoch = none
    ControlTickMs = 2
    MinimumSpliceLeadMs = 2
    QueueCapacity = 3
    WireMaxSamples = 2
    HardCaps <- MCHardCaps
    JointLimit <- MCJointLimit
    OfferedPolicy <- MCOfferedPolicy
    OfferedBatch <- MCOfferedBatch
    AnchorPosition <- MCAnchorPosition
    Reading <- MCReading
    MaxAccepted = 3
    MaxSilence = 3
INVARIANTS
    MotionWithinLimits
    QueueInOrder
    SampleAccounting
    SuccessMeansWholePlan
    TimelineNeverBreaks
    NotAppliedEarly
    OpenOutputIsAuthorised
    EndsOnTime
PROPERTIES
    ImplementsBoundedMotion
    FedOutputStepBounded
