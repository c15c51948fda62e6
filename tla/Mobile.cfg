SPECIFICATION FairSpec
VIEW MCView
CONSTANTS
    TickModulus = 8
    WorkCount = 2
    MaxToken = 1000
    Packet <- Velocity
    MaxSession = 2
    MaxSequence = 1
    CommandTimeout = 2
    FeedbackTimeout = 2
    SampleTimeout = 2
    PerMs = 3
    JobLifetime = 3
    JobBudget = 1
    MaxOutage = 1
INVARIANTS TypeOK LatchHolds
PROPERTIES MovesInTime MotionRestsOnEvidence MotionEnds
