SPECIFICATION Spec
VIEW MCView
CONSTANTS
    TickModulus = 16
    WorkCount = 3
    MaxToken = 3
    Packet = {zero, hold}
    Lifetimes = {3}
    Budgets = {1, 2}
    Windows = {1}
    MaxOutage = 2
    Watched = 2
INVARIANTS OneOwner ReceiptIsTrue TurnsAreTaken
PROPERTIES MotionWaitsForStop MotionIsNeverLate
