SPECIFICATION Spec
VIEW MCView
CONSTANTS
    TickModulus = 6
    HeartbeatTimeout = 1
    MaxStall = 1
    Worlds = {{"RESTARTS"}}
INVARIANT RxFaultFailsClosed
