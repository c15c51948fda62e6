SPECIFICATION Spec
VIEW MCView
CONSTANTS
    TickModulus = 6
    HeartbeatTimeout = 1
    MaxStall = 1
    Worlds = {{"IO_FAILS"}}
PROPERTY FailedDisableLatches
