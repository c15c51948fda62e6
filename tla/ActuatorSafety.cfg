SPECIFICATION MachineSpec
CONSTANTS
    TickModulus = 16
    HeartbeatTimeout = 3
    MaxTickGap = 2
    MaxSilence = 9
INVARIANTS EstopDominates ActiveMeansHeard
PROPERTIES NoShortCutToActive
