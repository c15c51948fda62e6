SPECIFICATION Spec
VIEW MCView
CONSTANTS
    TickModulus = 6
    HeartbeatTimeout = 1
    MaxStall = 1
    Worlds = {{"PIPELINED"}, {"IO_FAILS"}, {"MAINTENANCE"}, {"BAD_REFERENCES"}}
INVARIANTS TypeOK StopTakesEffect UnattendedArmsLoseTorque GoalsAuthorised RightArmSupervised
PROPERTY SupervisionNotDroppedSilently
