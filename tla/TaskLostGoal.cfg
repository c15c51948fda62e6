SPECIFICATION Spec
VIEW MCView
CONSTANTS
    Tasks = 1
    None = None
    Plan <- DriveThenLift
    TaskTimeout = 4
    StepTimeout = 3
    StopTimeout = 1
    MaxAge = 1
    MaxGap = 1
INVARIANT NothingLeftAtWork
