SPECIFICATION ClockSpec
CONSTANTS
    Second = 2
    MaxTTL = 4
    MaxGrace = 4
    Slots = 2
    Wave = 3
    Cap = 11
    Margin = 1
    Brief = 1
    ToolDelay = 1
    LookTime = 2
    Poll = 2
    Requests <- SomeRequests
    MaxIdle = 6
CONSTRAINT AppliedAtOnce
INVARIANTS
    PlanIsUsable
    EndsInTime
    WavesFit
    GraceIsWaited
