SPECIFICATION Spec
CONSTANTS
    k1 = k1
    k2 = k2
    Planner = Planner
    Observer = Observer
    Hosts <- OneHost
    PIDs <- OnePID
    Containers <- None
    FullIDs <- None
    NameOf <- SameName
    Publishes <- PublishesEighty
    Ports <- OnePort
    InitialPIDs <- OnePID
    InitialUp <- None
    Invisible <- None
    MaxStart = 1
    MaxMoves = 1
    MaxConcurrent = 2
    Mode = "auto"
    MaxFaults = 0
    SelfPID = 9
INVARIANTS
    InterruptedIsReported
