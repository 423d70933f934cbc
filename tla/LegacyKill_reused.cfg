SPECIFICATION Spec
CONSTANTS
    k1 = k1
    Hosts <- LsofHost
    PIDs <- OnePID
    Containers <- None
    FullIDs <- None
    Publishes <- PublishesEighty
    Ports <- OnePort
    InitialPIDs <- OnePID
    InitialUp <- None
    Invisible <- None
    MaxStart = 2
    MaxMoves = 2
    MaxConcurrent = 1
    MaxFaults = 0
    SelfPID = 9
    VerifyAttempts = 2
INVARIANTS
    KilledOnlyWhatItListed
