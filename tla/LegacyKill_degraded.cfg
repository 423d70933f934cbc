SPECIFICATION Spec
CONSTANTS
    k1 = k1
    Hosts <- LsofHost
    PIDs <- OnePID
    Containers <- None
    FullIDs <- None
    Publishes <- PublishesEighty
    Ports <- OnePort
    InitialPIDs <- OnePID
    InitialUp <- None
    Invisible <- None
    MaxStart = 1
    MaxMoves = 0
    MaxConcurrent = 1
    MaxFaults = 1
    SelfPID = 9
    VerifyAttempts = 2
INVARIANTS
    KilledMeansGone
