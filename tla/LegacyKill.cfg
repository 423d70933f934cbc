SPECIFICATION FairSpec
CONSTANTS
    k1 = k1
    Hosts <- EveryHost
    PIDs <- WithSystem
    Containers <- OneContainer
    FullIDs <- OneContainer
    Publishes <- PublishesEighty
    Ports <- TwoPorts
    InitialPIDs <- OnePID
    InitialUp <- OneContainer
    Invisible <- None
    MaxStart = 2
    MaxMoves = 2
    MaxConcurrent = 1
    MaxFaults = 1
    SelfPID = 9
    VerifyAttempts = 2
INVARIANTS
    KilledLeftThePort
    FreedIsFree
    RefusedIsSpared
    LateKillsUnclaimed
PROPERTIES
    Terminates
