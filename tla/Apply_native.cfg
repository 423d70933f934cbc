SPECIFICATION FairSpec
CONSTANTS
    k1 = k1
    k2 = k2
    Planner = Planner
    Observer = Observer
    Hosts <- BothHosts
    PIDs <- TwoPIDs
    Containers <- None
    FullIDs <- None
    NameOf <- SameName
    Publishes <- PublishesEighty
    Ports <- OnePort
    InitialPIDs <- TwoPIDs
    InitialUp <- None
    Invisible <- None
    MaxStart = 2
    MaxMoves = 2
    MaxConcurrent = 1
    Mode = "auto"
    MaxFaults = 1
    SelfPID = 9
INVARIANTS
    TypeOK
    SignalsJustified
    OriginalWasOriginal
    LateActionsBounded
    UndoneIsSaid
PROPERTIES
    Terminates
