SPECIFICATION Spec
CONSTANTS
    k1 = k1
    k2 = k2
    Planner = Planner
    Observer = Observer
    Hosts <- DockerHosts
    PIDs <- OnePID
    Containers <- TwoContainers
    FullIDs <- TwoContainers
    NameOf <- SameName
    Publishes <- PublishesEighty
    Ports <- OnePort
    InitialPIDs <- OnePID
    InitialUp <- OneContainer
    Invisible <- None
    MaxStart = 1
    MaxMoves = 2
    MaxConcurrent = 2
    Mode = "auto"
    MaxFaults = 1
    SelfPID = 9
INVARIANTS
    FreeWasFree
    GoneWasGone
    EffectsCounted
    RefusedWasThere
    OkWasFree
PROPERTIES
    ImplementsDocuments
    Advances
