SPECIFICATION Spec
CONSTANTS
    k1 = k1
    PIDs <- OnePID
    Containers <- OneContainer
    FullIDs <- OneContainer
    NameOf <- SameName
    Ports <- OnePort
    MaxStart = 2
    SelfPID = 9
INVARIANTS
    TypeOK
    PlansValidate
    AccountedFor
    LimitedIsRefused
    StableWorldIsRecognised
    FreeIsProven
    NewOwnerIsSomebody
