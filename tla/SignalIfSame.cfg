SPECIFICATION FairSpec
CONSTANTS
    c1 = c1
    c2 = c2
    Calls = {c1, c2}
    PIDs <- MCOnePID
    MaxPID <- MCMaxPID
    MaxStart = 3
    Requested <- MCAnyRequest
    Hosts <- MCEveryHost
    OtherUsers = TRUE
INVARIANTS TypeOK AtomicPathExact StaleTokenSilent RefusalIsFinal
PROPERTIES Returns MeetsContract
