SPECIFICATION Spec
CONSTANTS
    c1 = c1
    c2 = c2
    Calls = {c1, c2}
    PIDs <- MCOnePID
    MaxPID <- MCMaxPID
    MaxStart = 3
    Requested <- MCInRange
    Hosts <- MCBrokenSend
    OtherUsers = FALSE
INVARIANTS StrengthHonest
