SPECIFICATION ShellSpec
CONSTANTS
    w1 = w1
    w2 = w2
    r1 = r1
    o1 = o1
    o2 = o2
    o3 = o3
    o4 = o4
    Planners <- TwoPlanners
    Appliers <- OneApplier
    ModeOf <- OneOfEach
    Casts <- PairsAndSingles
    Old = old
    Linked = linked
    MaxMoves = 1
    MaxFaults = 1
    MaxSignals = 2
    MaxMishaps = 1
CONSTRAINT FewTroubles
SYMMETRY EitherPlanner
INVARIANTS
    NothingElseWritten
    OneDocument
    FileMatchesReport
    SignalsLoseNothing
PROPERTIES
    AtomicReplace
