SPECIFICATION EngineSpec
CONSTANTS
    a = a
    b = b
    p1 = p1
    p2 = p2
    Sys = Sys
    ListHead = ListHead
    Stray = Stray
    Lost = Lost
    None = None
    SysPID = SysPID
    Junk = Junk
    Procs = {a, b}
    PIDs = {p1, p2}
    Memories <- AllPools
    Top = 26
    Window = 3
    Unit = 3
    CoreMargin = 1
    CoreGap = 2
    WideMargin = 4
    WideGap = 6
    Cap = 14
    Budgeted = TRUE
    ScanEnabled = TRUE
    Images <- SomeImages
    Entries <- SomeEntries
    SigFiles <- SomeSigs
    MinRing = 3
    MinLinked = 2
    MaxRing = 4
    WritesFail = TRUE
    MaxImages = 2
INVARIANTS
    EngineTypeOK
    HeadOnRing
    HiddenExactly
    KdbgAgrees
    PlanSound
    NoCoverageDefect
    OnceEach
    PoolOnlyExact
PROPERTIES
    BaseWins
CHECK_DEADLOCK FALSE
