SPECIFICATION CarSpec
CONSTANTS
    new = new
    old = old
    info = info
    malfind = malfind
    thread = thread
    Plugins = {new, old, info, malfind}
    Supersedes <- Successor
    Triggers = {malfind}
    Mapped = {new, old}
    Objects = {thread}
    ObjectOf <- ToThread
    Modes = {"json", "csv", "bare", "batch"}
    Lists <- SomeLists
    Faults = {"remove", "read", "open", "insert", "render"}
    MaxRuns = 2
    MaxKills = 1
INVARIANTS
    TypeOK
    ViewsMatchStore
    NothingTwice
    StoreFromDisk
PROPERTIES
    ImplementsCarStore
CHECK_DEADLOCK FALSE
