\* One image, two invocations without FORCE, one kill at any step.
SPECIFICATION Spec
CONSTANTS
    i1 = i1  i2 = i2  d1 = d1  d2 = d2  p1 = p1  p2 = p2  p3 = p3  p4 = p4  p5 = p5
    Images = {i1}
    NoImage = NoImage
    ImageSeq <- OneImage
    Dests = {d1}
    Folder = d1
    DestOf <- OnlyFolder
    Plugins = {p1, p2, p3, p4, p5}
    Known = {p1, p2}
    PluginLists <- MixedLists
    ForceModes = {FALSE}
    Supersedes <- NewOverOld
    Triggers = {p2}
    Legacy <- OldLayout
    Leftover <- OldOutput
    WatchdogOn = TRUE
    OnUnix = TRUE
    MaxStalls = 2
    MaxRuns = 2
    MaxCrashes = 1
INVARIANTS TypeOK Resumable StoreMatchesRaw
PROPERTIES ValidKept CompletedNotRerun ImplementsCarStore
CHECK_DEADLOCK FALSE
