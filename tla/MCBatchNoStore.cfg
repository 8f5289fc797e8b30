\* The last collector stalls twice: the image is finished without a car.db.
SPECIFICATION Spec
CONSTANTS
    i1 = i1  i2 = i2  d1 = d1  d2 = d2  p1 = p1  p2 = p2  p3 = p3  p4 = p4  p5 = p5
    Images = {i1}
    NoImage = NoImage
    ImageSeq <- OneImage
    Dests = {d1}
    Folder = d1
    DestOf <- OnlyFolder
    Plugins = {p1, p2}
    Known = {p1, p2}
    PluginLists <- FullList
    ForceModes = {FALSE}
    Supersedes <- None
    Triggers = {}
    Legacy <- None
    Leftover <- None
    WatchdogOn = TRUE
    OnUnix = TRUE
    MaxStalls = 2
    MaxRuns = 1
    MaxCrashes = 0
PROPERTIES DoneHasStore
CHECK_DEADLOCK FALSE
