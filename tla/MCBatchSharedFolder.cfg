\* Two images whose names clean to one folder, under FORCE: the end is never reached.
SPECIFICATION FairSpec
CONSTANTS
    i1 = i1  i2 = i2  d1 = d1  d2 = d2  p1 = p1  p2 = p2  p3 = p3  p4 = p4  p5 = p5
    Images = {i1, i2}
    NoImage = NoImage
    ImageSeq <- TwoImages
    Dests = {d1}
    Folder = d1
    DestOf <- SameFolder
    Plugins = {p1}
    Known = {p1}
    PluginLists <- OneList
    ForceModes = {TRUE}
    Supersedes <- None
    Triggers = {}
    Legacy <- None
    Leftover <- None
    WatchdogOn = TRUE
    OnUnix = TRUE
    MaxStalls = 2
    MaxRuns = 1
    MaxCrashes = 0
PROPERTIES StallRecoveryEnds
CHECK_DEADLOCK FALSE
