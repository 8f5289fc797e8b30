\* Two images, FORCE on and off, one kill: the ledger, the summary, the end.
SPECIFICATION FairSpec
CONSTANTS
    i1 = i1  i2 = i2  d1 = d1  d2 = d2  p1 = p1  p2 = p2  p3 = p3  p4 = p4  p5 = p5
    Images = {i1, i2}
    NoImage = NoImage
    ImageSeq <- TwoImages
    Dests = {d1, d2}
    Folder = d1
    DestOf <- OwnFolder
    Plugins = {p1}
    Known = {p1}
    PluginLists <- OneList
    ForceModes = {TRUE, FALSE}
    Supersedes <- None
    Triggers = {}
    Legacy <- None
    Leftover <- None
    WatchdogOn = TRUE
    OnUnix = TRUE
    MaxStalls = 2
    MaxRuns = 2
    MaxCrashes = 1
INVARIANTS SummaryAddsUp
PROPERTIES Terminates ImplementsLedger
CHECK_DEADLOCK FALSE
