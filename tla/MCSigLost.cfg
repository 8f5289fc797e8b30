\* Two engines author at the same time.
SPECIFICATION ConvergenceSpec
CONSTANTS
    b1 = b1  b2 = b2  b3 = b3
    e1 = e1  e2 = e2
    Engines = {e1, e2}
    Builds = {b1, b3}
    NoBuild = NoBuild
    Locates <- OnTheirOwn
    Shipped = {}
PROPERTIES LineagesCovered
