\* One engine, any images, failing reads and writes, kills that come to an end.
SPECIFICATION ConvergenceSpec
CONSTANTS
    b1 = b1  b2 = b2  b3 = b3
    e1 = e1  e2 = e2
    Engines = {e1}
    Builds = {b1, b2, b3}
    NoBuild = NoBuild
    Locates <- TwoLineages
    Shipped = {}
INVARIANTS HeadsCovered
PROPERTIES VariantsKept LineagesCovered
