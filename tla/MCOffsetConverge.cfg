\* Two writers on one fresh cache without a seed: the end of the lost updates.
SPECIFICATION ConvergenceSpec
CONSTANTS
    a1 = a1  a2 = a2  a3 = a3  g1 = g1
    Engines = {e1, e2}
    Accessors = {a1, a2, a3}
    Decodable = {a1, a2}
    Globals = {}
    Token = TokenScan
    Seed <- NoEntry
    Cached <- NoEntry
    Writers = {e1, e2}
    Flaky = {}
    TmpWritable = TRUE
    WritesFail = FALSE
PROPERTIES Converges
