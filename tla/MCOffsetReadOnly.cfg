\* A read-only cache with an incomplete entry.
SPECIFICATION ConvergenceSpec
CONSTANTS
    a1 = a1  a2 = a2  a3 = a3  g1 = g1
    Engines = {e1}
    Accessors = {a1, a2, a3}
    Decodable = {a1, a2}
    Globals = {g1}
    Token = TokenScan
    Seed <- NoEntry
    Cached <- OldCache
    Writers = {}
    Flaky = {}
    TmpWritable = TRUE
    WritesFail = FALSE
PROPERTIES Converges
