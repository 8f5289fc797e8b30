\* A writer and a read-only engine on one cache; kills, failing reads and writes.
SPECIFICATION Spec
CONSTANTS
    a1 = a1  a2 = a2  a3 = a3  g1 = g1
    Engines = {e1, e2}
    Accessors = {a1, a2, a3}
    Decodable = {a1, a2}
    Globals = {}
    Token = TokenScan
    Seed <- HandSeed
    Cached <- NoEntry
    Writers = {e1}
    Flaky = {e2}
    TmpWritable = TRUE
    WritesFail = TRUE
INVARIANTS TypeOK SeedCarried CompleteIsWhole
PROPERTIES Grows
