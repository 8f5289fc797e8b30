SPECIFICATION Spec
CONSTANTS
    x = x
    y = y
    z = z
    c1 = c1
    c2 = c2
    alice = alice
    system = system
    alias = alias
    sid = sid
    sysSid = sysSid
    l1 = l1
    l2 = l2
    h1 = h1
    h2 = h2
    None = None
    Procs = {x, y, z}
    PIDs = {1, 2, 3}
    Users = {alice, system, alias}
    Luids = {l1, l2}
    Hosts = {h1, h2}
    Sids = {sid, sysSid}
    WellKnown = {sysSid}
    Canonical <- SystemName
    Conns = {c1, c2}
    Now = 5
    Worlds <- SomeWorlds
    PluginSets <- SomeSets
INVARIANTS
    TypeOK
    OwnerTrue
    ParentTrue
    FactsOnce
    RecordOnce
    OneLogin
    OneNamePerSid
    ParentOlder
PROPERTIES
    FillsOnlyBlanks
CHECK_DEADLOCK FALSE
