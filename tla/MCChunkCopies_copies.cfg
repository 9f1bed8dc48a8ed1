SPECIFICATION FairCopiesSpec
CONSTANTS
    a = a
    b = b
    Chunks = {a, b}
    Whole = Whole
    Ring <- MCRing
    Keep <- MCKeep
    Capacity = 1
    MaxLoads = 2
    MaxVersion <- MCMaxVersion
    Slots = {s1, s2}
INVARIANTS
    HonestVersion
    LagIsMarked
PROPERTIES
    StaleIsReloaded
CHECK_DEADLOCK FALSE
