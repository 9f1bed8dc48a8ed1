SPECIFICATION FairSpec
CONSTANTS
    Hosts = {h1}
    Calls = {c1, c2}
    HostOf <- MCHostOf
    Page = Page
    Instances = {i1}
    Rates <- MCRates
    InitialRate <- MCInitial
    Configured <- MCConfigured
    ApplyOnBoot = TRUE
    Threshold = 1
    NoAnchor = NoAnchor
    None = None
    MaxReal = 2
    MaxEpoch = 1
    MaxSkew = 1
    MaxTroubles = 1
    MaxFrames = 1
    h1 = h1
    c1 = c1
    c2 = c2
    i1 = i1
INVARIANTS HistoryContinuous AheadForAReason
PROPERTIES Resyncs
CHECK_DEADLOCK FALSE
