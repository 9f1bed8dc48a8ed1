SPECIFICATION Spec
CONSTANTS
    Buyers = {p, q}
    Readers = {r}
    Nobody = Nobody
    Nothing = Nothing
    a1 = a1
    a2 = a2
    b1 = b1
    b2 = b2
    b3 = b3
    Cells <- TwoCells
    Chunks = {1, 2}
    ChunkOf <- TwoChunkOf
    LandPrice <- TwoPrices
    StructurePrice = 1
    Opening = 4
    Orders <- TwoOrders
    MaxVersion = 3
INVARIANTS
    PaidForWhatIsOwned
    OverlaysTrue
PROPERTIES
    SoldAtOnce
CHECK_DEADLOCK FALSE
