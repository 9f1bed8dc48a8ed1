SPECIFICATION Spec
CONSTANTS
    k1 = k1
    k2 = k2
    k3 = k3
    Keys = {k1, k2, k3}
    Bodies = {b1, b2}
    Handlers = {h1, h2}
    KindOf <- OneOfEach
    Undecided = Undecided
    MaxSends = 3
INVARIANTS
    OneAtATime
    AgainOnlyIfMislaid
    OneAnswer
PROPERTIES
    KeepsPromise
CHECK_DEADLOCK FALSE
