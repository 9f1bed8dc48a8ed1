\* WelcomeBack: two pages, a writer, an event, with the cache failing anywhere.
SPECIFICATION SummarySpec
CONSTANTS
    left = left
    right = right
    Tabs <- MCTabs
    Authors = {w1}
    Due = {1, 2}
    Opening = 1
    Income = 2
    MaxBatch = 1
    MaxWrites = 1
    MaxGame = 2
SYMMETRY MCSymmetry
INVARIANTS
    NeverReappears
    Reconciles
PROPERTIES
    ConfirmedWasShown
