\* Forestry: two plots, felled, replanted and cleared, with events applied late.
SPECIFICATION Spec
CONSTANTS
    first = first
    second = second
    Plots <- MCPlots
    NoPlot = NoPlot
    Length = 3
    Wooded <- MCWooded
    Age <- MCAge
    YoungAt = 2
    MatureAt = 4
    YoungWood = 1
    MatureWood = 2
    Window = 3
    WorkTime <- MCWorkTime
    Crews = 2
    Capacity = 4
    MaxBatch = 1
    MaxGame = 7
SYMMETRY MCSymmetry
INVARIANTS
    EveryTreeIsToldOnce
    TasksStillTrue
    WoodIsCommitted
