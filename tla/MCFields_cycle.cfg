\* Fields: cutting, joining and working them with events applied late.
SPECIFICATION Spec
CONSTANTS
    first = first
    second = second
    FieldIds <- MCFieldIds
    Length = 3
    NoField = NoField
    wheat = wheat
    maize = maize
    Crops <- MCCrops
    NoCrop = NoCrop
    Cultivated <- MCCultivated
    Lasts <- MCLasts
    WorkTime = 1
    WeedMax = 3
    MaxBatch = 1
    MaxGame = 6
SYMMETRY MCSymmetry
INVARIANTS
    GeometryAgrees
    AlarmFollowsRow
    RunningTaskApplies
    WeedsPunctual
PROPERTIES
    GeometryKeepsProgress
