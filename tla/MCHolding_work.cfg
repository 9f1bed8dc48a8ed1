SPECIFICATION Spec
CONSTANTS
    Price <- MCPrice
    Workers = {w1}
    Machines = {m1}
    Tasks = {t1}
    NoTask = NoTask
    Opening = 3
    SiloSize = 2
    MaxSilos = 1
    Yields = {0, 2}
    WorkTime = 2
    RepairTime = 1
    FullWear = 3
    Fit = 2
    Period = 2
    MaxBatch = 1
    MaxWait = 1
    MaxGame = 4
    w1 = w1
    m1 = m1
    t1 = t1
INVARIANTS Recomputable ChargedOnce ReservationsAgree StorageAgrees
PROPERTIES DebtOnlyByTime WearIsBilled TakesNoMore
