SPECIFICATION MCSpec
CONSTANTS
    NoRow = NoRow
    PolicyChange = {p1}
    WorldChange = {g1, b1}
    Guests = {g1}
    Begins <- MCBegins
    Hours = {1}
    Chunk = 1
    MaxOld = 2
    MaxFailures = 1
    MaxNow = 2
INVARIANTS
    MaintenanceTypeOK
    ReadsCoverBatch
    NoChangeForgotten
    LoopInv
    NoGapBetweenPasses
    PassPrunesAll
PROPERTIES
    EveryChangeResolved
