CONSTANTS
    Item = {i1, i2, i3, i4}
    MaxBatchSize = 2
    Task = {t1, t2, t3, t4, t5}
    Limit = 2
    MaxQueue = 2
SPECIFICATION IssuingSpec
CHECK_DEADLOCK FALSE
INVARIANTS NothingStranded SlotsBalance
PROPERTIES RefinesDesk EveryItemAnswered IssueLaneDrains
