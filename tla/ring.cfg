\* One worker at a time and one exporter at a time, with a successor of each
\* that may take over between calls, and one death.
SPECIFICATION FairSpec
CONSTANTS
    w1 = w1
    w2 = w2
    e1 = e1
    e2 = e2
    Cap = 12
    U64 = 65536
    Records <- MCRecords
    Producers <- TwoWorkers
    Consumers <- TwoExporters
    ExclusiveWriters = TRUE
    ExclusiveReaders = TRUE
    MaxPushes = 4
    MaxDeaths = 1
INVARIANTS
    DeliveredInOrder
    NoOverlap
    RingInv
PROPERTIES
    ImplementsQueue
    EveryRecordDrained
