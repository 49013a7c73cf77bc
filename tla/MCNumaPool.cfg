SPECIFICATION Spec
CONSTANTS
    NumaNodes <- FoundNodes
    FirstNode = 0
    NodeCpus <- FoundCpus
    SmtSecondary <- DetectSmtSecondary
    Configured <- NothingSet
    SysNodes <- SysTwoNodes
    SysSiblings <- SysTwoThreads
    Affinity <- AllCpus
    Slots = {1, 2, 3}
    Requests <- MixedSizes
    Reserved <- ReserveOne
    Threshold = 9
    Gate <- GateAtTen
    Readings <- MemReadings
INVARIANTS
    HeldApart
    ExactSize
    SiblingsLast
    DistinctCoresFirst
    ScatteredOnlyWhenFragmented
    SpreadsOverNodes
    RefusesOnlyWhenFull
    RanksPartitionBlock
    RanksApartUpToStride
