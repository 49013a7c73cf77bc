SPECIFICATION FairSpec
CHECK_DEADLOCK FALSE
CONSTANTS
    Nobody = Nobody
    Foreign = Foreign
    NumaNodes <- TwoSockets
    FirstNode = 0
    NodeCpus <- TwoSocketCpus
    SmtSecondary <- NoSmt
    ReservedCores = {3}
    Jobs <- Odd
    JobCores <- OddCores
    JobRam <- Ram
    Priority <- Prio
    IdRank <- OddRank
    Position <- OddFile
    DependsOn <- OddDeps
    Exclusive <- Empty
    Dormant <- OnlyE
    Pids = {p1, p2}
    NoSession = NoSession
    MaxConcurrent = 2
    CoreBudget = 3
    RamBudget = 8
    RamSafety = 1
    Meters <- Ample
    Scoped = FALSE
    ScopeName <- Units
    HostCpus <- AllCpus
    ExitCodes = {0, 1}
    Backend = "subprocess"
    LongerNames <- NoLonger
    Mentions <- OwnId
    Tools = {"taskset"}
    Events = {"drift", "reboot", "grow"}
    InterleaveThreshold = 0
    OomCooldown = 2
    SliceCap <- NoReading
    Endless <- OnlyH
    MaxBoots = 2
    p1 = p1
    p2 = p2
INVARIANTS DoneMeansExitZero HandlesOfRunning
PROPERTIES Settles DriftIsCorrected NoOvertaking OthersLeftAlone
