SPECIFICATION NodePilotSpec
CHECK_DEADLOCK FALSE
CONSTANTS
    Nobody = Nobody
    Foreign = Foreign
    NumaNodes <- OneSocket
    FirstNode = 0
    NodeCpus <- OneSocketCpus
    SmtSecondary <- NoSmt
    ReservedCores = {}
    Jobs <- AB
    JobCores <- OneEach
    JobRam <- Ram
    Priority <- Prio
    IdRank <- Rank
    Position <- FileOrder
    DependsOn <- Pipeline
    Exclusive <- Empty
    Dormant <- Empty
    Pids = {p1, p2}
    NoSession = NoSession
    MaxConcurrent = 2
    CoreBudget = 3
    RamBudget = 8
    RamSafety = 1
    Meters <- Ample
    Scoped = TRUE
    ScopeName <- Units
    HostCpus <- AllCpus
    ExitCodes = {0}
    Backend = "tmux"
    LongerNames <- BBeginsLikeA
    Mentions <- AInB
    Tools = {"numactl", "taskset"}
    Events = {"second", "kill", "reset"}
    InterleaveThreshold = 0
    OomCooldown = 2
    SliceCap = 9
    Endless <- Empty
    MaxBoots = 1
    p1 = p1
    p2 = p2
SYMMETRY SamePids
INVARIANTS NodePilotTypeOK DepsRespectedByAll NeverTwice
VIEW WithoutEnded
