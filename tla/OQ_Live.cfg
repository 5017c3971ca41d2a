SPECIFICATION FairSpec
CONSTANTS
    Op = {o1, o2}
    Worker = {w1, w2}
    Client = {c1}
    Base = {b1}
    Class = {io}
    Resource = {memory}
    NoBase = NoBase
    NoOp = NoOp
    NoWorker = NoWorker
    IOClass = io
    WorkerClass <- OneClass
    OpClass <- AllIO
    OpBase <- SharedBase
    Budget <- UnitBudget
    Limit <- TwoUnits
    MaxPerBase = 1
    MaxPending = 2
    MaxAttempts = 1
    WakeCap = 2
    ClaimWindow = 2
    MaxReports = 0
    MaxFaults = 0
    MaxStarts = 2
PROPERTY EveryCommandSettles
CHECK_DEADLOCK FALSE
