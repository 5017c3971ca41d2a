SPECIFICATION FairSpec
CONSTANTS
    Op <- Ops2
    Worker <- Workers2
    Client = {c1}
    Base = {b1}
    Class <- Classes2
    Resource = {memory}
    NoBase = NoBase
    NoOp = NoOp
    NoWorker = NoWorker
    IOClass = "io"
    WorkerClass <- TwoClasses
    OpClass <- OpPerClass
    OpBase <- SharedBase
    Budget <- UnitBudget
    Limit <- TwoUnits
    MaxPerBase = 1
    MaxPending = 2
    MaxAttempts = 1
    WakeCap = 2
    ClaimWindow = 2
    MaxReports = 0
    MaxFaults = 0
    MaxStarts = 1
PROPERTY EveryCommandSettles
CHECK_DEADLOCK FALSE
