SPECIFICATION Spec
CONSTANTS
    Op = {o1}
    Worker = {w1, w2}
    Client = {c1}
    Base = {b1}
    Class = {io}
    Resource = {memory}
    NoBase = NoBase
    NoOp = NoOp
    NoWorker = NoWorker
    IOClass = io
    WorkerClass <- OneClass
    OpClass <- AllIO
    OpBase <- Baseless
    Budget <- UnitBudget
    Limit <- TwoUnits
    MaxPerBase = 1
    MaxPending = 2
    MaxAttempts = 2
    WakeCap = 2
    ClaimWindow = 2
    MaxReports = 0
    MaxFaults = 0
    MaxStarts = 1
INVARIANT CancelReachesRun
CHECK_DEADLOCK FALSE
