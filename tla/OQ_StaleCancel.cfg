SPECIFICATION Spec
CONSTANTS
    Op = {o1}
    Worker = {w1}
    Client = {c1, c2, c3}
    Base = {b1}
    Class = {io}
    Resource = {memory}
    NoBase = NoBase
    NoOp = NoOp
    NoWorker = NoWorker
    IOClass = io
    WorkerClass <- OneClass
    OpClass <- AllIO
    OpBase <- Baseless
    Budget <- UnitBudget
    Limit <- TwoUnits
    MaxPerBase = 1
    MaxPending = 2
    MaxAttempts = 3
    WakeCap = 2
    ClaimWindow = 2
    MaxReports = 2
    MaxFaults = 0
    MaxStarts = 1
INVARIANT CancellingIsRun
SYMMETRY Symmetry
CHECK_DEADLOCK FALSE
