SPECIFICATION Spec
CONSTANTS
    Op = {o1, o2}
    Worker = {w1, w2}
    Client = {c1}
    Base = {b1}
    Class = {io}
    Resource = {memory}
    NoBase = NoBase
    NoOp = NoOp
    NoWorker = NoWorker
    IOClass = io
    WorkerClass <- OneClass
    OpClass <- AllIO
    OpBase <- SharedBase
    Budget <- UnitBudget
    Limit <- TwoUnits
    MaxPerBase = 2
    MaxPending = 2
    MaxAttempts = 2
    WakeCap = 2
    ClaimWindow = 2
    MaxReports = 0
    MaxFaults = 0
    MaxStarts = 1
SYMMETRY Symmetry
INVARIANTS TypeOK OneExecutor ReservationsMatchRuns
CHECK_DEADLOCK FALSE
