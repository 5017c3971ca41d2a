SPECIFICATION Spec
CONSTANTS
    Op = {o1}
    Worker = {w1, w2}
    Client = {c1}
    Base = {b1}
    Class = {io}
    Resource = {memory}
    NoBase = NoBase
    NoOp = NoOp
    NoWorker = NoWorker
    IOClass = io
    WorkerClass <- OneClass
    OpClass <- AllIO
    OpBase <- SharedBase
    Budget <- UnitBudget
    Limit <- TwoUnits
    MaxPerBase = 2
    MaxPending = 2
    MaxAttempts = 2
    WakeCap = 2
    ClaimWindow = 2
    MaxReports = 1
    MaxFaults = 1
    MaxStarts = 2
SYMMETRY Symmetry
INVARIANT ExclusiveClaim
PROPERTIES OnlyTheAttemptFinishes FinalStaysFinal ImplementsLifecycle
CHECK_DEADLOCK FALSE
