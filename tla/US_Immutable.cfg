SPECIFICATION Spec
CONSTANTS
    Upload = {upload}
    Put = {p1}
    Content = {first, second}
    None = None
    Size <- Sizes
    Accepts <- AcceptsOf
    Reservation <- Reserves
    TempLimit = 2
    UploadLimit = 2
    MaxClosing = 1
    MaxFaults = 0
    MaxStarts = 1
INVARIANT ImportedIsRecorded
CHECK_DEADLOCK FALSE
