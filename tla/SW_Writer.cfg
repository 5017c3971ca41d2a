SPECIFICATION FairSpec
CONSTANTS
    Request <- Requests
    NoRequest = NoRequest
    PriorityOf <- Priorities
    Capacity = 1
    ControlBurst = 2
INVARIANT AnswersAreTrue
PROPERTIES StoppedIsQuiet EveryCallAnswered NormalNotStarved
CHECK_DEADLOCK FALSE
