SPECIFICATION Spec
CONSTANTS
    Regions <- ThreeRegions
    Requests <- TwoRequests
    Faults = {"insert"}
INVARIANT TypeOK
INVARIANT AnswerIsTrue
INVARIANT NobodySendsOnClosed
PROPERTY EveryRequestIsAnswered
PROPERTY GoroutinesEnd
CHECK_DEADLOCK FALSE
