SPECIFICATION FairSpec
CONSTANT
    MaxInterrupts = 2
INVARIANTS
    AnswerIsTrue
    NoChildForgotten
PROPERTIES
    NothingStartsAfterInterruption
    BoundedCallEnds
CHECK_DEADLOCK FALSE
