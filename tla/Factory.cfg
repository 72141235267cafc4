SPECIFICATION FFairSpec
CONSTANTS
    Waiters = {creator, w1, w2}
    Tied = {creator}
    Creator = creator
INVARIANTS
    NoLostWakeup
    StopCallbackHasThread
    NothingAfterGone
PROPERTIES
    AnswersAgree
    WaitersLearn
    StopReachesThread
    CreateReturns
CHECK_DEADLOCK FALSE
