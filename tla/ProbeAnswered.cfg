SPECIFICATION AnsweringSpec
CONSTANTS
    N = 4
    Calls <- AllCalls
    SelfCancels = TRUE
    Swallows = TRUE
INVARIANTS ConcurrencyCapped
PROPERTIES AnsweredRunEnds RunProbeSpec
CHECK_DEADLOCK TRUE
