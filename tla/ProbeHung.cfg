SPECIFICATION HungSpec
CONSTANTS
    N = 4
    Calls <- TimedCalls
    SelfCancels = FALSE
    Swallows = FALSE
INVARIANTS TypeOK ReportInOrder NothingLeftDirect
PROPERTIES NoStartAfterCancel TimeoutBoundsRun CancelledChecksEnd
CHECK_DEADLOCK TRUE
