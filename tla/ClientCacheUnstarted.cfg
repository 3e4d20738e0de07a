SPECIFICATION Spec
CONSTANTS
    Tasks = {t1, t2}
    Clients = {c1, c2, c3}
    Loops = {l1}
    NoTask = NoTask
    NoClient = NoClient
    NoLoop = NoLoop
    AsyncCreate = FALSE
    HasReadyHook = TRUE
    Validates = FALSE
INVARIANTS UsedClientIsStarted
CHECK_DEADLOCK TRUE
