SPECIFICATION FairSpec
CONSTANTS
    Tasks = {t1, t2}
    Clients = {c1, c2, c3}
    Loops = {l1, l2}
    NoTask = NoTask
    NoClient = NoClient
    NoLoop = NoLoop
    AsyncCreate = TRUE
    HasReadyHook = FALSE
    Validates = TRUE
INVARIANTS TypeOK OnOwnLoop NoConnectionLost
PROPERTIES AcloseLeavesNothingOpen SharedClientSpec CallsEnd
CHECK_DEADLOCK TRUE
