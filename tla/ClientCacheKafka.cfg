SPECIFICATION Spec
CONSTANTS
    Tasks = {t1, t2, t3}
    Clients = {c1, c2, c3, c4}
    Loops = {l1}
    NoTask = NoTask
    NoClient = NoClient
    NoLoop = NoLoop
    AsyncCreate = FALSE
    HasReadyHook = TRUE
    Validates = FALSE
SYMMETRY Symmetry
INVARIANTS LockHeldInside StartUndisturbed
PROPERTIES FailureForgetsClient
CHECK_DEADLOCK TRUE
