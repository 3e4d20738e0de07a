SPECIFICATION Spec
CONSTANTS
    Runners = {t1, t2}
    Closers = {t1, t2}
    c1 = c1
    c2 = c2
    Checks = {c1, c2}
    Probes <- TwoProbes
    NoTask = NoTask
    HasTimeout = TRUE
INVARIANTS OwnsOpenClients
CHECK_DEADLOCK TRUE
