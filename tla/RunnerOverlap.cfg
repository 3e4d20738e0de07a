SPECIFICATION FairSpec
CONSTANTS
    Runners = {t1, t2}
    Closers = {t2, t3}
    c1 = c1
    c2 = c2
    Checks = {c1, c2}
    Probes <- TwoProbes
    NoTask = NoTask
    HasTimeout = TRUE
INVARIANTS TypeOK RegistryExact OwnsClientsOfLaterRuns
PROPERTIES RegistryFixedWhileClosing CallsEnd
CHECK_DEADLOCK TRUE
