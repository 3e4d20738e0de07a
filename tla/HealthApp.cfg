SPECIFICATION FairSpec
CONSTANTS
    Requests = {r1}
    a = a
    b = b
    f = f
    u = u
    Checks = {a, b, f, u}
    Resources = {a, b}
    Probes <- TheProbes
    Installations <- Calls
    MetaOf <- Metas
    NoTimeout = NoTimeout
    NoOptions = NoOptions
INVARIANTS TypeOK ResponseTellsReport SecretsHidden ShutdownLeavesNothing
PROPERTIES RouteTimeoutBounds
CHECK_DEADLOCK TRUE
