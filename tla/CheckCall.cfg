SPECIFICATION Spec
CONSTANTS
    Inputs <- SomeInputs
    Urls <- SomeUrls
    Timeouts <- Seconds
    MaxContexts = 2
    MaxRotations = 1
    MaxRedirects = 2
INVARIANTS TypeOK NeverWeaker CredentialsArrive RequestsValidated
PROPERTY ContextIsItsOwn
CHECK_DEADLOCK TRUE
