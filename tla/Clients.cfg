\* The upload page and the session, under the fairness of the browser.
CONSTANTS
    f1 = f1
    f2 = f2
    f3 = f3
    None = None
    Files = {f1, f2, f3}
    Visibilities = {"default", "private"}
    DefaultBatchCount = 2
    MaxBatchCount = 3
    ProcessingConcurrency = 2
    Strays = 1
SPECIFICATION TabSpec
INVARIANTS
    RequestsHaveAWorker
    LimitsAreKept
    BatchIsConsistent
    SignedOutCachesNoQuery
PROPERTIES
    RunEnds
    LoginIsSeen
    SetupIsSeen
    SessionSettles
\* A page that is gone does nothing.
CHECK_DEADLOCK FALSE
