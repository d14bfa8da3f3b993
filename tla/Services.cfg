SPECIFICATION ServicesSpec
CONSTANTS
    Downloads = {y, x, m}
    External = {x}
    Youtube = {y}
    Malformed = {m}
    Proxies = 2
    Cookies = TRUE
    MaxStarts = 2
    MaxArrivals = 1
    DownloadFaults = {"pipe", "duplicate", "setup", "signal", "metric", "event", "upload", "send", "crash"}
    Pages = {p1, p2, p3}
    Unreadable = {p3}
    SnapshotBatch = 2
    MaxForwarded = 2
    MaxHandlings = 2
    SnapshotFaults = {"browser", "page", "upload", "send", "timeout"}
    Files = {f1, f2}
    Urls = {u1, u2}
    MaxSubmits = 2
    SubmitFaults = {"network", "api", "storage", "queue", "impatient"}
    Work = {j1, j2}
    CapacityRuns = {r1, r2}
    GroupMin = 0
    GroupMax = 2
    CapacityFaults = {"count", "call", "lost"}
    MaxMishaps = 1
    Jobs = {"a", "b", "c"}
    Messages <- WithInvalid
    Invocations = {l1}
    NoMessage = NoMessage
    BatchSize = 3
    MaxDeliveries = 2
    Faults = {"work", "metric", "crash", "delete", "duplicate"}
INVARIANTS
    ServicesTypeOK
    ConsumedMeansToldOrCounted
    ReportsAreTrue
    AnsweredOnce
    RepliesAreRight
    ShownIsTrue
    FailuresAreShown
PROPERTIES
    ImplementsNotification
    HandledInTheEnd
    SubmissionsAnswered
    EnoughForTheQueue
    CapacityFollowsTheQueue
CHECK_DEADLOCK FALSE
