SPECIFICATION OneByOneSpec
CONSTANTS
    Workers = {w1}
    Jobs = {j1, j2, j3}
    LlmJobs = {j2}
    BadJobs = {j3}
    NoJob = NoJob
    MaxReceive = 2
    Faults = {"work", "delete", "send", "visibility", "overrun"}
    Downloads = {d1}
    Invocations = {l1}
    NoMessage = NoMessage
    BatchSize = 2
    MaxDeliveries = 2
    HandlerFaults = {"work", "metric"}
INVARIANTS
    EveryEndIsHeard
    UsersAreToldTheTruth
    SecondEmailsNeedARepeat
CHECK_DEADLOCK FALSE
