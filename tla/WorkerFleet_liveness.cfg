SPECIFICATION OneByOneSpec
CONSTANTS
    Workers = {w1}
    Jobs = {j1, j2, j3}
    LlmJobs = {j2}
    BadJobs = {j3}
    NoJob = NoJob
    MaxReceive = 2
    Faults = {"crash", "work", "send", "delete", "visibility", "receive", "overrun", "scaleIn", "artifact", "spot"}
INVARIANTS
    ScaleInSparesJobs
PROPERTIES
    ImplementsDelivery
    ProtectionIsReleased
    ImplementsFairDelivery
