SPECIFICATION Spec
CONSTANTS
    Workers = {w1}
    Jobs = {j1}
    LlmJobs = {}
    BadJobs = {}
    NoJob = NoJob
    MaxReceive = 2
    Faults = {"spot"}
PROPERTIES
    ImminentInterruptionAbandons
