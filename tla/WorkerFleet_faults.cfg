SPECIFICATION Spec
CONSTANTS
    Workers = {w1, w2}
    Jobs = {j1}
    LlmJobs = {}
    BadJobs = {}
    NoJob = NoJob
    MaxReceive = 2
    Faults = {"work", "delete", "send", "visibility", "overrun", "spot"}
SYMMETRY WorkerSymmetry
INVARIANTS
    TypeOK
    SpeaksOnce
    OutputsAreJustified
    RepeatsNeedAnExpiry
PROPERTIES
    NoticeLeavesOthersAlone
