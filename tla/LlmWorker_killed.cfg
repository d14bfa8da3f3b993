SPECIFICATION Spec
CONSTANTS
    Kinds = {"translation"}
    MaxRuns = 3
    MaxFields = 2
    MaxChunks = 3
    Local = 2
    Bedrock = 2
    Faults = {"kill"}
PROPERTIES
    DeadServersAreReplaced
CHECK_DEADLOCK FALSE
