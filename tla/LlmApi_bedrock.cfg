SPECIFICATION LlmApiFairSpec
CONSTANTS
    MaxPrompts = 1
    Backends = {"BEDROCK"}
    MaxTries = 1
    LlmFaults = {}
    MaxUpsets = 0
PROPERTIES
    FinishedIsShown
CHECK_DEADLOCK FALSE
