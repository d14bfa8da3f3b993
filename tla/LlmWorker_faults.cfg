SPECIFICATION FairSpec
CONSTANTS
    Kinds = {"translation", "prompt", "bedrock", "transcription"}
    MaxRuns = 3
    MaxFields = 2
    MaxChunks = 3
    Local = 2
    Bedrock = 1
    Faults = {"exit", "kill", "slow", "prompt", "work"}
INVARIANTS
    TypeOK
    ChunksInTurn
    ServersAreInHand
PROPERTIES
    PromptsAreWhole
    JobsEnd
CHECK_DEADLOCK FALSE
