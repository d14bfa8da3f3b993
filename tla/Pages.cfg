SPECIFICATION PagesSpec
CONSTANTS
    Pages = {p1}
    Docs = {text, srt}
    Media = media
    Choices <- AnyChoice
    MaxRuns = 3
    Faults = {"work", "api", "gateway", "invoke"}
    MaxPrompts = 2
    Backends = {"LOCAL", "BEDROCK"}
    MaxTries = 3
    LlmFaults = {"api", "table", "queue", "network", "repeat", "sqs", "crash", "reload"}
    MaxUpsets = 1
INVARIANTS
    SuccessMeansDone
    MediaIsCopiedOnce
    LlmApiTypeOK
    PolledIsAccepted
    ShownIsCurrent
    ItemsTellOutputs
PROPERTIES
    DocResultsAreKept
    ExportsEnd
    LoopsEnd
CHECK_DEADLOCK FALSE
