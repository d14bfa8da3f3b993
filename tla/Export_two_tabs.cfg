SPECIFICATION Spec
CONSTANTS
    Pages = {p1, p2}
    Docs = {text}
    Media = media
    Choices <- AnyChoice
    MaxRuns = 3
    Faults = {}
INVARIANTS
    SuccessMeansDone
CHECK_DEADLOCK FALSE
