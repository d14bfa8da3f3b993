SPECIFICATION Spec
CONSTANTS
    Pages = {p1, p2}
    Docs = {text}
    Media = media
    Choices <- MediaOrDocs
    MaxRuns = 2
    Faults = {"work", "api", "gateway", "invoke", "media", "repeat", "stale"}
SYMMETRY PageSymmetry
INVARIANTS
    TypeOK
    SuccessIsOnDrive
CHECK_DEADLOCK FALSE
