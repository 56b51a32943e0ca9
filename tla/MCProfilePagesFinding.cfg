SPECIFICATION Spec
CONSTANTS
    p1 = p1
    p2 = p2
    NoProfile = NoProfile
    Profiles = {p1, p2}
    Kinds = {"poll", "status", "dna"}
    HistoryLimit = 1
    MaxRev = 1
    MaxJobs = 4
    MaxTokens = 1
    MaxMoves = 1
INVARIANT OneProfileShown

CHECK_DEADLOCK FALSE
