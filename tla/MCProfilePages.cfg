SPECIFICATION Spec
CONSTANTS
    p1 = p1
    p2 = p2
    NoProfile = NoProfile
    Profiles = {p1, p2}
    Kinds = {"poll", "clear", "action", "pick", "status", "media"}
    HistoryLimit = 2
    MaxRev = 3
    MaxJobs = 2
    MaxTokens = 2
    MaxMoves = 1
INVARIANTS WrittenOnce ClearedStaysCleared  LanesHeld
CHECK_DEADLOCK FALSE
