SPECIFICATION Spec
CONSTANTS
    p1 = p1
    p2 = p2
    t1 = t1
    t2 = t2
    NoProfile = NoProfile
    NoToken = NoToken
    Profiles = {p1, p2}
    Personal = {p1, p2}
    Tokens = {t1}
    Intents = {"refresh", "history", "history_more", "history_refresh", "timeline", "timeline_page", "timeline_previous", "timeline_refresh", "timeline_extend", "open_entry", "search", "search_more", "search_refresh", "close", "resolve", "remap", "other", "start", "end"}
    CapsAnswers = {{"history", "dialogue", "search"}}
    Faults = {}
    MaxSerial = 3
    MaxView = 2
    MaxRev = 2
INVARIANTS ScopeOwnsScreen
PROPERTIES InstalledForCurrentOwner DismissedStaysDismissed
CHECK_DEADLOCK FALSE
