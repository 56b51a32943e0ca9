SPECIFICATION Spec
CONSTANTS
    p1 = p1
    p2 = p2
    t1 = t1
    t2 = t2
    NoProfile = NoProfile
    NoToken = NoToken
    Profiles = {p1}
    Personal = {p1}
    Tokens = {t1}
    Intents = {"refresh", "end", "question", "foreground", "select", "other", "conv", "history", "search", "search_more"}
    CapsAnswers = {{"history", "dialogue", "search"}}
    Faults = {}
    MaxSerial = 4
    MaxView = 1
    MaxRev = 3
INVARIANTS FlowOfSession QuestionOfSession SessionInv
PROPERTIES NeverAnOlderSession
CHECK_DEADLOCK FALSE
