SPECIFICATION FairSpec
CONSTANTS
    p1 = p1
    p2 = p2
    t1 = t1
    t2 = t2
    NoProfile = NoProfile
    NoToken = NoToken
    Profiles = {p1}
    Personal = {p1}
    Tokens = {t1, t2}
    Intents = {"refresh", "start", "end", "question", "foreground", "confirm", "pair", "history"}
    CapsAnswers = {{"history", "dialogue"}, {}}
    Faults = {"denied", "unavailable"}
    MaxSerial = 2
    MaxView = 1
    MaxRev = 1
PROPERTIES TicketReturns
CHECK_DEADLOCK FALSE
