SPECIFICATION FairSpec
CONSTANTS
    Contexts = {a, b}
    MaxOps = 2
    MaxForeign = 1
    MaxMoves = 2
INVARIANTS ReplacesWhatWasSeen OneUndecided SavedMeansAccepted ShownForContext
PROPERTIES LaneReleased
