SPECIFICATION FairSpec
CONSTANTS
    Versions = {1, 2, 3}
    First = 1
    Threshold = 2
    Reoffered = FALSE
    MaxCrashes = 2
    MaxFaults = 1
INVARIANTS CurrentRunnable CompleteIsTrue
PROPERTIES AppComesBack
CHECK_DEADLOCK FALSE
