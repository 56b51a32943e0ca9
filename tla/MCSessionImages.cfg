SPECIFICATION FairImagesSpec
CONSTANTS
    Nothing = Nothing
    MaxRev = 2
    Bodies = {1, 2}
    Keys = {1, 2}
    MaxTime = 2
    MaxSessions = 1
INVARIANTS ImagesTypeOK GoneStaysGone

CHECK_DEADLOCK FALSE
PROPERTIES NeverProlonged LatestIsTried
