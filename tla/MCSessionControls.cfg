SPECIFICATION FairSpec
CONSTANTS
    None = None
    Knobs = {"volume", "outputs"}
    MaxItems = 3
    MaxMoves = 1
    MaxTurns = 1
INVARIANTS ControlsTypeOK LockedUntilRead MediaOfShown
PROPERTIES RevokedNeverSent JobsEnd
CHECK_DEADLOCK FALSE
