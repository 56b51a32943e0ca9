SPECIFICATION FairSpec
CONSTANTS
    MaxThreads = 1
    MaxInputs = 3
    MaxKills = 1
INVARIANTS AlwaysReadable SettingsAgree ResetSticks Discoverable
PROPERTIES PairingNoticed
CHECK_DEADLOCK FALSE
