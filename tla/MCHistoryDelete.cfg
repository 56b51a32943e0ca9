SPECIFICATION Spec
CONSTANTS
    b1 = b1
    b2 = b2
    NoBinding = NoBinding
    Bindings = {b1}
    Sids = {1}
    MaxOps = 2
    MaxSerial = 5
    MaxEpoch = 2
    MaxNow = 1
INVARIANTS TypeOK ErasedNotShown
PROPERTIES KeepsPromise
CHECK_DEADLOCK FALSE
