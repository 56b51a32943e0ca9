SPECIFICATION FairQueueSpec
CONSTANTS
    Requests = 3
    MaxThreads = 2
    Cap = 2
    MaxKills = 1
INVARIANTS QueueTypeOK Fifo
PROPERTIES Delivered
CHECK_DEADLOCK FALSE
