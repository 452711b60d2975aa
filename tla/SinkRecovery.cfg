SPECIFICATION FairSpec
CONSTANTS
    SINK_RESCAN_DELAY_MS = 2
    SINK_RESCAN_MAX_DELAY_MS = 5
    SINK_RESCAN_ATTEMPTS = 3
    MaxNow = 20
INVARIANTS KeepsItsBudget
PROPERTIES AttemptsPaced OwedIsAttempted
