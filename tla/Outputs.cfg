SPECIFICATION OutputsFairSpec
CONSTANTS
    SINK_RESCAN_DELAY_MS = 1
    SINK_RESCAN_MAX_DELAY_MS = 1
    SINK_RESCAN_ATTEMPTS = 2
    Q32_ONE = 3
    Formats = {"s16", "s24"}
    QueueFrames = 2
    MaxFrames = 2
    RampFrames = 3
    Volumes = {0, 50, 100}
    None = None
INVARIANTS
    QueueIsItsStreams
    GainNeverJumps
    StreamsAreBracketed
    DeadStreamDiscards
PROPERTIES
    StopReturns
