SPECIFICATION Spec
CONSTANTS
    SINK_RESCAN_DELAY_MS = 1
    SINK_RESCAN_MAX_DELAY_MS = 1
    SINK_RESCAN_ATTEMPTS = 2
    Formats = {"s16", "s24"}
    FrameBytes <- MCFrameBytes
    RingFrames = 2
    MaxFrames = 2
    None = None
INVARIANTS OneStreamAtATime DroppedIsGone OpensAreBounded
PROPERTIES RescanTearsNothingDown
