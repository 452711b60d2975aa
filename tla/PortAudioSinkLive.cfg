SPECIFICATION FairSpec
CONSTANTS
    SINK_RESCAN_DELAY_MS = 1
    SINK_RESCAN_MAX_DELAY_MS = 1
    SINK_RESCAN_ATTEMPTS = 2
    Formats = {"s16"}
    FrameBytes <- MCFrameBytes
    RingFrames = 1
    MaxFrames = 2
    None = None
PROPERTIES StopReleasesWrite
