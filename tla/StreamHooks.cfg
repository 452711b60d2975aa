SPECIFICATION FairSpec
CONSTANTS
    HookSets = {{"start"}, {"stop"}, {"start", "stop"}}
    DrainTicks = 2
    MaxStreams = 4
    None = None
INVARIANTS LastEventWins HooksDoNotMix
PROPERTIES ShutdownEnds
CHECK_DEADLOCK FALSE
