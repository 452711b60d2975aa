\* One player, killed while one command that sets both is applied.
SPECIFICATION PairSpec
CONSTANTS
    Players = {p1}
    Volumes = {"20"}
    Servers = {"a"}
    DEFAULT_SINK_VOLUME = "100"
    None = None
    Torn = Torn
INVARIANTS
    PairWasChosen
