SPECIFICATION MCSpec
CONSTANTS
    Players = {p1, p2}
    Served = p1
    Clients = {c1, c2}
    MAX_CONTROL_CONNECTIONS = 1
    CONTROL_IDLE_TIMEOUT_MS = 1
    None = None
    MAX_STATIC_DELAY_MS = 2
    INT32_MAX = 2
    MAX_VOLUME = 1
    MAX_CONTROL_LINE_BYTES = 4
    Typed <- CommandLines
    Peers <- OtherPeers
    control_socket_path_limit = 6
    NAME_LENGTH = 2
INVARIANTS
    PlayersKeepTheirPlaces
    SaysWhatHappened
    LineArrives
    AnswerIsTrue
    PlacedOrToldWhy
PROPERTIES
    SlotsAreFreed
