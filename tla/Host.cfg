\* Two players for the shared scene; in the first scene one of them stays down.
SPECIFICATION MCSpec
CONSTANTS
    Players = {p1, p2}
    Volumes = {"20"}
    Servers = {"a"}
    DEFAULT_SINK_VOLUME = "100"
    None = None
    Torn = Torn
    MaxPort = 2
    MinBuffer = 1
    MaxBuffer = 2
    MAX_STATIC_DELAY_MS = 1
    MAX_LINE_SENSE_WINDOW_MS = 1
    MinDbfs = 1
    HasMdns = TRUE
    CommandLines <- MCCommandLines
    ConfigFiles <- MCConfigFiles
    Builds <- MCBuilds
    DeviceSpecs <- MCDeviceSpecs
    Reports <- MCReports
    Pins <- MCPins
    PROBE_RATES <- MCRates
    PROBE_BIT_DEPTHS <- MCDepths
    PROBE_CHANNELS <- MCChannels
    RATE_PREFERENCE <- MCRatePreference
    DEPTH_PREFERENCE <- MCDepthPreference
    OPUS_RATE = 48
    OPUS_BIT_DEPTH = 16
    OPUS_MAX_CHANNELS = 2
    MaxFiles = 3
INVARIANTS
    NeverTorn
    HeldIsOnDisk
    OptionsMeanWhatTheySay
    DetachedMeansTheSame
    EveryDeviceHasAName
    OffersWhatCanBePlayed
PROPERTIES
    RotationFollowedOrToldOf
CHECK_DEADLOCK FALSE
