SPECIFICATION FairSpec
CONSTANTS
    MIN_RETRY_DELAY_MS = 1
    MAX_RETRY_DELAY_MS = 4
    ANSWER_MS = 3
    a = a
    b = b
    Servers = {a, b}
    OptionSets <- MCOptionSets
    Literal = Literal
    Inbound = Inbound
    None = None
INVARIANTS KnowsItsConnections
PROPERTIES RedialsBackOff ConnectsInTheEnd
