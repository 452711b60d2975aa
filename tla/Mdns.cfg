SPECIFICATION MdnsSpec
CONSTANTS
    Instances = {1, 2}
    Interfaces <- OnEach
    Addresses = {"v4"}
    ADDRESS_SETTLE_MS = 1
    MIN_RETRY_DELAY_MS = 1
    MAX_RETRY_DELAY_MS = 2
    None = None
INVARIANTS
    RefsAreManaged
    ReportedServersAreFollowed
    ChoosesWhatCanBeDialled
PROPERTIES
    ServiceReturns
