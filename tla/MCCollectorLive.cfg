CONSTANTS
    RETRY_COUNT = 1
    MAX_OFFLINE_LINES = 1
    MaxPayloads = 2
    MaxCrashes = 0
    Rejected = {}
    Faults = {"lowspace", "nodir", "open", "short"}
    MAX_SENSORS = 2
    NameOf <- ThreeOthers
    Nonfinite = {2}
    Implausible = {}
    QueueLimit = 1
    MaxUrls = 3
    CollectorFaults = {"bind", "malloc"}
SPECIFICATION FairSpec
PROPERTIES SignalsHeeded StoreFrees
