CONSTANTS
    RETRY_COUNT = 1
    MAX_OFFLINE_LINES = 1
    MaxPayloads = 3
    MaxCrashes = 1
    Rejected = {}
    Faults = {}
    MAX_SENSORS = 4
    NameOf <- PairsOther
    Nonfinite = {}
    Implausible = {2}
    QueueLimit = 1
    MaxUrls = 1
    CollectorFaults = {}
SPECIFICATION Spec
INVARIANTS StoreSound PayloadsSound
