CONSTANTS
    RETRY_COUNT = 1
    MAX_OFFLINE_LINES = 1
    MaxPayloads = 2
    MaxCrashes = 0
    Rejected = {}
    Faults = {}
    MAX_SENSORS = 2
    NameOf <- TwoOthers
    Nonfinite = {}
    Implausible = {}
    QueueLimit = 1
    MaxUrls = 1
    CollectorFaults = {}
SPECIFICATION Spec
PROPERTIES ClearsOnlyCarried
