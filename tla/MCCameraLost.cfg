CONSTANTS
    MAX_OFFLINE_FRAMES = 1
    BATCH = 1
    MaxFrames = 2
    MaxSteps = 0
    MaxCrashes = 1
    Unreadable = {}
    Faults = {}
    STALL_MAX_TIMEOUTS = 2
    MAX_REOPEN_ATTEMPTS = 3
    MaxConfigs = 1
    Scenarios <- OnlyRough
SPECIFICATION StreamSpec
INVARIANT KeepsTrying
