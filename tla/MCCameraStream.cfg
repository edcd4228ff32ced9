CONSTANTS
    MAX_OFFLINE_FRAMES = 1
    BATCH = 1
    MaxFrames = 3
    MaxSteps = 1
    MaxCrashes = 1
    Unreadable = {2}
    Faults = {"lowspace", "create", "short", "lostreply"}
    STALL_MAX_TIMEOUTS = 2
    MAX_REOPEN_ATTEMPTS = 3
    MaxConfigs = 2
    Scenarios <- All
SPECIFICATION StreamSpec
INVARIANTS DirSound StreamSound
PROPERTIES TrimDropsOldest BacklogShrinks PushesFrames StreamResponds StreamEnds
