CONSTANTS
    RETRY_COUNT = 3
    MAX_OFFLINE_LINES = 2
    MaxPayloads = 5
    MaxCrashes = 2
    Rejected = {}
    Faults = {"lowspace", "nodir", "lostreply"}
SPECIFICATION FairSpec
INVARIANTS SpoolSound ResentOnlyAfterKill
PROPERTIES Delivers BacklogFollows
