CONSTANTS
    p1 = p1
    p2 = p2
    server = server
    other = other
    Parser <- Parsers
    Main = server
    Other <- Others
    Process <- All
    Name <- Names
    Inode = {1, 2}
    NoInode = 0
    MaxSlot = 4
    Pid <- Pids
    Entry = {"a", "b", "c", "old"}
    Recipe = {"a", "b", "c"}
    Old = {"old", "b"}
    PipeSize = 1
    Scenes <- AllScenes
SPECIFICATION Spec
INVARIANTS MergeSeesWhole SavedKept OutcomeSound
PROPERTIES Excludes ShutdownEnds
CHECK_DEADLOCK FALSE
