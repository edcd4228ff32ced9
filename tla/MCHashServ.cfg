CONSTANTS
    t1 = t1
    t2 = t2
    t3 = t3
    o1 = o1
    o2 = o2
    Taskhash <- Tasks
    Outhash <- Outs
    Mark = {m1, m2}
    Client = {c1, c2}
    NoHash = NoHash
    NoMark = NoMark
    Scenarios <- AllScenarios
SPECIFICATION Spec
INVARIANTS
    RowsSound
    ReportsSettle
    EqualOutputsShare
PROPERTIES
    MappingsStay
    SweepSpares
    RequestsEnd
CHECK_DEADLOCK FALSE
