CONSTANTS
    h1 = h1
    h2 = h2
    h3 = h3
    Unihash = {h1, h2}
    Task <- Tasks
    number_tasks = 2
    Builds <- AllBuilds
    MaxReports = 1
SPECIFICATION Spec
INVARIANTS
    Bookkeeping
    WorkersCounted
    CoveredWaits
    TwinsApartAtFirst
    NeverStranded
    InputsPresent
    EndsWell
PROPERTIES
    BuildsInOrder
    BuildEnds
