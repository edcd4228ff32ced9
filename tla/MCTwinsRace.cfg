CONSTANTS
    h1 = h1
    h2 = h2
    h3 = h3
    Unihash = {h1, h2, h3}
    Task <- Tasks
    number_tasks = 2
    Builds <- Racing
    MaxReports = 2
SPECIFICATION Spec
INVARIANT TwinsApart
