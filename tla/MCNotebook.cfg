SPECIFICATION FairSpec
CONSTANTS
    None = None
    Files = {"a", "b"}
    Sizes = {1, 2}
    Requested = "a"
    MaxUploads = 2
    MaxJobs = 2
    MaxNotes = 1
    MaxFaults = 2
    MaxLines = 5
    TinyLines = 2
    Unit = 2
    Lookahead = 1
    LocalLimit = 2
INVARIANTS
    StoreInv
    SectionsRight
PROPERTIES
    NotebookArrives
CHECK_DEADLOCK FALSE
