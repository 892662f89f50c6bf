CONSTANTS
    Order <- MCOrder
    Temps = {"nozzle"}
    Lo = 0
    Hi = 2
    Default = 1
    Small = 2
    Big = 3
    Reads = 1
    MaxJobs = 2
    MaxKnobs = 1
    Deadline = 1
    Stall = 2
    Hard = 3
    Iterations = 2
    MaxPrints = 3
    None = None
SPECIFICATION FairSpec
INVARIANTS
    ProofsRestore
    PrintsJudged
PROPERTIES
    CreditsOneJob
    ToolsEnd
CHECK_DEADLOCK FALSE
