CONSTANTS
    Order <- MCOrder
    Temps = {"nozzle"}
    Lo = 0
    Hi = 3
    Default = 2
    Small = 2
    Big = 3
    Reads = 1
    MaxJobs = 2
    MaxKnobs = 0
    Deadline = 1
    Stall = 2
    Hard = 3
    Iterations = 2
    MaxPrints = 1
    None = None
SPECIFICATION Spec
INVARIANT UndisturbedSessionRestores
CHECK_DEADLOCK FALSE
