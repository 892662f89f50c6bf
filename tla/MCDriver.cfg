SPECIFICATION FairSpec
CONSTANTS
    Families <- MCFamilies
    SerialOnly <- MCSerialOnly
    SerialFirst <- MCSerialFirst
    Rates <- MCRates
    Files = {"start.gcode", "part.gcode"}
    StartNames = {"start.gcode"}
    Floor = 1
    Ceiling = 1
    MaxVal = 1
    MaxJobs = 2
    MaxPolls = 2
    MaxCalls = 2
    MaxPanel = 1
INVARIANTS
    SuccessWasSeen
    RequestInv
PROPERTIES
    CallEnds
CHECK_DEADLOCK FALSE
