SPECIFICATION Spec
CONSTANTS
    None = None
    Families = {"speed", "accel"}
    Relative = {"accel"}
    Lo = 0
    Hi = 1
    Default = 0
    SmallStep = 1
    BigStep = 2
    MaxJobs = 2
    MaxFaults = 1
INVARIANTS
    VisionOfThisJob
    StartOnlyOnEmptyBed
    TuningInv
CONSTRAINT OneFamilyTuned
