CONSTANTS
    p1 = p1
    p2 = p2
    i1 = i1
    i2 = i2
    NoFile = NoFile
    NoAction = NoAction
    Procs = {p1, p2}
    FlushOnStart = {p1}
    Inodes = {i1, i2}
    Actions = {"MOVE"}
    LockKeys = {"motion", "heater"}
    RequiredLocks <- MCRequiredLocks
    NeedsApproval = {}
    AutoApproved = {}
    Builtin = {}
    NonfatalWait = {}
    Tuning = {}
    Horizon = 1
    MaxPlans = 2
    MaxApprovals = 0
SPECIFICATION FairSpec
INVARIANTS
    SurvivesFlush
    AmbiguityNeverNoticed
PROPERTIES
    ExecutionEnds
