CONSTANTS
    p1 = p1
    p2 = p2
    i1 = i1
    i2 = i2
    NoFile = NoFile
    NoAction = NoAction
    Procs = {p1, p2}
    FlushOnStart = {}
    Inodes = {i1, i2}
    Actions = {"MOVE", "TUNE"}
    LockKeys = {"motion", "heater"}
    RequiredLocks <- MCRequiredLocks
    NeedsApproval = {}
    AutoApproved = {}
    Builtin = {}
    NonfatalWait = {}
    Tuning = {"TUNE"}
    Horizon = 2
    MaxPlans = 2
    MaxApprovals = 0
SPECIFICATION Spec
SYMMETRY Symmetry
INVARIANTS
    TypeOK
    SingleWriter
    BarrierBeforeEffect
    EvidenceSurvives
    StopsAtFirstFailure
    DispatchedLocksDisjoint
PROPERTIES
    WriteAhead
    AbandonedIsFrozen
