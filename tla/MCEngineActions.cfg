CONSTANTS
    p1 = p1
    p2 = p2
    i1 = i1
    i2 = i2
    NoFile = NoFile
    NoAction = NoAction
    Procs = {p1}
    FlushOnStart = {}
    Inodes = {i1, i2}
    Actions = {"HEAT", "JOG", "HOLD"}
    LockKeys = {"motion", "heater"}
    RequiredLocks <- MCRequiredLocks
    NeedsApproval = {"HEAT", "JOG"}
    AutoApproved = {"JOG"}
    Builtin = {"HOLD"}
    NonfatalWait = {"HOLD"}
    Tuning = {}
    Horizon = 3
    MaxPlans = 1
    MaxApprovals = 2
SPECIFICATION Spec
INVARIANTS
    ApprovalGate
    TablesAgree
    LocksNeverLeak
