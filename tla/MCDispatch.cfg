CONSTANTS
    Commands = {"resume", "cancel", "note"}
    Group <- MCGroup
    GateBypass = {"note"}
    NeedsApproval = {"cancel"}
    Resume = {"resume"}
    MaxAge = 0
    ApprovalTimeout = 0
    MaxChain = 2
    MaxActions = 2
    MaxDecisions = 1
    MaxFaults = 2
    ProposeUntil = 0
    MaxTime = 1
SPECIFICATION FairSpec
INVARIANTS
    AtMostOnce
    LedgerInv
    ChainOrder
    GatesHold
PROPERTIES
    Settles
