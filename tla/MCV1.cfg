CONSTANTS
    Texts = {"great", "stop"}
    Ratings = {"great"}
    MaxStale = 1
    Scenarios <- MCScenarios
    MaxEvents = 3
    Monitors = {"oc_nozzle"}
    MaxTroubles = 3
    None = None
SPECIFICATION FairSpec
INVARIANTS
    Types
    StaleActsAreRare
    QueueConserved
PROPERTIES
    DecisionsFit
    MessageIsAnswered
    AlarmsAnswered
