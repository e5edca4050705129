SPECIFICATION FairSpec
CONSTANTS
    Requests <- AllTools
    Switches <- Killswitches
    Inventories <- Several
    Stubs = {0, 1}
    Workers = 2
INVARIANTS
    TypeOK
    ToolsAccountedFor
    NamedToolsRun
    OnlyLeftoversOverlap
    PassIsEarned
PROPERTIES
    ReportsStand
    RunEnds
CHECK_DEADLOCK FALSE
