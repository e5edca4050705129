SPECIFICATION FairSpec
CONSTANTS
    r1 = r1
    r2 = r2
    Runs = {r1}
    NumRows = 3
    BadRows <- MixedRows
    RecoveryWindow = 1
    SweepTTL = 1
    SweepHeartbeat = 1
    DbMayFail = TRUE
    AgeCap = 2
    MaxStops = 2
INVARIANTS
    TypeOK
    RecordedOutcomeStands
    PassMeansCompleted
    ResultsOnlyWhenRecorded
PROPERTIES
    ActiveRowOutlivesRun
    LedgerSpec
    RunningRowsSettle
