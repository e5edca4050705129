SPECIFICATION FairSpec
CONSTANTS
    j1 = j1
    j2 = j2
    a1 = a1
    c1 = c1
    c2 = c2
    Jobs = {j1, j2}
    Callers = {a1}
    ACs = {c1}
    NumReqs = 1
    Stocked = {1}
    Scopes = {{1}}
    Widths = {1}
    MaxJobs = 1
    MaxTests = 1
    TTL = 1
    None = None
    MaxKills = 0
    MaxFailures = 0
INVARIANTS
    DuplicateNeedsOverrun
PROPERTIES
    JobsSettle
