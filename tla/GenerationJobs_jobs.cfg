SPECIFICATION Spec
CONSTANTS
    j1 = j1
    j2 = j2
    a1 = a1
    c1 = c1
    c2 = c2
    Jobs = {j1, j2}
    Callers = {}
    ACs = {c1}
    NumReqs = 2
    Stocked = {}
    Scopes = {{2}}
    Widths = {1, 2}
    MaxJobs = 1
    MaxTests = 1
    TTL = 1
    None = None
    MaxKills = 1
    MaxFailures = 1
SYMMETRY JobSymmetry
INVARIANTS
    TypeOK
    CompletedAccountsForScope
PROPERTIES
    LedgerSpec
CHECK_DEADLOCK FALSE
