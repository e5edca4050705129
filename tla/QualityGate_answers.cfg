SPECIFICATION Spec
CONSTANTS
    p = p
    t = t
    b1 = b1
    b2 = b2
    Tests = {p, t}
    P0Tests = {p, t}
    ToolOf <- OneTool
    Builds = {b1, b2}
    None = None
    Reports <- SomeReports
    Rates = {500}
    MaxRuns = 2
SYMMETRY Symmetry
INVARIANTS
    TypeOK
    ApprovalIsEarned
