SPECIFICATION Spec
CONSTANTS
    p1 = p1
    p2 = p2
    a = a
    b = b
    Proposals = {p1, p2}
    Places = {a}
    PlaceOf <- Rivals
    Orig = Orig
    Other = Other
    None = None
    Attempts = 2
    MaxTrials = 1
    MaxKills = 1
SYMMETRY Symmetry
INVARIANTS
    TypeOK
    TrialsLeaveNoTrace
    BackupsHaveTrials
