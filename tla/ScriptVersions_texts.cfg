SPECIFICATION Spec
CONSTANTS
    f1 = f1
    c1 = c1
    c2 = c2
    Tests = {1, 2}
    Files = {f1}
    FileOf <- SharedFile
    Renamed = {f1}
    Clients = {c1, c2}
    None = None
    MaxGen = 3
    MaxVersions = 3
SYMMETRY Symmetry
CONSTRAINT Untangled
INVARIANTS
    TypeOK
    TextsKept

    
CHECK_DEADLOCK FALSE
