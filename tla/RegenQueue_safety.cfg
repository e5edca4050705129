SPECIFICATION Spec
CONSTANTS
    t1 = t1
    t2 = t2
    u1 = u1
    Tests = {t1}
    Upstream = {u1}
    TestsOf <- AllTests
    Unfit = {}
    Bare = {}
    Rank <- ByName
    Drains = {1, 2}
    Loop = 1
    MaxPerCycle = 20
    WrittenKinds = {"script", "gherkin", "gated", "adversarial", "broken"}
    MaxWrites = 3
    MaxKills = 1
INVARIANTS
    TypeOK
    OneDrainPerMarker
PROPERTIES
    CustodySpec
