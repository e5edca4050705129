SPECIFICATION FairSpec
CONSTANTS
    t1 = t1
    t2 = t2
    u1 = u1
    Tests = {t1, t2}
    Upstream = {u1}
    TestsOf <- AllTests
    Unfit = {}
    Bare = {t1}
    Rank <- ByName
    Drains = {1}
    Loop = 1
    MaxPerCycle = 2
    WrittenKinds = {"script", "gherkin", "gated"}
    MaxWrites = 2
    MaxKills = 0
PROPERTIES
    ActionableIsHandled
