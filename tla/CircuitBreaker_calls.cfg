SPECIFICATION CallingSpec
CONSTANTS
    c1 = c1
    c2 = c2
    c3 = c3
    claude = claude
    ollama = ollama
    Providers = {claude, ollama}
    Calls = {c1, c2, c3}
    ProviderOf <- TwoProviders
    Cap = 2
    FailThreshold = 2
    WindowSecs = 2
    CooldownSecs = 1
    AgeCap = 3
INVARIANTS
    TypeOK
    PermitsConserved
    ClosedBelowThreshold
    CooldownTracksBurst
    HalfOpenCooledDown
PROPERTIES
    ProtocolSpec
    BreakersIndependent
    AdmittedCallsEnd
    OpenIsEventuallyProbed
