SPECIFICATION Spec
CONSTANTS
    None = None
    m1 = m1
    m2 = m2
    w1 = w1
    w2 = w2
    Mints <- MCMints
    Wallets <- MCWallets
    Fixtures <- CrashFixtures
    FilterAccepts <- MCFilterAccepts
    RuleRejects <- MCRuleRejects
    ModuleFeatures <- MCModuleFeatures
    ModuleIsDeclaredOnly <- MCModuleIsDeclaredOnly
    Bots <- MCBots
    EnabledModules <- MCModules
    Gate <- MCGate
    MaxRuns = 3
    MaxCrashes = 2
INVARIANTS
    ReplayRepeats
    AlertIsExplained
    ActionsAreRecorded
    TrailIsCanonical
PROPERTIES
    ImplementsDecisions
CHECK_DEADLOCK FALSE
