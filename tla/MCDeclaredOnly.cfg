SPECIFICATION FairSpec
CONSTANTS
    None = None
    m1 = m1
    m2 = m2
    w1 = w1
    w2 = w2
    Mints <- MCMints
    Wallets <- MCWallets
    Fixtures <- DeclaredOnlyFixtures
    FilterAccepts <- MCFilterAccepts
    RuleRejects <- MCRuleRejects
    ModuleFeatures <- MCModuleFeatures
    ModuleIsDeclaredOnly <- MCModuleIsDeclaredOnly
    Bots <- MCBots
    EnabledModules <- DeclaredOnlyModules
    Gate <- MCGate
    MaxRuns = 1
    MaxCrashes = 0
INVARIANT
    UnimplementedRaisesNothing
PROPERTY
    Terminates
CHECK_DEADLOCK FALSE
