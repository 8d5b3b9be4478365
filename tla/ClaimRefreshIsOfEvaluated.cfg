SPECIFICATION DriverSpec
CONSTANTS
    None = None
    m1 = m1
    m2 = m2
    w1 = w1
    w2 = w2
    Mints <- MCMints
    Wallets <- MCWallets
    Fixtures <- DrivenFixtures
    FilterAccepts <- MCFilterAccepts
    RuleRejects <- MCRuleRejects
    ModuleFeatures <- MCModuleFeatures
    ModuleIsDeclaredOnly <- MCModuleIsDeclaredOnly
    Bots <- MCBots
    EnabledModules <- MCModules
    Gate <- MCGate
    MaxRuns = 2
    MaxCrashes = 0
INVARIANT
    RefreshIsOfEvaluated
CHECK_DEADLOCK FALSE
