SPECIFICATION Spec
CONSTANTS
    None = None
    m1 = m1
    m2 = m2
    w1 = w1
    w2 = w2
    Mints <- MCMints
    Wallets <- MCWallets
    Fixtures <- WideFixtures
    FilterAccepts <- MCFilterAccepts
    RuleRejects <- MCRuleRejects
    ModuleFeatures <- MCModuleFeatures
    ModuleIsDeclaredOnly <- MCModuleIsDeclaredOnly
    Bots <- MCBots
    EnabledModules <- MCModules
    Gate <- MCGate
    MaxRuns = 1
    MaxCrashes = 0
INVARIANTS
    TypeOK
    ContinuousStateIsObserved
    DeltaIsOfThisObservation
    AlertReadIsItsOwn
    AlertIsFresh
    AlertIsNotDeteriorated
    TwinBotsAgree
    SnapshotNumbersOrder
    ScoreIsOfRecordedFeatures
    EveryBotConcluded
    RecordTimesAreOrdered
PROPERTIES
    DrivesSession
    NothingIsRevisited
CHECK_DEADLOCK FALSE
