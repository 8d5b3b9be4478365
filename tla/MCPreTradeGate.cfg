SPECIFICATION GateSpec
CONSTANTS
    None = None
    w1 = w1
    w2 = w2
    Mints = {"m"}
    Wallets = {w1, w2}
    GateChoices <- MCGates
    Questions <- MCQuestions
    Digits = 2
    MaxExponent = 4
INVARIANTS
    PassesIffAcceptable
    RoundingIsHarmless
PROPERTY
    TighteningNeverAdmits
CHECK_DEADLOCK FALSE
