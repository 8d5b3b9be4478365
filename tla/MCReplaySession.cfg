SPECIFICATION SessionSpec
CONSTANTS
    None = None
    m1 = m1
    m2 = m2
    Mints = {m1, m2}
    Wallets = {}
    Fixtures <- SessionFixtures
INVARIANTS
    SessionTypeOK
    ReadIsOfLatestObservation
    ClockCoversObservations
    ClockWasReported
PROPERTY
    ClockNeverRewinds
