SPECIFICATION LoopSpec
CONSTANTS
    c1 = c1
    c2 = c2
    Cids = {c1}
    NoClient = NoClient
    MaxSend = 1
    MaxLines = 2
    PingInterval = 1
    PingTimeout = 2
    ConnectTimeout = 1
    ReapEvery = 1
    Horizon = 7
INVARIANTS
    NoLineIsStranded
    SilenceIsBounded
    RegistrationIsBounded
PROPERTIES
    PingTimeoutMeansSilence
