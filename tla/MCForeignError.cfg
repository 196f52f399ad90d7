SPECIFICATION LoopSpec
CONSTANTS
    c1 = c1
    c2 = c2
    Cids = {c1, c2}
    NoClient = NoClient
    MaxSend = 1
    MaxLines = 1
    PingInterval = 0
    PingTimeout = 0
    ConnectTimeout = 0
    ReapEvery = 0
    Horizon = 1
INVARIANTS
    ErrorsAreTheirOwn
