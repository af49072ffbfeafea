SPECIFICATION Spec
CONSTANTS
    r1 = r1  r2 = r2
    Addrs <- MCAddrs
    Requests <- MCOneRequest
    Controls <- MCBlankControls
    Answers <- MCAnswers
    MaxVersion = 1
    RateLimitMax = 1
INVARIANTS
    FailsClosed
