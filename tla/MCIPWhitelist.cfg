SPECIFICATION FairSpec
CONSTANTS
    r1 = r1  r2 = r2
    Addrs <- MCAddrs
    Requests <- MCRequests
    Controls <- MCControls
    Answers <- MCAnswers
    MaxVersion = 2
    RateLimitMax = 1
INVARIANTS
    NoTransientDenial
PROPERTIES
    ImplementsGate
    RangesConverge
    UpdaterEnds
