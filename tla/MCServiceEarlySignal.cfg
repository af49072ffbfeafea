SPECIFICATION FairSpec
CONSTANTS
    c1 = c1  c2 = c2
    Connections <- MCConnections
    MaxSignals = 2
CHECK_DEADLOCK FALSE
PROPERTIES
    SignalEndsProcess
