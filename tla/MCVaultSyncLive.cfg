SPECIFICATION FairSpec
CONSTANTS
    c1 = c1  c2 = c2  v1 = v1  v2 = v2  p1 = p1  p2 = p2  r1 = r1  r2 = r2
    NoItem = NoItem
    Main = Main
    Background = Background
    Ciphers <- MCCiphers
    Values <- MCOneValue
    Places <- MCOnePlace
    Refreshers <- MCOneRefresher
    StartVaults <- MCStartVaults
    MaxVersion = 2
    MaxAttempts = 2
    EscalateAt = 2
PROPERTIES
    RefreshAnswered
    StartupEnds
    BackgroundEnds
    CacheConverges
    HalfReadableEscalates
