SPECIFICATION FairSpec
CONSTANTS
    w1 = w1  w2 = w2
    NoToken = 0
    Callers <- MCCallers
    Tokens <- MCTokens
    MaxKey = 2
    GivesGrant <- MCAlways
    ZombieGrants = FALSE
INVARIANTS
    TypeOK
    TokenKeyPaired
PROPERTIES
    NoNeedlessRenewal
    CallsReturn
    SyncRecovers
