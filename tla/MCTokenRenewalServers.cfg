SPECIFICATION Spec
CONSTANTS
    w1 = w1  w2 = w2
    NoToken = 0
    Callers <- MCCallers
    Tokens <- MCTokens
    MaxKey = 2
    GivesGrant <- MCSometimes
    ZombieGrants = TRUE
SYMMETRY MCSymmetry
INVARIANTS
    TypeOK
    TokenKeyPaired
PROPERTIES
    NoNeedlessRenewal
