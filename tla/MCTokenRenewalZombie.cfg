SPECIFICATION FairSpec
CONSTANTS
    w1 = w1  w2 = w2
    NoToken = 0
    Callers <- MCOneCaller
    Tokens <- MCTokens
    MaxKey = 1
    GivesGrant <- MCSometimes
    ZombieGrants = TRUE
PROPERTIES
    RejectedSessionLogsInAgain
