SPECIFICATION Spec
CONSTANTS
    r1 = r1  r2 = r2  A = A  B = B
    k1 = k1  k2 = k2  k3 = k3  short = short
    NoItem = NoItem
    NoKey = NoKey
    NotSet = NotSet
    Unreadable = Unreadable
    Materials <- MCMaterials
    Long <- MCLong
    NoId = NoId
    Malformed = Malformed
    Ciphers <- MCCiphers
    Orgs <- MCOrgs
    Cols <- MCCols
    Folders <- MCFolders
    Labels <- MCLabels
    Values <- MCAllKinds
    Places <- MCPlaces
    NameSets <- MCNameSets
    Requests <- MCOneRequest
    Queries <- MCQueries
    Environments <- MCEnvironments
    StartVaults <- MCStartVaults
    MaxVersion = 2
INVARIANTS
    ScopeIsTheKeys
    AnswerIsDetermined
    ServedWithinScope
    ServedMatchesQuery
    NoTransientMiss
PROPERTIES
    BlameIsJustified
