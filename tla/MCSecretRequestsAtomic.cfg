SPECIFICATION Spec
CONSTANTS
    r1 = r1  r2 = r2  A = A  B = B
    k1 = k1  k2 = k2  k3 = k3  short = short
    NoItem = NoItem
    NoKey = NoKey
    NotSet = NotSet
    Unreadable = Unreadable
    Materials <- MCMaterials
    Long <- MCLong
    NoId = NoId
    Malformed = Malformed
    Ciphers <- MCCiphers
    Orgs <- MCOrgs
    Cols <- MCCols
    Folders <- MCFolders
    Labels <- MCLabels
    Values <- MCOneKind
    Places <- MCOrgPlaces
    NameSets <- MCRenamedNameSets
    Requests <- MCOneRequest
    Queries <- MCNoQueries
    Environments <- MCFewEnvironments
    StartVaults <- MCStartVaults
    MaxVersion = 3
INVARIANTS
    RequestIsAtomic
