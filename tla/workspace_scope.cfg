SPECIFICATION FairSpec
CONSTANTS
    Connections <- MCConnections
    Databases <- MCDatabases
    Default = ""
    Public = "public"
    Holds <- MCHolds
    Links <- MCLinks
    MaxMoves = 2
    None = None
CHECK_DEADLOCK FALSE
INVARIANTS WorkspaceInv SelectionExists
PROPERTIES ExistingObjectStays NavigationSettles
