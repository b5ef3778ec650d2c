SPECIFICATION FairSpec
CONSTANTS
    Names <- MCNames
    FilesPerDir = 16
    Row = 6
    SortLimit = 14
    Modulus = 64
    PathRoom = 1
    Parent = 2
    NoName = 0
    Listings <- MCListings
    Leftover <- MCLeftover
    Keys <- MCKeys
    Port1 = {"A"}
    Port2 = {"P", "Enter"}
    ShiftKey = "shift"
    Reports <- MCReports
    Drift = 1
INVARIANTS TypeOK SelectionShown HangsOnlyPlaced SortedTable KeysReachOneSide
PROPERTIES LeaveFindsIt Releases
CHECK_DEADLOCK FALSE
