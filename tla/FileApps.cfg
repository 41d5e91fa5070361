SPECIFICATION MCSpec
CONSTANTS
    MAX_VNODES = 4
    MAX_CHILDREN = 2
    MAX_FILE_SIZE = 2
    MAX_ROWS = 3
    FREE_MAX = 2
    DATA_POOL_SIZE = 3
    Name = {a, b}
    BadName = BadName
    DotDot = DotDot
    Byte = {"x", "y"}
    Data <- SomeData
    Path <- SomePaths
    Apps = {"terminal", "files", "editor"}
    IdBound = 5
    OffsetBound = 4
INVARIANTS AppsAgree
PROPERTIES NothingLost
