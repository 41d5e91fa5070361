SPECIFICATION MCSpec
CONSTANTS
    MAX_VNODES = 4
    MAX_CHILDREN = 2
    MAX_FILE_SIZE = 2
    FREE_MAX = 2
    DATA_POOL_SIZE = 6
    Name = {n1, n2}
    BadName = BadName
    Byte = {"x", "y"}
    Data <- SomeData
    IdBound = 5
    OffsetBound = 7
INVARIANTS PoolNotShared TreeOK
PROPERTIES WritesOnlyTheirOwn
SYMMETRY NameSymmetry
