SPECIFICATION MCSpec
CONSTANTS
    MAX_VNODES = 3
    MAX_CHILDREN = 2
    MAX_FILE_SIZE = 2
    FREE_MAX = 0
    DATA_POOL_SIZE = 4
    Name = {n1, n2}
    BadName = BadName
    Byte = {"x", "y"}
    Data <- SomeData
    BLOCK_SIZE = 1
    BLOCK_COUNT = 5
    INODES_PER_SECTOR = 2
    Sample <- SampleTree
    IdBound = 4
    OffsetBound = 4
    SaveBound = 2
INVARIANTS InterruptedSaveIsConsistent
SYMMETRY NameSymmetry
