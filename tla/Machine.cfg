SPECIFICATION MCSpec
CONSTANTS
    MAX_FRAMES = 18
    MAX_REGIONS = 5
    KERNEL_BASE = 1
    IMAGE_END = 2
    KERNEL_STACK_TOP = 3
    RAM_END = 17
    HEAP_PAGES = 3
    STACK_PAGES = 1
    MAX_PROCESSES = 3
    RING_PAGES <- MCRings
    BootInfos <- MCBootInfos
    ScreenPages = {0, 1, 2}
    ImagePages = {1, 2}
    Ticks = 7
    MaxCalls = 6
    HEAP_SIZE = 12
    KERNEL = 2
    Sizes = {1, 3}
    MaxLoads = 2
    MaxPictures = 1
    MAX_RUN_DEPTH = 3
    IMAGE_MAX = 64
    HALF = 64
    CHUNK = 2
    WRITE_MAX = 5
    Bases = {20, 30, 50}
    MaxRuns = 2
    MaxTicks = 3
    STAGE2_SECTORS = 1
    KERNEL_SECTORS = 3
    CHUNK_SECTORS = 2
    FS_LBA = 5
    MaxFaults = 2
    MaxStarts = 2
    MaxInstalls = 2
    MAX_DEVICES = 4
    TX_DESC = 3
    RX_DESC = 3
    MaxFrames = 4
    TRIES = 2
    RPC_BUF = 3
    Lengths = {0, 2, 4}
    MaxCommands = 3
    FileKinds <- MCFiles
    Packages <- MCPackages
    Attached <- MCAttached
    Buses <- MCBuses
    Times <- MCTimes
INVARIANTS FramesKept ScansTrue  ProgramsRun DevicesTrue
PROPERTIES InstallsWhole 
CHECK_DEADLOCK FALSE
