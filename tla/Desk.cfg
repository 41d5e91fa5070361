SPECIFICATION MCSpec
CONSTANTS
    MAX_WINDOWS = 3
    MAX_DOCK_BUTTONS = 4
    SW = 5
    COUNT = 3
    Place <- MCPlace
    KeyOpens <- MCKeyOpens
    ClickOpens <- MCClickOpens
    MaxId = 3
    MaxPasses = 1
    MaxPresses = 7
    MAX_USERS = 2
    FIELD_MAX = 1
    COLS = 3
    Chars = {"r", "u"}
    Star = "*"
    MaxNode = 3
    MaxKeys = 5
    MaxCommands = 4
    QUEUE_SIZE = 2
    DRAIN = 1
    ScreenW = 4
    ScreenH = 3
    SAVE_W = 2
    SAVE_H = 2
    BootEvents = 0
    Events = 3
INVARIANTS WindowsKept  MouseTrue
PROPERTIES ClicksKeepTheRest  KeysArrive
CHECK_DEADLOCK FALSE
