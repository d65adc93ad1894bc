SPECIFICATION Spec
CONSTANTS
    Tasks = {1}
    Handlers = {h1}
    Priority <- MCPriority
    MaxConcurrent = 1
    Torrents = {}
PROPERTY PauseFreesSlot
CHECK_DEADLOCK FALSE
