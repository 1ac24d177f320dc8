SPECIFICATION Spec
CONSTANTS
    Parts = {"view", "session", "link"}
    Runs = {1, 2}
    ProjectOf <- MCProjectOf
    Script <- MCScript
    MaxStreams = 2
    MaxAsks = 1
    MaxTokens = 3
    MaxRequests = 2
    FastTries = 2
    MaxRefreshes = 3
    MaxRetries = 1
    MaxOutages = 2
INVARIANTS ViewIsHonest SessionKept LoopHealthy
PROPERTIES SessionEnds Settles
CHECK_DEADLOCK FALSE
