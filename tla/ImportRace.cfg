SPECIFICATION Spec
CONSTANTS
    Parts = {"library"}
    Conns = {1, 2}
    Scripts <- ChatScripts
    PanelScripts <- MCPanelScripts
    MaxSends = 2
    MaxChats = 2
    MaxRows = 1
    MaxCalls = 1
    MaxRuns = 3
    MaxBlocks = 2
    MaxEdits = 4
    Dragged = {"config", "ai"}
    MaxChanges = 2
    MaxTags = 2
    Accounts <- MCAccounts
    OldPrefs <- MCOldPrefs
    Searches <- MCSearches
    Texts <- MCTexts
    TagChoices <- MCTags
    PromptIds = {1, 2}
    FolderIds = {"f"}
    FolderNames = {"x", "y"}
    Lists = {"a", "b"}
    Labels = {"l"}
    TemplateIds = {"t"}
    MaxVersions = 3
    Killed = FALSE
    MaxOps = 1
    Ids = {1, 2}
    Ranges = {"24h", "7d"}
    MaxAsked = 2
    MaxTurns = 2
    MaxActs = 3
    MaxPosted = 3
    MaxTyped = 2
    Stored = {1, 2}
    Fresh = {3}
    MaxMoves = 3
    MaxTexts = 2
    MaxDeeds = 2
    MaxTraffic = 2
    Boards = {1, 2}
    MaxTokens = 3
    MaxWires = 2
    MaxClicks = 4
    Minute = 2
    Hour = 4
    RawRetention = 2
    MinRetention = 4
    HourRetention = 8
    MonthWindow = 6
    MaxSamplesPerMonitor = 2
    Gaps = {1, 3}
    MaxTime = 18
    MaxKept = 3
INVARIANT IndexInSync
CHECK_DEADLOCK FALSE
