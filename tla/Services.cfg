SPECIFICATION Spec
CONSTANTS
    Parts = {"monitors", "vault", "mcp", "accounts", "throttle", "tools"}
    Monitors = {"a", "b"}
    Populations = {{"a"}, {"a", "b"}}
    Thresholds = {1, 2}
    AlertAfter = 1
    RenotifyEvery = 0
    MaxProbes = 4
    MaxJobs = 3
    MaxOps = 2
    MaxRacing = 1
    RacingProbes = 1
    Nothing = Nothing
    SecretIds = {"a", "b"}
    Values = {"x", "y"}
    Passwords = {"p", "q"}
    AutoLock = 1
    MaxSalts = 2
    MaxWrites = 3
    Servers = {1}
    MaxSessions = 2
    MaxActive = 2
    MaxStarts = 3
    MaxChanges = 1
    Users = {"ada", "bob"}
    Patches = {"promote", "demote", "disable", "enable", "password", "email"}
    MaxLogins = 2
    MaxParallel = 2
    MaxAccountOps = 2
    MaxFails = 60
    MaxAttempts = 2
    Exchanges = {1, 2}
    MaxPerConn = 1
    MaxTurns = 2
    MaxApprovals = 1
    MaxDecisions = 2
INVARIANTS MonitorsSound VaultSound AiSound AccountsSound
PROPERTIES LoopsEnd
CHECK_DEADLOCK FALSE
