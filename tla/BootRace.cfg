\* A schedule that fires when the scheduler starts.
CONSTANTS
    alice = alice
    bob = bob
    Runs = {"cron"}
    Users <- MCUsers
    NoUser = NoUser
    Requester <- MCRequester
    Scheduled = {"cron"}
    RunOnStart = {"cron"}
    Gated = {}
    Script <- MCScript
    Limits = {1}
    MaxWrites = 0
    MaxBoots = 0
SPECIFICATION Spec
INVARIANTS OwnRunsKept
CHECK_DEADLOCK FALSE
