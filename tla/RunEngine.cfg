\* A run that needs approval and one fired by the scheduler, one slot or
\* no limit, one settings write, one restart.
CONSTANTS
    alice = alice
    bob = bob
    Runs = {"gated", "cron"}
    Users <- MCUsers
    NoUser = NoUser
    Requester <- MCRequester
    Scheduled = {"cron"}
    RunOnStart = {}
    Gated = {"gated"}
    Script <- MCScript
    Limits <- OneOrNone
    MaxWrites = 1
    MaxBoots = 1
SPECIFICATION FairSpec
INVARIANTS TypeOK GateHolds SlotsBounded NoZombieRow EndIsFinal
PROPERTIES ImplementsLifecycle EveryRunEnds
CHECK_DEADLOCK FALSE
