\* The owner and two other operators, three lines of events.
SPECIFICATION FairSpec
CONSTANTS
    Owner = owner
    Users = {owner, u1, u2}
    Kinds = {"gated", "plain", "scheduled"}
    MaxLines = 3
INVARIANTS TypeOK GateHolds EarlyApprovalFound EventsOnce NoZombieRow
PROPERTIES CancelEnds
CHECK_DEADLOCK FALSE
