CONSTANTS
    Schedules = {s1}
    Crons = {2}
    DueTimes = {0}
    Upserts = FALSE
    MaxTime = 3
    MaxBoots = 1
SPECIFICATION Spec
INVARIANTS EditsKept
CHECK_DEADLOCK FALSE
