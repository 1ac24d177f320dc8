\* One runbook schedule, two cron expressions that come due and one that never does, one restart.
CONSTANTS
    Schedules = {s1}
    Crons = {0, 2, 3}
    DueTimes = {0, 2}
    Upserts = FALSE
    MaxTime = 6
    MaxBoots = 1
SPECIFICATION FairSpec
INVARIANTS TypeOK NoOverlap NextMatchesCron DeletedStaysDeleted
PROPERTIES DueIsFired
CHECK_DEADLOCK FALSE
