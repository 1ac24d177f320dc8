SPECIFICATION Spec
CONSTANTS
  HourLen = 2  DayLen = 2  WeekLen = 3  Years = 2
  OctetBits = 2  Octets = 2
INVARIANTS ScheduleAgrees AnswersExact ConfigsHold
