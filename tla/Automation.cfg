\* Three schedules, two a page, two titles, two agents;
\* two rows and two artifacts.
CONSTANTS
  Routine = {1, 2, 3}
  Agent = {a1, a2}
  Title = {s1, s2}
  Nothing = Nothing
  Page = 2
  LookupBound = 2
  ScanBudget = 3
  MaxNow = 1
  MaxTasks = 1
  Task = {1, 2}
  Artifact = {d1, d2}
  RECHECK_MAX_PER_RUN = 1
  RECHECK_SCAN_PER_STATUS = 2
  Cooldown = 1
  Interval = 1
  MaxJobs = 2
SPECIFICATION MCSpec
INVARIANTS TypeOK DeliverablesSound
PROPERTIES NoSecondInstance HealthyRoutineServed PublishedShows
CHECK_DEADLOCK FALSE
