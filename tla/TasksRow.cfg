\* One row under a moving clock; one agent among the rows of two.
CONSTANTS
  Undefined = Undefined
  Task = {t1, t2}
  Agent = {pi, sigma}
  Member = {}
  Admin = {}
  Fleet = Fleet
  Project = {p}
  BillableProject = {p}
  Mission = {}
  ReviewCoordinator = {pi, sigma}
  RepoOwner = pi
  AutomationCanceller = {pi, sigma}
  InProgressCap = 1
  TicksPerMinute = 2
  MaxSegmentMinutes = 1
  Typed = {}
  MaxTime = 3
  MaxSegments = 2
SPECIFICATION RowSpec
INVARIANTS SegmentsWellFormed ClockRunsOnlyInProgress BilledWithinElapsed
PROPERTIES RecordedTimeKept OutsiderKeptOut
VIEW RowView
CHECK_DEADLOCK FALSE
