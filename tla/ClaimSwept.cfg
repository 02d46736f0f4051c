\* A blocker closed by another door than complete.
CONSTANTS
  Undefined = Undefined
  Task = {t1, t2}
  Agent = {pi, sigma}
  Member = {}
  Admin = {}
  Fleet = Fleet
  Project = {}
  BillableProject = {}
  Mission = {}
  ReviewCoordinator = {}
  RepoOwner = Undefined
  AutomationCanceller = {}
  InProgressCap = 1
  TicksPerMinute = 1
  MaxSegmentMinutes = 1
  Typed = {}
  MaxTime = 0
  MaxSegments = 0
SPECIFICATION OpenBoardSpec
PROPERTIES EveryWaiterSwept
CHECK_DEADLOCK FALSE
