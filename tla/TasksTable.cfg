\* Three rows that wait, depend and are worked on; the life of one row.
CONSTANTS
  Undefined = Undefined
  Task = {t1, t2, t3}
  Agent = {pi, sigma}
  Member = {ann}
  Admin = {ann}
  Fleet = Fleet
  Project = {p}
  BillableProject = {}
  Mission = {m}
  ReviewCoordinator = {}
  RepoOwner = Undefined
  AutomationCanceller = {}
  InProgressCap = 1
  TicksPerMinute = 2
  MaxSegmentMinutes = 1
  Typed = {0}
  MaxTime = 0
  MaxSegments = 2
SPECIFICATION TableSpec
INVARIANTS TypeOK NoWaiterOnDone
PROPERTIES AppendedStayAcyclic OwnersHoldCap CompleteClosesMission
VIEW TableView
SYMMETRY Symmetric
CHECK_DEADLOCK FALSE
