\* One seat whose rows are revoked and deleted one at a time.
CONSTANTS
  Client = {c1}
  Profile = {p1, p2}
  Org = {o1}
  Label = {l1}
  Spare = Nothing
  Request = {q1}
  Nothing = Nothing
  AccessTtl = 0
  RefreshTtl = 0
  Batch = 1
  Doors = {"script", "delete", "access", "emergency", "active"}
  MaxWalks = 1
  MaxRows = 2
  MaxNow = 0
SPECIFICATION FairSpec
INVARIANT RevocationsReach
PROPERTY DoomedEnd
CHECK_DEADLOCK FALSE
