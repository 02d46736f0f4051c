\* One provisioned seat that refreshes.
CONSTANTS
  Client = {c1}
  Profile = {p1}
  Org = {o1}
  Label = {l1}
  Spare = Nothing
  Request = {q1}
  Nothing = Nothing
  AccessTtl = 0
  RefreshTtl = 1
  Batch = 1
  MaxWalks = 1
  Doors = {"provision"}
  MaxRows = 2
  MaxNow = 0
SPECIFICATION Spec
CHECK_DEADLOCK FALSE
INVARIANT RenewingSeatLives
