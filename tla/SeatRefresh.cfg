\* One seat, two requests, retargets between two organisations; tokens expire.
CONSTANTS
  Client = {c1}
  Profile = {p1, p2}
  Org = {o1, o2}
  Label = {l1, l2, l3}
  Spare = l3
  Request = {q1, q2}
  Nothing = Nothing
  AccessTtl = 0
  RefreshTtl = 0
  Batch = 2
  Doors = {"provision", "script", "retrofit", "scope", "label"}
  MaxWalks = 1
  MaxRows = 3
  MaxNow = 1
SPECIFICATION RefreshSpec
INVARIANTS SeatsSound OrgOfProfile
ACTION_CONSTRAINT StepInBounds
SYMMETRY Symmetry
CHECK_DEADLOCK FALSE
