\* One connection from consent to the end of its family; two connections
\* revoked a row at a time.
CONSTANTS
  Code = {c1, c2}
  Request = {r1, r2}
  Agent = {a1}
  Self = Self
  Nothing = Nothing
  CodeTtl = 0
  AccessTtl = 1
  RefreshTtl = 2
  FamilyMax = 2
  Retention = 1
  Batch = 1
  MaxRows = 4
  MaxNow = 4
SPECIFICATION MCSpec
INVARIANTS GrantsSound FamilyEnds TriggersReach ReplayEndsFamily
PROPERTIES RedeemedOnce RevocationDrains
CHECK_DEADLOCK FALSE
