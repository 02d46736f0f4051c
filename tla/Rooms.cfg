\* Two agents and two people; pages of two messages, or of two bytes.
CONSTANTS
  pi = pi
  tau = tau
  vps = vps
  Agent = {a1, a2}
  Role = {pi, tau}
  Suffix = {vps}
  Nothing = Nothing
  Profile <- Profiles
  Reader <- Readers
  Instance <- Instances
  Limit = 2
  MaxBytes = 2
  MaxReceipts = 3
  Person = {p1, p2}
  ReadBound = 20
  MaxRooms = 2
  MaxOverflow = 1
SPECIFICATION MCSpec
INVARIANTS TablesSound
PROPERTIES RoomEnds ReadersServed
CHECK_DEADLOCK FALSE
