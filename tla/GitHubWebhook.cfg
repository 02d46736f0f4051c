\* Two deliveries, three runs of the handler, four days; one kind of error,
\* counted up to five times.
CONSTANTS
  Delivery = {d1, d2}
  Step <- StepNames
  PullRequest = {p1}
  Issue = {i1}
  Attempt = {a1, a2, a3}
  ReviewRow = {x1, x2}
  eta = eta
  pi = pi
  Agent = {eta, pi}
  Nothing = Nothing
  LastStep = 1
  WindowDays = 1
  RetentionDays = 2
  PurgeBatch = 1
  MaxDay = 3
  MaxMoves = 1
  Error = {e1}
  Threshold = 2
  Window = 1
  Limit = 1
  MaxAlarms = 5
  MaxTime = 2
SPECIFICATION MCSpec
INVARIANT RecurrenceSound
PROPERTIES EffectsOnce NoSecondReview AuthorNeverReviews
CHECK_DEADLOCK FALSE
SYMMETRY Symmetry
