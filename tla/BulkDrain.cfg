\* Three rows, one run after another or at once, a change by others; two blobs
\* of two contents, a document of two chunks ingested three times.
CONSTANTS
  Task = {t1, t2, t3}
  eta = eta
  pi = pi
  etaB = etaB
  orgA = orgA
  orgB = orgB
  Agent = {eta, pi, etaB}
  Org = {orgA, orgB}
  Run = {r1, r2}
  Fleet = Fleet
  OrgOf <- TwoOrgs
  Label <- SharedLabel
  Nothing = Nothing
  HardCap = 1
  MaxChanges = 1
  Tenant = {orgA, orgB}
  Master = Master
  Doc = {k1}
  Content = {x1, x2}
  Blob = {b1, b2}
  Parts = 2
  UPLOAD_TICKET_TTL = 0
  UPLOAD_TICKET_PURGE_BATCH = 1
  MARK_DOC_BATCH_SIZE = 1
  MaxTickets = 2
  MaxIngests = 3
  MaxClock = 1
SPECIFICATION MCSpec
INVARIANTS EveryClosedRowCounted RunningIsScheduled LibrarySound DeletionStaysScheduled
PROPERTIES ClosesOwnRows CompleteMeansDrained DrainEnds ReingestConverges
CHECK_DEADLOCK FALSE
