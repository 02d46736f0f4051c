# VantagePeers in TLA+

VantagePeers is a coordination backend for a fleet of AI agents and the people
who direct them: tasks, missions, messages, memories and credentials kept in a
Convex database, reached through an MCP server, a dashboard and webhooks. This
directory holds TLA+ models of its core, the TLC configurations that check
them on small instances, and theorems about them whose proofs TLAPS checks.

All paths below are relative to the repository; `tasks.ts` without a directory
is `convex/tasks.ts`, and so for the other files of `convex/`.

## 1. The system

### How it runs

Every write is a Convex *mutation*: a serializable transaction over the
documents it read, retried on conflict. Two mutations never interleave inside;
what interleaves is whole mutations of different callers, the steps of *actions*
(which are not transactions: each `runMutation` inside commits on its own and
the action can die between two of them), scheduled continuations
(`ctx.scheduler.runAfter`, executed exactly once after the transaction that
scheduled them commits) and crons. So in the models one action is one whole
mutation, and an HTTP action is a sequence of steps with a program counter.

### Inventory

| Component | State | Operations | What is hard | What makes it correct |
|---|---|---|---|---|
| Tasks and the work clock (`tasks.ts`, `lib/taskClosureGate.ts`) | `tasks` rows: status, actors, project, mission, dependencies, `workSegments`, `startedAt`, `pausedAt`, closure columns, waiting link | create, start, pause, resume, checkout, correctSegment, blockTask, complete, failTask, update (per field), deleteTask, attachReviewArtifact, bulkComplete, the automated closers | four verbs and `update` move the same status by different rules; every closer rewrites the segment array; several rows change in one call | recorded time is never lost, overlapped or billed twice; nobody waits on a closed task; dependencies stay acyclic; the cap; who may write a row |
| Bulk completion (`tasks.ts` bulkComplete, bulkCompleteContinue) | `bulk_complete_runs` row, a scheduled continuation carrying the first call's scope | first batch, continuation, failure | rows change hands, tenant and status between batches | only the caller's rows of its organisation are closed; the run row tells the truth; the drain ends |
| GitHub webhook (`http.ts`, `deliveryLedger.ts`, `prMonitor.ts`, `lib/reviewRouting.ts`, `reviewBacklogSweep.ts`) | `webhookDeliveries` ledger, review tasks keyed by pull request, missions made for issues | the claim of a delivery step, create-or-update of a review task, its closing, the issue cascade, notices, purge | at-least-once unordered deliveries, an action that dies between mutations, a ledger that is purged | each step of a delivery takes effect at most once; one open review per pull request; the author never reviews |
| Task deliverables (`taskDeliverable.ts`, `taskDeliverableMutations.ts`) | deliverable columns of a row | set, resolve (asynchronous registry read), record, the hourly re-reading | an answer for a deliverable that has been replaced; resolutions that overlap or die | a result is stored only for the value it was asked for; what stays published ends up shown |
| Missions (`missions.ts`, `missionTemplates.ts`) | `missions` rows: phase, status, history | create, status, phase, auto-completion | closed by tasks, by people and by sweeps | closed exactly when its tasks are |
| Issue-closed sweep (`issueClosedSweep*.ts`) | none of its own | list, cascadeCloseMission, page on | closes from a list read earlier | closes only missions of closed issues |
| Error monitor (`errorMonitor*.ts`) | `errorLogs`, cursor, cooldowns | ingest, group, open an issue, resolve when quiet | overlapping polls, an issue created and then lost | one issue per fingerprint and cooldown |
| Recurring tasks (`recurringTasks.ts`, `crons.ts`) | `recurringTasks` with `nextRunAt` | due scan, materialise, pause | overlapping scans, skipped slots | one task per slot |
| Messages and receipts (`messages.ts`) | `messages`, `messageReceipts` | send, broadcast, list unread, mark read | a broadcast and a reader at once, a member joining later | nobody misses or reads twice |
| OAuth server (`oauth.ts`, `mcp-server/src/auth.ts`) | clients, codes, tokens, refresh families | authorize, exchange, refresh, revoke | a code or refresh token used twice, expiry at the boundary | single use; revocation is final |
| Identity and authorisation (`lib/auth.ts`, `lib/actingPrincipal.ts`, `agents.ts`, `agentCredentials.ts`, `orgMembership.ts`, ...) | agents, credentials, memberships, mappings | mint, rotate, bind, resolve a caller | a credential of a moved or renamed agent | a caller is exactly one principal of one organisation |
| Credentials and licenses (`credentials.ts`, `licenses.ts`, `gumroadWebhook.ts`) | credentials, licenses, sales | issue, redeem, refund | a refund and a redemption at once | one license per sale |
| Debate (`debate.ts`) | debates, rounds, turns | open, post, close | turns posted at once | turn order, one verdict |
| Mandates (`mandates.ts`) | mandates | grant, spend, revoke | spending and revoking at once | never beyond the grant |
| Knowledge base (`kb.ts`, `kbMutations.ts`, `ragSync.ts`) | documents as chunks, upload tickets, ownership of blobs, bundles of exports | ticket, upload, claim, ingest, delete in batches, purge of tickets | an ingest or export that dies between two mutations; a deletion and a re-ingest at once | a ticket is used once, on the file it was issued for; a re-ingest leaves its own chunks; a deletion is carried through |
| OKF bundles (`okfBundle*.ts`) | import runs | export, durable import | resuming after a failure | no row imported twice |
| Issues and fix patterns (`issues.ts`, `fixPatterns.ts`) | rows | upsert, link | late webhook events | the latest state wins |
| Memories, notes, diary, profiles (`memories.ts`, ...) | rows, supersession | CRUD, supersede | chains | one current version |
| Erasure (`erase.ts`, `lib/eraseRow.ts`) | tombstones | erase | rows written meanwhile | nothing comes back |
| Repository mappings (`githubRepoMapping.ts`, `githubOwnerBinding.ts`) | mappings, bindings | bind, suspend | routing during a suspension | only a proven owner routes |
| MCP transport (`mcp-server/src`) | sessions | translate a tool call | expiry of a session | a call acts as its bearer |
| Reports, dashboards, migrations | none or one-off | read | - | - |

Section 6 says which of these are modelled and section 7 in what order the rest
follows. The hazards found while reading are listed in `PROJECT.json`, each at
its line.

## 2. The modules

```
WorkSegments <- Tasks <- TasksClaims <- MCTasks                    tasks_row, tasks_table, claim_swept
                      <- TasksProofs

BulkDrain, KnowledgeBase <- MCBulkDrain                            bulk_drain
                         <- BatchProofs

DeliveryLedger <- GitHubWebhook <- WebhookClaims
GitHubWebhook, ErrorMonitor <- GitHubWebhookProofs
WebhookClaims, ErrorMonitor <- MCGitHubWebhook                     github_webhook, claim_redelivery
OncePerKey (abstract) => GitHubWebhook, PersonGrants

TokenTables <- PersonGrants <- MCPersonGrants                      person_grants
            <- SeatGrants <- SeatClaims <- MCSeatGrants            seat_refresh, seat_drain, claim_renewal
TokenTablesProofs <- PersonGrantsProofs, SeatGrantsProofs

RecurringTasks, Deliverables <- MCAutomation                       automation
                             <- AutomationProofs
Inbox <- DebateRooms <- MCRooms                                    rooms
                     <- RoomsProofs
```

`Absence` declares the constant that stands for a missing value, so that the
components one `MC` module puts side by side share it. Where these share nothing else,
the run has scenes for each (see below).

The `map` of `PROJECT.json` gives, for every definition, the lines it stands for.

**`WorkSegments`** has no state. It defines a recorded segment (`start`, `end`
or absent, `corrected`) and what the code does with an array of them:
`CloseTrailing`, `CloseOnExit`, the window test of a correction (`Within`), the
rounding (`Minutes`), what is billed (`BilledTicks`, `BilledMinutes`, with the
attestation of a segment over the cap) and when the closure gate refuses
(`SegmentsClosable`). Time is in ticks, `TicksPerMinute` to a minute, so that
rounding is real.

**`Tasks`** has one action per mutation of `tasks.ts`, with the whole handler
in it: `Create`, `Start`, `Pause`, `Resume`, `Checkout`, `CorrectSegment`,
`BlockOnTask`, `BlockOnNobody`, `Complete`, `FailTask`, `DeleteTask`,
`AttachReviewArtifact`, `BulkComplete` (first batch), and `update` as one
action per field it is called with (`UpdateStatus`, `UpdateDone`,
`UpdateCancel`, `UpdateAssignee`, `UpdateLinks`, `ReplaceDependsOn`,
`AddDependsOn`, `UpdateTyped`, `UpdateMission`). What the callers cannot ask
for is in `Automation`: `CreateByAutomation`, `CloseByAutomation`,
`CloseMatched`, `CascadeCloseMission`, `ResolveStaleMission`. A column of the
table is a function on `Task`; columns that move together are one record
(`actor`, `link`, `closure`, `waiting`). Callers are agents, members, admins and
the fleet; `Authorized` is `authorizeTaskActor`. The sweep of waiters and its
notices happen inside the closing action, as in the code, and so do the gate
and the completion of the mission.

**`BulkDrain`** takes up where `BulkComplete` of `Tasks` stops: the pile is larger
than the cap. `BulkComplete(r, args)` closes the first batch, writes the row
of run `r` and schedules the rest; `Continue(r)` is `bulkCompleteContinue`, with
the arguments the first call resolved; `Change(t)` is everybody else, who may
create, hand over, close, reopen or make unclosable any row between two
batches. The scan is nondeterministic within what an index scan may return,
with its overflow sentinel (`ScanLimit`, `Exceeds`). The closure gate, detailed
in `Tasks`, is one column here (`closable`).

**`DeliveryLedger`** is the table `webhookDeliveries` and its two operations:
`ClaimDeliveryStep` and `PurgeExpired`, against a calendar in days.
**`OncePerKey`** is what a ledger, or a consent code, promises, as a specification
of five lines: the work of a key takes effect once.

**`GitHubWebhook`** composes the ledger with the handler of `http.ts`. GitHub is
`PullEvent`, `IssueEvent`, `Reopen` and, for a delivery or a redelivery, `Begin`. A
run of the handler (`Attempt`) is a program counter that stands before its next
mutation: `ReviewTask`, `ReviewNotice`, `CloseReviews`, or `Look`, `Bridge`,
`CreateMission`, `CascadeTask`, `ResolveForRepo`, `CascadeReview`, `IssueNotice`, and
`NotifyUnresolved`. `Die` stops it anywhere; `Tick` stops every run, since none
lives for a day. `Commit` is the claim and the guarded work in one
transaction. `Reviewer` is `resolveReviewer`, `OpenReviews` is `findOpenReviewTasks`.
Reviewers move their rows (`Move`) and administrators change the mapping
(`Configure`) at any moment.

**`TokenTables`** is the shape the token tables of `oauth.ts` share: rows in the
order of insertion, the index by family, a `Page` of a batch, and what it means
that a family has rows left to revoke.

**`PersonGrants`** is the OAuth life of one member of one organisation. A code is
put by consent (`PutPersonCode`) and exchanged by a request that is four
transactions of `server-http.ts` in a row (`ConsumePersonCode`,
`LookupOrgMapping`, `MintPair` or its failure, `MintAlone`), between which it may
`Die`. A refresh token is rotated inside its family (`RotateRefreshToken`),
refused or found to be replayed. Four triggers revoke in batches that reschedule
themselves: a replay, a refused rotation, the removal of the member, the
deactivation of the agent; `Continue...` are what the scheduler holds (`queue`).
The member may return and consent anew before the last batch.

**`SeatGrants`** is the same server for agents' seats, whose tokens belong to a
client with a scope profile. A refresh is four transactions
(`GetRefreshTokenForGrant`, `GetClientByClientId`, `LoadScopeProfile`,
`RotateRefreshToken`) that carry what they read. Against it work the operators:
`ProvisionSeat`, `RetrofitSeatRefreshToken`, `DeleteClient`,
`RevokeAccessTokensOnly`, `PatchClientScope` (all three cursor walks, a page at a
time, in `walks`), `PatchScopeProfileEmergency` (rename, and a cascade that
deletes rows in batches) and `SetActive`. An organisation is its permanent ID
(`Org`); the labels are `Label`, `mappingLabel` is which organisation has which one,
and `TakeLabel`, an edit of the mapping by hand, passes them on. A profile keeps the
label and the ID it was inserted with (`Upserted`), and `ClerkOrgIdForSlug` is who has
a label now: it is what a retarget stamps on an access row, whatever the profile's own
ID is. `stray` is the history of a row where the two differed. **`SeatClaims`** states
what a comment says of a seat's renewal.

**`RecurringTasks`** is `recurringTasks.ts`: the doors of a schedule, the tasks
people add and move, and the cron (`CronTick`, `NextPage`) that serves what is
due a page at a time, in the order of the index (`FirstInOrder`). `Serve` is the
whole loop of a page, a recursive function over its schedules, and `ServeOne` what
it does with one: a look for an open instance under each open status, and then
the decision. The buckets of open tasks are read once per page (`LoadBucket`,
`Bucket`), with the lookup bound, the scan budget and the hand-over of a cursor.
A cron expression is the time to the next run, or unparseable.

**`ErrorMonitor`** is the poll of a log (`FetchLogs`, `UpsertError` per entry,
`UpdateCursor`), the recurrence decision (`ShouldCreateIssue`), the scheduled
filing (`GetErrorLogById`, `FileIssue`, `LinkIssue`), the webhook that makes the
mission and links it, and the resolver of quiet errors (`ListStaleAutoIrp`,
`HasLinkedPR`, `ResolveStaleIrpMission`, `CloseGitHubIssue`). Each is an action of
Convex and dies between any two of its steps.

**`Deliverables`** is the artifact a row claims to deliver. The doors that name or
move it are `CreateTask`, `SetDeliverable`, `MoveRow` and `DeleteRow`; naming one clears
the last reading and schedules a resolution (`jobs`), an action that reads the
registry (`ReadDeliverable`), records what it read on a row that still names the same
artifact (`RecordDeliverableState`) or dies (`JobDies`). The hourly cron lists open rows
within its window, cooldown and cap (`ListOpenDeliverables`), schedules one resolution
at a time (`ScheduleNext`), and ends or dies. The registry changes at any moment and
may lose what it had; `everPublished` is the history the property reads.

**`KnowledgeBase`** is files and documents. A client asks for a ticket
(`GenerateUploadUrlWithTicket`), uploads (`Upload`, which anybody may) and claims
(`ClaimUpload`); `PurgeUploadTickets` deletes tickets in batches. An export stores a
bundle, binds it to its organisation and has it deleted (`StoreBundle`, `BindBundle`,
`DeleteBundle`), or dies before that. An ingest (`StoreDocument`) checks its file
(`AssertStorageClaimedBy`), lists the old chunks (`ListChunkIdsForDoc`), supersedes
them (`SupersedePriorChunks`) and inserts its own one by one (`InsertChunk`), and dies
between any two. A deletion (`SoftDeleteDocument`) retires a batch and schedules the
next (`ContinueDeletion`) while batches are full. `doomed` is the history of what a
deletion set out to retire, `alone` says of an ingest that nobody disturbed it.

**`Inbox`** is messages and receipts for one organisation: `SendByName`,
`SendByIds`, `Broadcast`, `CheckMessages` with its page by count and by bytes and
its cursor, `MarkAsRead`, `DeleteMessage` with its cascade, and the doors of an
agent (register, roster, rename, deactivate). **`DebateRooms`** adds rooms: saved
settings and template, `CreateRoom`, `PostTurn` with its refusals, the turn rule
(`Advance`), the stop rules, and the two scheduled jobs of a turn, `DeliverTurn`
(a message through the inbox) and `ExpireTurn`, each run once at any later time.
`InboxNext` and `RoomsNext` are all their steps with any arguments, which the theorems
are about; the scenes of `MCRooms` take some of these steps, from states they reach.

### Scenes

The product of all columns is beyond TLC, so `MCTasks`, `MCBulkDrain`,
`MCGitHubWebhook`, `MCAutomation` and `MCRooms` hold several small worlds in one run, told
apart by a variable `scene` that no step changes. A scene has initial states of its own
and the actions that touch the columns its properties read:

| Module | Scenes |
|---|---|
| `MCTasks` (`TasksRow.cfg`) | `clock`: one row, every door that records time or closes, a tick between any two calls; `outsider`: an agent among rows of every origin that others created |
| `MCTasks` (`TasksTable.cfg`) | `board`: rows blocked on each other, closed, reopened, failed, deleted, by the fleet, which may make every call an agent may; `links`: dependencies and a mission; `own`: owners under the cap; `rows`: one row from insertion to deletion |
| `MCBulkDrain` | `rows`: two drains over rows that change; `claims`: tickets, uploads and bundles of two organisations, a document of one of them; `manual`: a document ingested and deleted over and over |
| `MCGitHubWebhook` | `hook`: the handler and its ledger; `alarm`: an error counted and filed again and again; `quiet`: its mission and the resolver |
| `MCAutomation` | `page`: schedules served on one page; `doors`: the life of one schedule; `queue`: a healthy schedule behind unparseable ones; `name`: one row that names one artifact and then another, read by overlapping resolutions; `recheck`: rows that wait for the cron, whose cap is one |
| `MCRooms` | `room`: one room to its end, stale jobs included; `doors`: two rooms while settings, template and agents change; `mail`: readers that page while mail is sent, marked and deleted |

`MCPersonGrants` cuts by `InBounds` instead: time passes while there is one connection.

The theorems of section 5 are about the whole `Next` of their module and do not
depend on the cut.

A definition commented *Variant* is a plausible mistake in the definition that
follows it; the mutants of `PROJECT.json` put it in the definition's place, and
the property named there must then fail. It is no part of the specification.

## 3. The runs

`tlc -workers 2 -config X.cfg M` with the configuration and module below.

| Run | Configuration, module | Properties | Shows |
|---|---|---|---|
| `tasks_row` | `TasksRow.cfg`, `MCTasks` | `SegmentsWellFormed`, `ClockRunsOnlyInProgress`, `BilledWithinElapsed`, `RecordedTimeKept`, `OutsiderKeptOut` | recorded segments never overlap, run only in progress, are only trimmed, never billed beyond the elapsed time; what an agent without a part in a row can do to it, with every grant on rows of automation |
| `tasks_table` | `TasksTable.cfg`, `MCTasks` | `TypeOK`, `NoWaiterOnDone`, `AppendedStayAcyclic`, `OwnersHoldCap`, `CompleteClosesMission` | no caller's close leaves a waiter behind, appended dependencies never close a cycle, the cap holds, a mission closes only when every row of it is done |
| `bulk_drain` | `BulkDrain.cfg`, `MCBulkDrain` | `EveryClosedRowCounted`, `RunningIsScheduled`, `ClosesOwnRows`, `CompleteMeansDrained`, `DrainEnds`; `LibrarySound`, `DeletionStaysScheduled`, `ReingestConverges` | only the caller's rows of its organisation are closed, the run row tells the truth, every drain ends; a file is claimed by who had a ticket for it, an undisturbed ingest leaves its own chunks, a deletion is never left half done |
| `github_webhook` | `GitHubWebhook.cfg`, `MCGitHubWebhook` | `EffectsOnce` (refinement of `OncePerKey`), `NoSecondReview`, `AuthorNeverReviews`; `RecurrenceSound` | overlapping, dying and repeated runs while the ledger is purged; no recurrence of an error is declared that was not measured |
| `person_grants` | `PersonGrants.cfg`, `MCPersonGrants` | `GrantsSound`, `FamilyEnds`, `RedeemedOnce` (refinement of `OncePerKey`), `TriggersReach`, `ReplayEndsFamily`, `RevocationDrains` | a code gives one grant, a family has one live refresh token and ends at the deadline of its root, and what a trigger set out to revoke is revoked whatever commits between its batches |
| `seat_refresh` | `SeatRefresh.cfg`, `MCSeatGrants` | `SeatsSound`, `OrgOfProfile` | overlapping refreshes of a seat whose profile is retargeted between its reads and its rotation, while labels pass from one organisation to another: a live token stands under its profile's own organisation, the rows a retarget stamped with a later holder of the label left out, and no rotation carries such a row's organisation on |
| `seat_drain` | `SeatDrain.cfg`, `MCSeatGrants` | `RevocationsReach`, `DoomedEnd` | walks and cascades over pages that rotations append to and deletions shorten miss no row, and end |
| `automation` | `Automation.cfg`, `MCAutomation` | `TypeOK`, `NoSecondInstance`, `HealthyRoutineServed`; `DeliverablesSound`, `PublishedShows` | no second open instance of a schedule, no schedule starved by unreadable ones; no reading beside an artifact it was not taken for, and what stays published ends up shown |
| `rooms` | `Rooms.cfg`, `MCRooms` | `TablesSound`, `RoomEnds`, `ReadersServed` | transcripts whole and bounded, jobs of a past turn harmless, a receipt gone exactly with its message, every room with deadlines ends, every unread message shown |

### Bounds, and why they are enough

- *tasks_row*: `MaxTime` 3 with two ticks to a minute lets a segment round up, round
  down, and pass the cap of one minute, and `MaxSegments` 2 is a pause and a
  resume. Overlap and order are relations between neighbours. A `VIEW` leaves out
  of the outsider's scene the columns its doors do not read.
- *tasks_table*: with three rows there is a waiter of a waiter, two waiters of one
  row, and a cycle longer than two; a cap of one is reached and exceeded with two
  rows, and the third row and the second agent show that other people's rows do
  not count. Rows and agents are interchangeable, hence the symmetry.
- *bulk_drain*: a cap of one over three rows makes a first batch, a continuation that
  exceeds and one that does not; two runs overlap; two organisations have an
  agent with the same label; `MaxChanges` 1 is a row changing between any two
  batches. Two blobs of two contents are the right file and a wrong one; a document
  of two chunks and batches of one chunk give a full batch, one that is exactly the
  rest, and an empty one; three ingests are one that dies, one that converges and one
  between the batches of a deletion.
- *github_webhook*: three runs over two deliveries are a first delivery, its
  redelivery and a concurrent one of the other; a window of one day, a retention
  of two and four days let a claim expire and be purged (`PurgeBatch` 1), and a
  mutant that purges a day early is caught; a template of two steps has an
  ordinary and a last step. For the error monitor, one kind of error counted up to
  five times is a first issue (threshold two), a gap of the window of one, and a
  recurrence; two filings and two issues at once, and a poll that dies after any entry.
- *person_grants*: two codes and two requests, a batch of one row, and four rows of
  each table: two families, one of them rotated, so that a revocation takes
  several batches with an exchange or a rotation between them. Time (five
  readings, families that live for two) passes for one connection only
  (`InBounds`): expiry concerns rows of one family, and the batches do not read
  the clock.
- *seat_refresh*: two requests, two profiles, two organisations and three rows are
  the smallest world in which a rotation holds a profile that is no longer the
  client's; time-to-live 0 and one tick expire every token. Three labels, one of them
  spare at the start, are a label left by one organisation and taken by the other.
  Once the spare one is taken or the clock has moved, or where a profile has no
  organisation, requests come one at a time and a table holds two rows, and the clock
  does not move where labels do (`InBounds` of `MCSeatGrants`, an
  action constraint of the configuration; the run checks invariants only): a takeover needs one
  family and one retarget, an expired token one row and its successor, not an overlap
  of refreshes, which the states before have. *seat_drain*: batch 1 over rows of one client is a page boundary
  after every row.
- *automation*: a page of two and three schedules is a page boundary; a lookup
  bound of two, reached and passed; a budget of three that ends a tick inside a
  page; two titles so that a page mixes keys. Two resolutions at once overlap in
  every order; two rows under a cap of one leave a candidate over, and two artifacts
  are a name and the one that replaces it.
- *rooms*: pages of two messages or two bytes, messages of one byte or three, so
  that bytes end a page the count would have let go on, and a message larger than
  a page occurs; two agents and two people give every
  mixture of seats; two rooms share agents; `ReadBound` 20 is the smallest that
  admits the templates used.

`CHECK_DEADLOCK FALSE` everywhere: a board of closed tasks, a drained pile, an ended
room and a revoked family really have nothing left to do, and each model is bounded.

### Where the code departs from its own documents

Each run below checks one property and TLC finds it violated.

| Run | The repository says | What happens |
|---|---|---|
| `claim_swept` (`EveryWaiterSwept`, `ClaimSwept.cfg`, `MCTasks`) | `convex/schema.ts:493-494`: "when the cited task reaches \"done\" every waiter here is swept back to \"todo\"" | `bulkComplete` and the automated closers set done without the sweep (`tasks.ts:5259`), and the waiter stays blocked |
| `claim_redelivery` (`RedeliveryRedoes`, `ClaimRedelivery.cfg`, `MCGitHubWebhook`) | `convex/deliveryLedger.ts:51`: "a redelivery redoes exactly the work that never committed" | a run commits its review task and dies; the redelivery finds the claim taken and answers 200 at once (`http.ts:578`), so the reviewer is never told. In the same way a mission keeps the tasks its first run reached and gets no others (`http.ts:244`, `http.ts:306`) |
| `claim_renewal` (`RenewingSeatLives`, `ClaimRenewal.cfg`, `MCSeatGrants`) | `mcp-server/server-http.ts:1411-1412`: "so a renewing client never dies at the first token's 30-day mark" | `provisionOrganization` inserts its access token without a family (`oauth.ts:1088`), so the rotation of a provisioned seat finds no organisation in its lineage and refuses it |

Other places where the code does more or less than a comment of it says, met
while modelling, without a run of their own:

- *Tasks*: `checkout` of a row that was put back to todo replaces `startedAt` and all of
  `workSegments` (`tasks.ts:4183`, against `schema.ts:580-581`); `update` to done stores
  the minutes the caller typed as `segments` (`tasks.ts:2642`, against
  `schema.ts:607-608`); `failed` blockers are accepted by `blockTask` after their notice
  went out (`tasks.ts:3040`); `dependsOn` given as a list may close a cycle that
  `addDependsOn` would refuse; a deleted or cancelled blocker strands its waiters;
  the status door of a mission and the cascade write over each other.
- *Webhook*: a `synchronize` handled after `closed` opens a review of a closed pull
  request (`http.ts:549`); a repeated `closed` closes the review of a reopened one
  (`http.ts:623`); the reviewer of the cascade's last task is read in a query of its
  own (`http.ts:321`).
- *OAuth*: an exchange or refresh in flight while its member is removed or its
  client deleted still mints a pair, which lives until its own expiry
  (`server-http.ts:1175`, `1264`; `oauth.ts:1752`, `3494`); two renames whose
  continuations overlap may leave clients on a name that is gone (`oauth.ts:3743`,
  `3954`). A retarget stamps live tokens with the ID of whoever has the profile's label
  at that moment, where the comment says "The id of the profile's org" (`oauth.ts:1652`):
  after another organisation took the label, a token stands under that one and not the
  profile's, against the rule its rotation keeps, "never derived from the label"
  (`oauth.ts:3545`). Such a token grants nothing, since its profile names another
  organisation (`lib/tokenRights.ts`), and its family ends with
  "organisation-mismatch" at the next refresh (`oauth.ts:3562`). `OrgOfProfile` leaves
  these rows out by `stray`.
- *Recurring tasks*: schedules with an ID key and a name key for the same agent are
  different buckets, and both may have an instance (`recurringTasks.ts:1017`).
- *Error monitor*: an entry counted before a poll died is counted again
  (`errorMonitor.ts:176`); the mission of a recurrence is never linked, since its
  title does not begin with `[Auto]` (`http.ts:351`), nor is one whose webhook comes
  before `linkIssue` (`errorMonitor.ts:286`); `autoResolved` is never reset
  (`errorMonitor.ts:424`). A filing that dies between its POST and `linkIssue` leaves a
  row that a later poll files again, so that one error has two issues
  (`errorMonitorActions.ts:279`). The model has these steps; no property counts issues,
  and `RecurrenceSound` is about what is declared, not about what is filed.
- *Deliverables*: a run schedules at most a hundred readings in the order of the list,
  and their cooldown of half an hour is over before the next run, so with more open
  deliverables the first hundred are read again every hour and the rest never
  (`taskDeliverable.ts:199`); `PublishedShows` is about the first. The older of two
  overlapping readings may be recorded last; a row renamed from one artifact to
  another and back takes a reading of the first.
- *Knowledge base*: an export that dies before it scheduled the deletion of its bundle
  leaves the bundle for good; the continuation of a deletion retires the chunks of a
  document that was ingested again meanwhile (`kbMutations.ts:654`); two ingests of a
  document at once leave the chunks of both.
- *Rooms and mail*: a renamed agent stalls its room, which can then only be closed
  (`debate.ts:901`); the creator of a room that also names them on a human seat
  cannot speak from the second (`lib/debateTemplate.ts:302`, `317`); a name given twice
  makes two receipts (against `schema.ts:259`); one instance's mark hides a shared
  receipt from another.

## 4. Fairness

What `ctx.scheduler.runAfter(0, ...)` scheduled in a committed mutation is executed
by the platform exactly once. That is the fairness assumed, and of people, callers
and outside services none is asked:

- `BulkDrain`: weak fairness of `Continue(r)` for each run. `DrainEnds` is about what
  remains when the bounded steps of others are used up: rows that keep arriving
  could keep a drain going for ever, in the model and in the code.
- `PersonGrants`: of `Continue`, the next batch of any revocation. `SeatGrants`
  (`FairSpec`): of the next page of a walk and the next batch of a family and of a
  cascade, each apart.
- `RecurringTasks`: of `CronTick` (`crons.ts` runs it on an interval) and of each
  `NextPage`. A page goes on from the cursor of the one before it, in a query whose upper
  bound `now` has moved since. That the platform accepts such a cursor and goes on behind
  it is assumed, and `HealthyRoutineServed` rests on it: if it were refused, a tick would
  end with its first page, and schedules behind a page of unreadable ones would not be
  served.
- `MCRooms`: of `RunJob`, and of each session's `CheckMessages` in the scene of the
  mail: a message is shown to an agent that keeps polling, and to no other.

- `Deliverables` (`RecheckFairness` of `MCAutomation`): weak fairness of the clock, of the
  listing and of its end; strong fairness of `ScheduleNext` and of each row's readings
  and records. Actions may be killed, and the assumption is that the same one is not
  killed every time it runs; `PublishedShows` is about a row that stays open and among
  the first of the list, and an artifact that stays published.

`Tasks`, `GitHubWebhook`, `ErrorMonitor` and `KnowledgeBase` state safety only. No caller is obliged to
call again, GitHub does not deliver again by itself, and a poll or a handler that
died is not retried, so that no fairness is justified under which something must
happen eventually.

## 5. The proofs

`tlapm M.tla` checks them; nothing is assumed but the named ASSUMEs of the modules,
which TLC evaluates in the runs. They hold for any sets of rows, callers,
organisations, deliveries and runs and any values of the bounds.

| Theorem | States |
|---|---|
| `TasksProofs!ClockTypeCorrect`, `TableTypeCorrect` | `Spec => []ClockTyped` and `Spec => []TypeOK` |
| `TasksProofs!SegmentsStayWellFormed`, `ClockStopsOnExit` | `Spec => []SegmentsWellFormed`, `Spec => []ClockRunsOnlyInProgress` |
| `TasksProofs!RecordedTimeStays` | `Spec => RecordedTimeKept` |
| `TasksProofs!BilledTimeElapsed` | `Spec => []BilledWithinElapsed` |
| `TasksProofs!OutsidersKeptOut`, `CompleteLeavesNothing`, `OwnersStayBelowCap` | `OutsiderKeptOut`, `CompleteClosesMission`, `OwnersHoldCap` |
| `TasksProofs!AppendsNeverCycle` | `AppendedStayAcyclic` |
| `TasksProofs!NobodyWaitsOnDone` | `CallSpec => []NoWaiterOnDone` |
| `BatchProofs!TypeCorrect`, `EndIsShown`, `ClosedIsCounted`, `OwnRowsOnly`, `CompleteIsDrained` | the type invariant and all safety properties of `BulkDrain` |
| `BatchProofs!LibraryIsSound`, `DeletionNeverStopsShort`, `ReingestsConverge` | `LibrarySound` (types included), `DeletionStaysScheduled`, `ReingestConverges` |
| `GitHubWebhookProofs!WebhookTypeCorrect` | `Spec => []TypeOK` |
| `GitHubWebhookProofs!WebhookIsOnce` | `Spec => EffectsOnce`: the webhook implements `OncePerKey` |
| `GitHubWebhookProofs!OneReviewPerPull`, `AuthorsDoNotReview` | `NoSecondReview`, `AuthorNeverReviews` |
| `GitHubWebhookProofs!RecurrencesAreMeasured` | `AlarmSpec => []RecurrenceSound` (types included) |
| `PersonGrantsProofs!TablesAreSound`, `FamiliesEnd`, `TriggersReachAll`, `ReplayEnds` | `GrantsSound` (types included), `FamilyEnds`, `TriggersReach`, `ReplayEndsFamily` |
| `PersonGrantsProofs!RedeemsOnce` | `RedeemedOnce`: a consent code implements `OncePerKey` |
| `SeatGrantsProofs!SeatTablesSound`, `RevocationsComplete` | `SeatsSound` (types included), `RevocationsReach` |
| `SeatGrantsProofs!TokensKeepTheirOrg` | `OrgOfProfile`, where no profile is renamed: through retargets, rotations and labels that change hands |
| `AutomationProofs!SchedulesTyped`, `OneOpenInstance` | `Spec => []TypeOK`, `Spec => NoSecondInstance` of `RecurringTasks` |
| `AutomationProofs!ShownWasPublished` | `DeliverablesSpec => []DeliverablesSound` (types included) |
| `RoomsProofs!RoomsAreSound` | `RoomsSpec => []TablesSound` (types included) |
| `RoomsProofs!RoomsGoOn` | `RoomsSpec => [][GoesOn]_vars`: rows, template and settings stay, the pointer does not go back, a stall and an end are final |
| `RoomsProofs!PagesPassNone` | `RoomsSpec => [][PassesNone]_vars`: no page of an inbox passes over an unread receipt |

An action formula cannot tell apart two doors that have the same effect. An action
property that names a door therefore speaks of every step that could be that door's,
and the theorem about it is the stronger for it.

**The clock.** `ClockInv` is `ClockTyped`, `SegmentsWellFormed` and
`ClockRunsOnlyInProgress` together, and none is inductive alone: `Resume` appends a
segment without looking for an open one, which keeps the array well formed
only because a paused row has none open, and a segment may be appended at `now`
only because none lies in the future. The first part of `TasksProofs` proves once
what `CloseTrailing`, `CloseOnExit`, a correction and an append do to a well-formed array;
the second shows of each action that it changes a row in one of those ways
(`RowKept`), and the four theorems follow.

**Bills.** A closure bills the total of a recursive function over the segments
(`TotalOf`). `TotalWithin` says that segments that lie side by side within an interval
add up to no more than the interval, by induction over the length of the array; since
the library's induction theorems cannot be instantiated here, the induction is written
out from the well-foundedness of `<` (`Upwards`). The rounding may add a minute
(`Minutes`), and `ClosureInv` carries the bound from the closure on, as time passes
and as attestations are added. `TableTypeCorrect` needs it too: what a closure stores
is a number because the segments it sums are closed. `RowsInv` is `ClockInv`,
`TableTyped` and `ClosureInv` together.

**Dependencies.** `ListsUsed` says that a row lists only identifiers that were handed
out. An insertion then closes no cycle, because nobody lists the new row; an addition
closes none because the code looks first. Acyclicity is stated with sets that
separate (a set of rows that nobody outside depends into), so that no path is built.
`OwnersStayBelowCap` counts a finite set of rows; the others are properties of one step
and `RowsInv`.

**Waiting.** `WaitInv` adds to `NoWaiterOnDone` that a link never names an unused
identifier: without it, a row created under an identifier somebody already waits
on could be born done. The theorem is about `CallSpec`, the callers alone; with bulk
closing or automation the property is false, which is what `claim_swept` shows.

**The drain.** `RunningIsScheduled` is inductive as soon as a scheduled
continuation is known to be arguments (`ArgsAssumption`) and serves the others: it
tells that a running run has the arguments its batches are judged by. The count needs
finiteness of `Task` and that `closed` grows by at least the rows whose note becomes
the run's.

**The knowledge base.** `DeletionInv` is that a chunk to retire is live and has a
continuation to come. A batch that is not full has taken everything; a batch that is
full schedules the next. That the first `n` of a finite set of rows are all of it or
are exactly `n` is `BatchIsFull`, by a bijection of the rows with their ranks.
`UploadsInv` counts: a blob an organisation claimed stands against a ticket it spent,
which was issued for the content and no later than the blob; a bundle is marked before it is bound
and stored before that, so that no bundle counts as a claim. `ReadsOwn` says that an ingest past its
check reads a blob of its own organisation. `IngestsInv` follows an undisturbed ingest:
after its listing and supersession the live chunks of the document are the ones it
inserted.

**The webhook.** `OnceInv` says that work which took effect still has its claim, or
that GitHub no longer offers the delivery (`Remembered`), and that a run only exists
while it does. The purge keeps it because `WindowDays <= RetentionDays`
(`LedgerAssumption`: "GitHub allows a delivery to be redelivered for 3 days; keep the
ledger 7"); a commit needs it to know that its effect is the first; and `Tick` needs
that no run outlives its day. The two review theorems rest on `InsertedBy`: a review
task comes from one place only.

**Recurrences.** `AlarmInv` says that an armed baseline stands right before a gap, and
past every recurrence declared before, so that a declaration disarms it; and that
filings, the poll and the resolver refer to rows, entries and issues that are there.
The set of kinds of error is finite, and bounds are numbers; nothing else is asked.

**Tokens.** `TokenTablesProofs` proves what both servers use: a page that is not full
is all of the index, and a page holds the first rows of it. `GrantInv` adds to
`OneLiveRefresh` that every token that was set out to be ended is covered: it is
revoked, or a batch of its family, its member or its agent is still scheduled. A batch
that ends the refresh tokens of a family reaches them all in its first page, because
`OneLiveRefresh` leaves one. For seats, `DoomedCovered` has three kinds of
cover: a walk over the client whose cursor is before the row, a batch of its family,
a cascade of its name. Rotations append behind every cursor, which is why a walk misses
none of them. `RootsSpent` keeps a rotation from bringing an ended family back.
`NamesInv` says that every profile a row or a request in flight names exists, and that
a row which is not stray has the organisation of its profile or none (`Fits`). A
retarget gives a row the holder of the profile's label and marks it when that is another
(`oauth.ts:1654`), the passing on of a label touches no row (`TakeLabelKeepsInv`), and a
rotation takes the organisation of its family only where the profile names no other:
this is what keeps a stray row's organisation from the rows minted after it. The hypothesis `"emergency" \notin Doors` excludes the
rename, under which it is false (section 3). Assumed are a finite set of requests,
codes that are not row numbers, and `Nothing` outside the sets it is compared with.

**Schedules.** `RoutineInv` is `TypeOK` and `Linked`: a schedule that inserted a task
remembers one, and every other task it inserted that is open was reopened by somebody.
The invariant of the page is `PageInv`, a statement about the state of the fold: a
bucket that was not cut short holds every open row under its key, those from before the
page and those the page has inserted since; no task inserted on the page is a second
one of its schedule. The proof of a page goes through `ServeOneKeeps` for each schedule.
That the two recursive functions are what their equations say is shown by building
them (`ServingExists`), and the schedules of a page are distinct because of
`FirstInOrder`.

**Deliverables.** `DeliveryInv` says that the registry remembers what it had and that a
reading under way says delivered of a published artifact only. Recording compares
artifacts, and naming another clears the reading.

**Rooms.** `TablesSound` says what a transcript is between transactions, and a transaction
does two or three things to a room: it writes the row of the turn, perhaps drops the seat,
then closes the room or moves the pointer. `Core(room, over)` is therefore stated with a
parameter, whether the turn at the pointer is over: the row takes `Core(room, FALSE)` to
`Core(room, TRUE)` (`AnsweredKeeps`, `SkippedKeeps`), and the end or the move of the pointer
takes that back to what holds of a room at rest (`ResolvedKeeps`). `RoundsWhole` is not
inductive alone. It needs that the rows of turns lie behind the pointer (`Placed`), else a
move could meet a seat's row of this round already there; that an active room waits for
a seat not dropped (`Waiting`); that only an agent is ever dropped (`Standing`); and the
settings and template the room was created with, still valid (`Shape`).

The bound on the rows is an argument of counting. `Paced` says that the turns so far are
no more than the rounds before this one, times the seats, plus the position; `Counted`
that each row is of a turn that is over, of a seat dropped, of a refusal within the cap or
of one of two notices. With what `validateSettings` asks this is at most `MaxTurnRows`,
and so at most `ReadBound` (`CoreFits`): `deliverTurn` never meets a room it cannot read.
That a seat's consecutive skips are counted right is `StreakAfter` and `StreakSkipped`.

`Kept(k, room, J)` joins a room with the jobs that are of it. A deadline among
the jobs is of a turn that has begun, and its delivery is done (`Owed`): this keeps a seat
from being skipped by a job left from before, because the turn number of a skip has
no job any more (`InTime`), and new jobs are of turns that no row has. A step changes one
room and its jobs; the other rooms keep theirs (`OtherJobs`). `InboxTyped` is proved on the
way, since a delivery is a message: a page is a subset of the receipts and its cursor one
of them. Assumed are a finite set of agents, natural bounds, and `Nothing` outside the
strings it is compared with.

**Pages.** `PassesNone` is the safety behind `ReadersServed`: between two pages of one
reader nothing is lost. The page is cut three ways, by what was fetched, by the count and
by the bytes, and each is shown to be a prefix of the unread receipts: the count because
what comes before an earlier receipt is a subset (`PageInOrder`), the bytes because a
subset has no more of them (`BytesGrow`; the running sum of the loop is again followed
along the naturals, `SumsGrow`). A page cut short hands on its greatest member, so
what it leaves is behind that. A page that hands on nothing has all that was fetched, and
no more than the limit, so nothing was left unfetched. It needs `ReceiptsFollow`,
an invariant of its own: `CheckMessages` drops a receipt whose message is gone without
showing it, and only the cascade of a deletion makes sure that no such receipt is unread.
With it, a page is empty only when nothing unread is behind its place. It also needs a limit of at least 1, to
which the code clamps it.

Only model-checked: every liveness property (`DrainEnds`, `RevocationDrains`,
`DoomedEnd`, `HealthyRoutineServed`, `PublishedShows`, `RoomEnds`, `ReadersServed`), since
neither fairness nor ENABLED is within the prover's reach, and the properties that a run
shows to be violated. Every safety property of a passing run has a theorem. The type
invariants of `BulkDrain` and `GitHubWebhook`, `RoomsGoOn` and `PagesPassNone`, are proved
and not run on their own.

## 6. What is not modelled

Within the modelled parts:

- *Tasks*: tenant visibility (one organisation), `claimedByInstance`, comments and
  issue links written by `complete`, the `take(100)` limits, migrations, wording.
- *Bulk*: the dry run, which writes nothing; the rendering of the note.
- *Webhook*: events that only send claimed messages or create claimed tasks
  (they add no step of another kind), the file list fetched after a merge,
  installation and ping events, the signature check, the backlog
  sweep of review tasks, more than one coordinator. `CascadeReview` does not carry the
  reviewer's name, which may be stale by then; the hazard is listed.
- *OAuth*: client registration, redirect URIs, PKCE, scopes and prefixes, the audit
  log, admin listings. A hash stands for its token. Edits of a profile that exists, which
  change its label or its ID in place (`upsertScopeProfile`, `oauth.ts:420`;
  `tenantOrgSeed.ts`), and of a mapping's permanent ID.
- *Recurring tasks*: skip counters, authorisation, several organisations.
- *Error monitor*: filter rules, fingerprints, administration. A kind of error is one
  value; GitHub is a list of issues, each open or closed.
- *Deliverables*: how a package is fetched from the registry and its exports are read;
  the answer is one of delivered, not found and unresolved.
- *Knowledge base*: the text of chunks, the vector index, what searches return, the
  listing of documents under a root. Used tickets are purged in the order they were
  issued. Of OKF bundles the life of an exported file only: import, validation and the
  durable workflow are left out.
- *Inbox*: replies and links across organisations, the fleet's own broadcast, readers
  by name, search, history, the backfill of tenants.
- *Debate*: the text of a turn is fit or not; the message frame and the voice fields.

The components of section 1 without a module are not modelled yet. Reports, dashboards and
migrations are not going to be: they read, or run once. The vector index, the
package registries and Clerk are external services.

## 7. Plan

What is left, in this order; each with its runs and, where the property is safety,
its theorem.

1. `Mandates`, `Licenses`: limits, one license per sale.
2. OKF import: a durable workflow resumed without doubling rows.
3. Extending the webhook (the merge and its deploy task, the backlog sweep, late
   `synchronize` and repeated `closed`) and the mail (links across organisations,
   readers by name).
