---------------------------- MODULE Deliverables ----------------------------
(***************************************************************************)
(* The artifact a task claims to deliver (convex/taskDeliverable*.ts): a   *)
(* row names a package's export, a scheduled action asks the registry and  *)
(* records what it read, and a cron asks again for the rows still open.    *)
(*                                                                         *)
(* Resolutions and the cron are actions: they may die before any of their  *)
(* steps, and resolutions overlap and end in any order.  A cron never runs *)
(* twice at once.  Rows are numbered in the order of their insertion.      *)
(***************************************************************************)
EXTENDS Integers, Sequences, FiniteSets, SequencesExt, Absence

CONSTANTS
  Task,               \* task IDs, 1 .. n
  Artifact,           \* {pkg, export} pairs
  RECHECK_MAX_PER_RUN,
  RECHECK_SCAN_PER_STATUS,
  Cooldown,           \* RECHECK_COOLDOWN_MS
  Interval,           \* the hour between two runs of the cron
  MaxJobs             \* bound: resolutions scheduled or running at once

VARIABLES
  registry,           \* what a reading of the registry would find now
  everPublished,      \* the artifacts it has ever had
  inserted,           \* how many rows there have ever been
  board,              \* the rows, Nothing where there is none
  jobs,               \* scheduled and running resolveTaskDeliverable
  recheck,            \* the cron's run under way
  sinceRecheck        \* time since it began, up to Interval

deliverableVars == <<registry, everPublished, inserted, board, jobs, recheck, sinceRecheck>>

RECHECK_STATUSES == <<"todo", "in_progress", "review", "blocked", "failed">>

RowStatus == ToSet(RECHECK_STATUSES) \cup {"done", "cancelled"}

State == {"delivered", "not_found", "unresolved"}

ASSUME DeliverablesAssumption ==
  /\ IsFiniteSet(Task) /\ Task = 1 .. Cardinality(Task)
  /\ Cooldown \in Nat /\ Interval \in Nat /\ MaxJobs \in Nat
  /\ Nothing \notin Artifact \cup State

\* age: the time since checkedAt, up to Cooldown.
Reading == [state : State, age : 0 .. Cooldown]

BoardRow == [status : RowStatus, deliverable : Artifact \cup {Nothing},
             deliverableState : Reading \cup {Nothing}]

\* read: what the registry answered.
Job == [task : Task, deliverable : Artifact, read : State \cup {Nothing}]

\* place: how many were listed before it.
Candidate == [place : Nat, task : Task, deliverable : Artifact, age : 0 .. Cooldown \cup {Nothing}]

Recheck == [left : SUBSET Candidate, scheduled : Nat]

DeliverablesTyped ==
  /\ registry \in [Artifact -> State] /\ everPublished \subseteq Artifact
  /\ inserted \in 0 .. Cardinality(Task)
  /\ board \in [Task -> BoardRow \cup {Nothing}]
  /\ jobs \in [1 .. MaxJobs -> Job \cup {Nothing}]
  /\ recheck \in Recheck \cup {Nothing}
  /\ sinceRecheck \in 0 .. Interval
  /\ \A t \in Task : board[t] # Nothing =>
       (board[t].deliverableState # Nothing => board[t].deliverable # Nothing)

DeliverablesInit ==
  /\ registry = [d \in Artifact |-> "not_found"] /\ everPublished = {}
  /\ inserted = 0 /\ board = [t \in Task |-> Nothing]
  /\ jobs = [j \in 1 .. MaxJobs |-> Nothing]
  /\ recheck = Nothing /\ sinceRecheck = 0

-----------------------------------------------------------------------------
(* The registry, whose latest version may have lost an export again, and   *)
(* the clock.                                                              *)

Registry(d, s) ==
  /\ registry[d] # s /\ registry' = [registry EXCEPT ![d] = s]
  /\ everPublished' = everPublished \cup {a \in {d} : s = "delivered"}
  /\ UNCHANGED <<inserted, board, jobs, recheck, sinceRecheck>>

Older(row) ==
  IF row = Nothing \/ row.deliverableState = Nothing \/ row.deliverableState.age = Cooldown
  THEN row ELSE [row EXCEPT !.deliverableState.age = @ + 1]

TimePasses ==
  /\ board' = [t \in Task |-> Older(board[t])]
  /\ sinceRecheck' = IF sinceRecheck < Interval THEN sinceRecheck + 1 ELSE Interval
  /\ UNCHANGED <<registry, everPublished, inserted, jobs, recheck>>

-----------------------------------------------------------------------------
(* The doors of a task.                                                    *)

FreeSlots == {j \in DOMAIN jobs : jobs[j] = Nothing}

Schedule(t, d) ==
  /\ FreeSlots # {}
  /\ \E j \in FreeSlots :
       /\ \A i \in FreeSlots : j <= i
       /\ jobs' = [jobs EXCEPT ![j] = [task |-> t, deliverable |-> d, read |-> Nothing]]

\* An ID is not used again.
CreateTask(t, d) ==
  /\ t = inserted + 1 /\ inserted' = t
  /\ board' = [board EXCEPT ![t] =
       [status |-> "todo", deliverable |-> d, deliverableState |-> Nothing]]
  /\ IF d = Nothing THEN UNCHANGED jobs ELSE Schedule(t, d)
  /\ UNCHANGED <<registry, everPublished, recheck, sinceRecheck>>

\* Variant: the reading of the artifact named before is kept.
Renamed(row, d) == [row EXCEPT !.deliverable = d]

WithDeliverable(row, d) == [row EXCEPT !.deliverable = d, !.deliverableState = Nothing]

\* Naming the artifact already named changes nothing.
SetDeliverable(t, d) ==
  /\ board[t] # Nothing /\ board[t].deliverable # d
  /\ board' = [board EXCEPT ![t] = WithDeliverable(@, d)] /\ Schedule(t, d)
  /\ UNCHANGED <<registry, everPublished, inserted, recheck, sinceRecheck>>

MoveRow(t, s) ==
  /\ board[t] # Nothing /\ board' = [board EXCEPT ![t].status = s]
  /\ UNCHANGED <<registry, everPublished, inserted, jobs, recheck, sinceRecheck>>

DeleteRow(t) ==
  /\ board[t] # Nothing /\ board' = [board EXCEPT ![t] = Nothing]
  /\ UNCHANGED <<registry, everPublished, inserted, jobs, recheck, sinceRecheck>>

-----------------------------------------------------------------------------
(* A resolution.                                                           *)

\* Every failure to read is "unresolved".
ReadDeliverable(j) ==
  /\ jobs[j] # Nothing /\ jobs[j].read = Nothing
  /\ jobs' = [jobs EXCEPT ![j].read = registry[jobs[j].deliverable]]
  /\ UNCHANGED <<registry, everPublished, inserted, board, recheck, sinceRecheck>>

\* Variant: any row that is there takes the reading.
AnyRow(row, job) == row # Nothing

SameDeliverable(row, job) == row # Nothing /\ row.deliverable = job.deliverable

RecordDeliverableState(j) ==
  LET job == jobs[j] IN
  /\ job # Nothing /\ job.read # Nothing
  /\ jobs' = [jobs EXCEPT ![j] = Nothing]
  /\ board' = IF SameDeliverable(board[job.task], job)
              THEN [board EXCEPT ![job.task].deliverableState = [state |-> job.read, age |-> 0]]
              ELSE board
  /\ UNCHANGED <<registry, everPublished, inserted, recheck, sinceRecheck>>

JobDies(j) ==
  /\ jobs[j] # Nothing /\ jobs' = [jobs EXCEPT ![j] = Nothing]
  /\ UNCHANGED <<registry, everPublished, inserted, board, recheck, sinceRecheck>>

-----------------------------------------------------------------------------
(* The cron.                                                               *)

StillOpen(t) == board[t] # Nothing /\ board[t].status \in ToSet(RECHECK_STATUSES)

StatusIndex(t) == CHOOSE i \in DOMAIN RECHECK_STATUSES : RECHECK_STATUSES[i] = board[t].status

\* Among the newest of its status.
Scanned(t) ==
  StillOpen(t) /\ Cardinality({q \in Task : q > t /\ StillOpen(q) /\ board[q].status = board[t].status})
               < RECHECK_SCAN_PER_STATUS

OpenDeliverables == {t \in Task : Scanned(t) /\ board[t].deliverable # Nothing}

ListedBefore(q, t) ==
  StatusIndex(q) < StatusIndex(t) \/ (StatusIndex(q) = StatusIndex(t) /\ q > t)

Listed(t) ==
  [place |-> Cardinality({q \in OpenDeliverables : ListedBefore(q, t)}),
   task |-> t, deliverable |-> board[t].deliverable,
   age |-> IF board[t].deliverableState = Nothing THEN Nothing ELSE board[t].deliverableState.age]

Candidates == {Listed(t) : t \in OpenDeliverables}

ListOpenDeliverables ==
  /\ recheck = Nothing /\ sinceRecheck = Interval /\ sinceRecheck' = 0
  /\ recheck' = [left |-> Candidates, scheduled |-> 0]
  /\ UNCHANGED <<registry, everPublished, inserted, board, jobs>>

\* Variant: the comparison is the wrong way round.
DueWhenFresh(c) == c.age = Nothing \/ c.age < Cooldown

DueAgain(c) == c.age = Nothing \/ c.age >= Cooldown

ScheduleNext ==
  /\ recheck # Nothing /\ recheck.scheduled < RECHECK_MAX_PER_RUN
  /\ \E c \in recheck.left :
       /\ \A d \in recheck.left : c.place <= d.place
       /\ IF DueAgain(c)
          THEN /\ Schedule(c.task, c.deliverable)
               /\ recheck' = [left |-> recheck.left \ {c}, scheduled |-> recheck.scheduled + 1]
          ELSE recheck' = [recheck EXCEPT !.left = @ \ {c}] /\ UNCHANGED jobs
  /\ UNCHANGED <<registry, everPublished, inserted, board, sinceRecheck>>

RecheckEnds ==
  /\ recheck # Nothing
  /\ recheck.left = {} \/ recheck.scheduled >= RECHECK_MAX_PER_RUN
  /\ recheck' = Nothing
  /\ UNCHANGED <<registry, everPublished, inserted, board, jobs, sinceRecheck>>

RecheckDies ==
  /\ recheck # Nothing /\ recheck' = Nothing
  /\ UNCHANGED <<registry, everPublished, inserted, board, jobs, sinceRecheck>>

-----------------------------------------------------------------------------
DeliverablesNext ==
  \/ \E d \in Artifact, s \in State : Registry(d, s)
  \/ TimePasses
  \/ \E t \in Task :
       \/ \E d \in Artifact \cup {Nothing} : CreateTask(t, d)
       \/ \E d \in Artifact : SetDeliverable(t, d)
       \/ \E s \in RowStatus : MoveRow(t, s)
       \/ DeleteRow(t)
  \/ \E j \in DOMAIN jobs : ReadDeliverable(j) \/ RecordDeliverableState(j) \/ JobDies(j)
  \/ ListOpenDeliverables \/ ScheduleNext \/ RecheckEnds \/ RecheckDies

DeliverablesSpec == DeliverablesInit /\ [][DeliverablesNext]_deliverableVars

-----------------------------------------------------------------------------
(* Properties.                                                             *)

\* A row that shows its artifact delivered names one the registry has had:
\* a reading is never shown beside another artifact than the one it was
\* taken for, however resolutions and changes of the row overlap
\* (recordDeliverableState, update).
DeliveredWasPublished ==
  \A t \in Task : board[t] # Nothing /\ board[t].deliverableState # Nothing =>
    (board[t].deliverableState.state = "delivered" => board[t].deliverable \in everPublished)

\* The tables as they should be, and DeliveredWasPublished.
DeliverablesSound == DeliverablesTyped /\ DeliveredWasPublished

\* Among the first the cron would schedule.
Near(t) ==
  /\ t \in OpenDeliverables
  /\ Cardinality({q \in OpenDeliverables : ListedBefore(q, t)}) < RECHECK_MAX_PER_RUN

Shows(t, s) ==
  board[t] # Nothing /\ board[t].deliverableState # Nothing /\ board[t].deliverableState.state = s

\* An open row among the first of the scan, whose artifact is published
\* and stays so, ends up shown delivered for good: a reading that was
\* lost, or overwritten by an older one, is taken again
\* (recheckOpenDeliverables).
PublishedIsShown(t, d) ==
  <>[](Near(t) /\ board[t].deliverable = d /\ registry[d] = "delivered")
    => <>[]Shows(t, "delivered")
=============================================================================
