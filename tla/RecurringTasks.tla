--------------------------- MODULE RecurringTasks ---------------------------
(***************************************************************************)
(* Schedules that create a task at each of their times                     *)
(* (convex/recurringTasks.ts).                                             *)
(*                                                                         *)
(* A cron tick serves the schedules that are due, a page at a time; each   *)
(* page is one transaction and leaves the cursor of the next page to the   *)
(* scheduler.  Within a page the open tasks read for one schedule are      *)
(* kept for the later ones.  A cron expression is the time it leaves to    *)
(* the next run; one that cannot be parsed leaves none.  One organisation. *)
(***************************************************************************)
EXTENDS Integers, Sequences, FiniteSets, SequencesExt, Absence

CONSTANTS
  Routine,       \* rows of recurringTasks, in the order they were created
  Agent,         \* agents a task is assigned to
  Title,         \* titles of tasks
  Page,          \* PROCESS_DUE_PAGE
  LookupBound,   \* LEGACY_OPEN_LOOKUP_BOUND
  ScanBudget,    \* PROCESS_DUE_SCAN_BUDGET
  MaxNow,        \* bound: readings of the clock
  MaxTasks       \* bound: tasks added by hand

ASSUME ScheduleAssumption ==
  /\ Routine \subseteq Nat \ {0} /\ IsFiniteSet(Routine)
  /\ Page \in Nat \ {0} /\ LookupBound \in Nat \ {0} /\ ScanBudget \in Nat \ {0}
  /\ MaxNow \in Nat /\ MaxTasks \in Nat

VARIABLES
  now,
  routines,   \* the rows, Nothing where there is none
  tasks,      \* the task rows, in the order they were inserted
  pages       \* the cursors the scheduler was given

vars == <<now, routines, tasks, pages>>

OpenInstanceStatuses == <<"todo", "in_progress", "review", "blocked">>

Status == Range(OpenInstanceStatuses) \cup {"done", "deleted"}

\* every: the time from a run to the next; 0, an expression nothing can parse.
\* byId: the assignee is stored by ID too, as every schedule written today.
RoutineRow == [title : Title, to : Agent, byId : BOOLEAN, every : Nat, nextRunAt : Nat,
               active : BOOLEAN, lastTaskId : Nat]

\* from: the schedule that inserted the task, 0 for a caller; byId, how it was
\* keyed then.  reopened: it was open again after it was closed.
TaskRow == [title : Title, to : Agent, status : Status, updatedAt : Nat, from : Routine \cup {0},
            byId : BOOLEAN, reopened : BOOLEAN]

Cursor == [at : Nat, row : Nat]

TypeOK ==
  /\ now \in 0 .. MaxNow
  /\ routines \in [Routine -> RoutineRow \cup {Nothing}]
  /\ tasks \in Seq(TaskRow)
  /\ pages \subseteq Cursor /\ \A c \in pages : c.at <= now
  /\ \A r \in Routine : routines[r] # Nothing => routines[r].lastTaskId \in 0 .. Len(tasks)

Open(t) == tasks[t].status \in Range(OpenInstanceStatuses)

Init ==
  /\ now = 0 /\ tasks = <<>> /\ pages = {}
  /\ routines \in [Routine -> {Nothing} \cup
       {[title |-> s, to |-> a, byId |-> b, every |-> e, nextRunAt |-> 0, active |-> TRUE,
         lastTaskId |-> 0] : s \in Title, a \in Agent, b \in BOOLEAN, e \in {0, 1}}]

-----------------------------------------------------------------------------
(* The doors of a schedule.                                                *)

\* A row's identity is not used again.
Create(r, s, a, e) ==
  /\ routines[r] = Nothing /\ e > 0 /\ \A t \in DOMAIN tasks : tasks[t].from # r
  /\ routines' = [routines EXCEPT ![r] =
       [title |-> s, to |-> a, byId |-> TRUE, every |-> e, nextRunAt |-> now + e,
        active |-> TRUE, lastTaskId |-> 0]]
  /\ UNCHANGED <<now, tasks, pages>>

\* update with another title, another assignee, another expression.
Retitle(r, s) ==
  /\ routines[r] # Nothing /\ routines' = [routines EXCEPT ![r].title = s]
  /\ UNCHANGED <<now, tasks, pages>>

Reassign(r, a) ==
  /\ routines[r] # Nothing /\ routines' = [routines EXCEPT ![r].to = a, ![r].byId = TRUE]
  /\ UNCHANGED <<now, tasks, pages>>

Reschedule(r, e) ==
  /\ routines[r] # Nothing /\ e > 0
  /\ routines' = [routines EXCEPT ![r].every = e, ![r].nextRunAt = now + e]
  /\ UNCHANGED <<now, tasks, pages>>

Pause(r) ==
  /\ routines[r] # Nothing /\ routines' = [routines EXCEPT ![r].active = FALSE]
  /\ UNCHANGED <<now, tasks, pages>>

Resume(r) ==
  /\ routines[r] # Nothing /\ routines[r].every > 0
  /\ routines' = [routines EXCEPT ![r].active = TRUE, ![r].nextRunAt = now + routines[r].every]
  /\ UNCHANGED <<now, tasks, pages>>

Delete(r) ==
  /\ routines[r] # Nothing /\ routines' = [routines EXCEPT ![r] = Nothing]
  /\ UNCHANGED <<now, tasks, pages>>

-----------------------------------------------------------------------------
(* What callers do to tasks meanwhile.                                     *)

AddTask(s, a) ==
  /\ Cardinality({t \in DOMAIN tasks : tasks[t].from = 0}) < MaxTasks
  /\ tasks' = Append(tasks, [title |-> s, to |-> a, status |-> "todo", updatedAt |-> now,
                             from |-> 0, byId |-> TRUE, reopened |-> FALSE])
  /\ UNCHANGED <<now, routines, pages>>

MoveTask(t, st) ==
  /\ tasks[t].status # "deleted"
  /\ tasks' = [tasks EXCEPT ![t].status = st, ![t].updatedAt = now,
       ![t].reopened = @ \/ (tasks[t].status = "done" /\ st \in Range(OpenInstanceStatuses))]
  /\ UNCHANGED <<now, routines, pages>>

-----------------------------------------------------------------------------
(* One page of processDueTasks, folded over its schedules and, for each,   *)
(* over the open statuses it looks in.  The state of the fold: both        *)
(* tables, the buckets read so far, the rows they cost, and what was found *)
(* for the schedule at hand.                                               *)

\* by_assigneeId_status_updatedAt, or by_orgId_status where the schedule has
\* no ID; Nothing stands for the whole organisation.
KeyOf(row, st) == <<IF row.byId THEN row.to ELSE Nothing, st>>

Stored(s, key) ==
  {t \in DOMAIN s.tasks : s.tasks[t].status = key[2] /\ key[1] \in {Nothing, s.tasks[t].to}}

Earlier(s, key, t, u) ==
  LET at(x) == s.tasks[x].updatedAt IN
  IF key[1] = Nothing \/ at(t) = at(u) THEN t < u ELSE at(t) < at(u)

Taken(s, key, n) ==
  {t \in Stored(s, key) : Cardinality({u \in Stored(s, key) : Earlier(s, key, u, t)}) < n}

RowsLeft(s) == Min({LookupBound, ScanBudget - s.scanned})

WithBucket(buckets, key, b) ==
  [k \in DOMAIN buckets \cup {key} |-> IF k = key THEN b ELSE buckets[k]]

\* A bucket with no budget left for it is cut short, and not kept.
LoadBucket(s, key) ==
  LET rows == Taken(s, key, RowsLeft(s)) IN
  IF key \in DOMAIN s.buckets \/ RowsLeft(s) <= 0 THEN s
  ELSE [s EXCEPT !.scanned = @ + Cardinality(rows),
         !.buckets = WithBucket(@, key, [rows |-> rows, truncated |-> Cardinality(rows) >= RowsLeft(s)])]

Bucket(s, key) ==
  IF key \in DOMAIN s.buckets THEN s.buckets[key] ELSE [rows |-> {}, truncated |-> TRUE]

\* findOpenInstance in one status, for a schedule without lastTaskId.
Look(s, r, st) ==
  LET row == s.routines[r]
      key == KeyOf(row, st)
      loaded == LoadBucket(s, key)
      matches == {t \in Bucket(loaded, key).rows : s.tasks[t].title = row.title}
  IN
  IF row.every = 0 \/ row.lastTaskId # 0 \/ s.found # 0 THEN s
  ELSE [loaded EXCEPT
         !.found = IF matches = {} THEN 0
                   ELSE CHOOSE t \in matches : \A u \in matches : t = u \/ Earlier(s, key, t, u),
         !.unknown = @ \/ Bucket(loaded, key).truncated]

\* Variant: the new task is not shown to the later schedules of the page.
Forgotten(buckets, key, t) == buckets

\* A bucket of "todo" already read in this page shows the new task.
Remembered(buckets, key, t) ==
  [k \in DOMAIN buckets |->
     IF k = key THEN [buckets[k] EXCEPT !.rows = @ \cup {t}] ELSE buckets[k]]

Skip(s, r) ==
  [s EXCEPT !.routines[r].nextRunAt = now + s.routines[r].every,
            !.routines[r].lastTaskId = IF s.found = 0 THEN @ ELSE s.found]

Insert(s, r) ==
  LET row == s.routines[r]
      t == Len(s.tasks) + 1
  IN [s EXCEPT
       !.tasks = Append(@, [title |-> row.title, to |-> row.to, status |-> "todo",
                            updatedAt |-> now, from |-> r, byId |-> row.byId,
                            reopened |-> FALSE]),
       !.buckets = Remembered(@, KeyOf(row, "todo"), t),
       !.routines[r].nextRunAt = now + row.every,
       !.routines[r].lastTaskId = t]

InstanceOpen(s, r) ==
  LET last == s.routines[r].lastTaskId IN
  IF last # 0 THEN s.tasks[last].status \in Range(OpenInstanceStatuses)
  ELSE s.found # 0 \/ s.unknown

\* An expression nothing can parse raises before anything is written, and
\* only for its own row.
Decide(s, r) ==
  LET served == IF s.routines[r].every = 0 THEN s
                ELSE IF InstanceOpen(s, r) THEN Skip(s, r) ELSE Insert(s, r)
  IN [served EXCEPT !.found = 0, !.unknown = FALSE]

\* The statuses of one schedule, and then the schedules of the page, one after
\* the other: each step starts from what the last one left.
ServeOne(s, r) ==
  LET looked[j \in 0 .. Len(OpenInstanceStatuses)] ==
        IF j = 0 THEN s
        ELSE CHOOSE u \in {Look(t, r, OpenInstanceStatuses[j]) : t \in {looked[j - 1]}} : TRUE
  IN CHOOSE u \in {Decide(t, r) : t \in {looked[Len(OpenInstanceStatuses)]}} : TRUE

Serve(begun, page) ==
  LET served[i \in 0 .. Len(page)] ==
        IF i = 0 THEN begun
        ELSE CHOOSE u \in {ServeOne(t, page[i]) : t \in {served[i - 1]}} : TRUE
  IN served[Len(page)]

Before(a, b) == a.at < b.at \/ (a.at = b.at /\ a.row < b.row)

PositionOf(r) == [at |-> routines[r].nextRunAt, row |-> r]

Due(r) == routines[r] # Nothing /\ routines[r].active /\ routines[r].nextRunAt <= now

Start == [at |-> 0, row |-> 0]

\* Variant: the next page is read from the start again.
FromTheStart(page) == Start

\* Variant: the position is read after the row was rescheduled.
Rescheduled(page) ==
  [at |-> now + routines[Last(page)].every, row |-> Last(page)]

ContinueCursor(page) == PositionOf(Last(page))

\* The first of the due rows, in the order of the index by_active.
FirstInOrder(due, page) ==
  \A i \in DOMAIN page :
    {q \in due : Before(PositionOf(q), PositionOf(page[i]))} = {page[j] : j \in 1 .. i - 1}

\* processDueTasks(cursor); whether Convex takes a cursor of an earlier now is
\* left to it.
ServePage(cursor, rest) ==
  LET due == {r \in Routine : Due(r) /\ Before(cursor, PositionOf(r))}
      begun == [tasks |-> tasks, routines |-> routines, buckets |-> <<>>, scanned |-> 0,
                found |-> 0, unknown |-> FALSE]
  IN
  \E page \in [1 .. Min({Cardinality(due), Page}) -> due] :
    /\ FirstInOrder(due, page)
    /\ \E done \in {Serve(begun, page)} :
         tasks' = done.tasks /\ routines' = done.routines
    /\ pages' = rest \cup (IF Cardinality(due) > Page THEN {ContinueCursor(page)} ELSE {})
  /\ UNCHANGED now

CronTick == ServePage(Start, pages)

NextPage(cursor) == cursor \in pages /\ ServePage(cursor, pages \ {cursor})

Tick == now < MaxNow /\ now' = now + 1 /\ UNCHANGED <<routines, tasks, pages>>

-----------------------------------------------------------------------------
Next ==
  \/ \E r \in Routine :
       \/ \E s \in Title :
            \/ Retitle(r, s)
            \/ \E a \in Agent, e \in 1 .. 2 : Create(r, s, a, e)
       \/ \E a \in Agent : Reassign(r, a)
       \/ \E e \in 1 .. 2 : Reschedule(r, e)
       \/ Pause(r) \/ Resume(r) \/ Delete(r)
  \/ \E s \in Title, a \in Agent : AddTask(s, a)
  \/ \E t \in DOMAIN tasks, st \in Status : MoveTask(t, st)
  \/ CronTick
  \/ \E cursor \in pages : NextPage(cursor)
  \/ Tick

Spec == Init /\ [][Next]_vars

\* The cron ticks and the scheduler runs the pages it was given.
FairSpec ==
  Spec /\ WF_vars(CronTick) /\ \A c \in [at : 0 .. MaxNow, row : Routine] : WF_vars(NextPage(c))

-----------------------------------------------------------------------------
(* Properties.                                                             *)

Inserted(t) == t > Len(tasks) /\ tasks'[t].from # 0

\* "ONE OPEN INSTANCE PER ROUTINE" (recurringTasks.ts:942): the task a tick
\* inserts stands beside no open task the same schedule inserted before, and
\* where it is the schedule's first, beside no open one of its title and
\* assignee, one inserted earlier in the same page included.  A reopened task
\* is not counted, nor one inserted by a schedule keyed otherwise.
NoSecondInstance ==
  [][\A t \in DOMAIN tasks' : Inserted(t) =>
       LET r == tasks'[t].from IN
       ~\E u \in 1 .. t - 1 :
          /\ tasks'[u].status \in Range(OpenInstanceStatuses)
          /\ \/ tasks'[u].from = r /\ ~tasks'[u].reopened
             \/ /\ routines[r].lastTaskId = 0
                /\ tasks'[u].title = tasks'[t].title /\ tasks'[u].to = tasks'[t].to
                /\ u > Len(tasks) => tasks'[u].byId = tasks'[t].byId]_vars

\* A due schedule with an expression that can be parsed is served, paused,
\* moved or removed in the end, however many rows before it never can be.
Served(r) == ~Due(r) \/ routines[r].every = 0

HealthyRoutineServed == \A r \in Routine : Due(r) /\ routines[r].every > 0 ~> Served(r)
=============================================================================
