----------------------------- MODULE TasksProofs -----------------------------
(***************************************************************************)
(* What the runs of Tasks check, for any number of tasks, agents, callers  *)
(* and segments and any configuration:                                     *)
(*                                                                         *)
(*  - the recorded time of every task is well formed, and stays as         *)
(*    recorded.  ClockInv is inductive; it leaves out the columns that the *)
(*    clock does not read.                                                 *)
(*  - nobody is left blocked on a task a caller closed.  NoWaiterOnDone    *)
(*    alone is not inductive: a new row could be inserted blocked, or      *)
(*    done, under links that already exist, so WaitInv adds that a link    *)
(*    belongs to, and names, a used row.                                   *)
(*  - every row is typed, and no closure bills more than has passed.       *)
(*    RowsInv is ClockInv, the types of the other columns and a bound on   *)
(*    what a closure computed: the segments that it adds up lie side by    *)
(*    side before the present, so their sum is not more than the present.  *)
(*  - the last completion closes the mission with nothing left open, the   *)
(*    doors that count never exceed the cap, additions to a list of        *)
(*    dependencies never close a cycle, and an agent reaches a row it has  *)
(*    no part in only through the doors open to everyone.                  *)
(***************************************************************************)
EXTENDS Tasks, FiniteSetTheorems, TLAPS

-----------------------------------------------------------------------------
(* What each operation on the segments of one task preserves.              *)

\* The columns of one segment of an array.
LEMMA SegmentAt ==
  ASSUME NEW segs \in Seq(Segment), NEW i \in 1..Len(segs)
  PROVE  /\ segs[i] \in Segment
         /\ segs[i].start \in Nat
         /\ segs[i].end \in Nat \/ segs[i].end = Undefined
<1>1. segs[i] \in Segment
  OBVIOUS
<1> QED BY <1>1 DEF Segment, OptTime

\* The empty array.
LEMMA NoSegments ==
  ASSUME NEW at \in Nat
  PROVE  /\ <<>> \in Seq(Segment)
         /\ WellFormed(<<>>, at)
         /\ ~HasOpenSegment(<<>>)
  BY DEF WellFormed, HasOpenSegment

\* Time passes, and an array left alone is as good as before.
LEMMA LaterLemma ==
  ASSUME NEW segs \in Seq(Segment), NEW at \in Nat, NEW later \in Nat,
         at <= later, WellFormed(segs, at)
  PROVE  WellFormed(segs, later) /\ Trimmed(segs, segs)
<1>1. WellFormed(segs, later)
  <2>1. ASSUME NEW i \in 1..Len(segs)
        PROVE  /\ segs[i].start <= later
               /\ segs[i].end # Undefined => segs[i].end <= later
    BY SegmentAt DEF WellFormed
  <2> QED BY <2>1 DEF WellFormed
<1>2. Trimmed(segs, segs)
  BY SegmentAt DEF Trimmed
<1> QED BY <1>1, <1>2

\* Opening a segment on an array without an open one (start, resume).
LEMMA OpenSegmentLemma ==
  ASSUME NEW segs \in Seq(Segment), NEW at \in Nat,
         WellFormed(segs, at), ~HasOpenSegment(segs)
  PROVE  /\ OpenSegment(segs, at) \in Seq(Segment)
         /\ WellFormed(OpenSegment(segs, at), at)
         /\ Trimmed(segs, OpenSegment(segs, at))
         /\ Len(OpenSegment(segs, at)) = Len(segs) + 1
<1> DEFINE seg == [start |-> at, end |-> Undefined, corrected |-> FALSE]
           new == Append(segs, seg)
<1>1. seg \in Segment
  BY DEF Segment, OptTime
<1>2. /\ new \in Seq(Segment) /\ Len(new) = Len(segs) + 1
      /\ new[Len(new)] = seg /\ \A i \in 1..Len(segs) : new[i] = segs[i]
  BY <1>1
<1>3. OpenSegment(segs, at) = new
  BY DEF OpenSegment
<1> HIDE DEF new
<1>4. ASSUME NEW i \in 1..Len(new) - 1
      PROVE  new[i].end # Undefined /\ new[i].end <= new[i + 1].start
  <2>1. CASE i < Len(segs)
    BY <2>1, <1>2 DEF WellFormed
  <2>2. CASE i = Len(segs)
    <3>1. segs # <<>> /\ segs[i].end # Undefined
      BY <2>2, <1>2 DEF HasOpenSegment
    <3>2. segs[i].end <= at
      BY <3>1, <1>2, <2>2 DEF WellFormed
    <3> QED BY <3>1, <3>2, <2>2, <1>2
  <2> QED BY <2>1, <2>2, <1>2
<1>5. ASSUME NEW i \in 1..Len(new)
      PROVE  /\ new[i].start <= at
             /\ new[i].corrected => new[i].end # Undefined
             /\ new[i].end # Undefined =>
                  new[i].start <= new[i].end /\ new[i].end <= at
  <2>1. CASE i <= Len(segs)
    BY <2>1, <1>2 DEF WellFormed
  <2>2. CASE i = Len(new)
    BY <2>2, <1>2
  <2> QED BY <2>1, <2>2, <1>2
<1>6. WellFormed(new, at)
  BY <1>4, <1>5 DEF WellFormed
<1>7. Trimmed(segs, new)
  <2>1. ASSUME NEW i \in DOMAIN segs
        PROVE  new[i] = segs[i] /\ segs[i].start <= segs[i].start
               /\ (segs[i].end # Undefined => segs[i].end <= segs[i].end)
    BY <1>2, SegmentAt
  <2> QED BY <2>1, <1>2 DEF Trimmed
<1> QED BY <1>2, <1>3, <1>6, <1>7

\* Ending the trailing segment (pause and the completion gate).
LEMMA CloseTrailingLemma ==
  ASSUME NEW segs \in Seq(Segment), NEW at \in Nat, WellFormed(segs, at)
  PROVE  /\ CloseTrailing(segs, at) \in Seq(Segment)
         /\ WellFormed(CloseTrailing(segs, at), at)
         /\ ~HasOpenSegment(CloseTrailing(segs, at))
         /\ Trimmed(segs, CloseTrailing(segs, at))
<1> DEFINE n == Len(segs)
           new == CloseTrailing(segs, at)
<1>1. CASE ~HasOpenSegment(segs)
  <2>1. new = segs
    BY <1>1 DEF CloseTrailing
  <2>2. Trimmed(segs, segs)
    BY SegmentAt DEF Trimmed
  <2> QED BY <1>1, <2>1, <2>2
<1>2. CASE HasOpenSegment(segs)
  <2> DEFINE seg == [segs[n] EXCEPT !.end = at]
  <2>1. n \in 1..Len(segs) /\ segs[n].end = Undefined
    BY <1>2 DEF HasOpenSegment
  <2>2. /\ seg \in Segment
        /\ seg.start = segs[n].start /\ seg.end = at
        /\ seg.corrected = segs[n].corrected
    BY <2>1, SegmentAt DEF Segment, OptTime
  <2>3. new = [segs EXCEPT ![n] = seg]
    BY <1>2 DEF CloseTrailing
  <2> HIDE DEF seg
  <2>4. /\ new \in Seq(Segment) /\ Len(new) = n
        /\ new[n] = seg /\ \A i \in 1..n : i # n => new[i] = segs[i]
    BY <2>1, <2>2, <2>3
  <2> HIDE DEF new
  <2>5. seg.start <= at
    BY <2>1, <2>2 DEF WellFormed
  <2>6. ~segs[n].corrected
    BY <2>1 DEF WellFormed
  <2>7. ASSUME NEW i \in 1..n
        PROVE  /\ new[i].start = segs[i].start
               /\ segs[i].end # Undefined => new[i] = segs[i]
               /\ new[i].end # Undefined => new[i].end <= at /\ segs[i].start <= new[i].end
               /\ new[i].corrected => new[i].end # Undefined
    BY <2>1, <2>2, <2>4, <2>5, <2>6, SegmentAt DEF WellFormed
  <2>8. WellFormed(new, at)
    BY <2>1, <2>4, <2>7 DEF WellFormed
  <2>9. ~HasOpenSegment(new)
    BY <2>2, <2>4, SegmentsAssumption DEF HasOpenSegment
  <2>10. Trimmed(segs, new)
    <3>1. ASSUME NEW i \in DOMAIN segs
          PROVE  /\ segs[i].start <= new[i].start
                 /\ segs[i].end # Undefined => /\ new[i].end # Undefined
                                               /\ new[i].end <= segs[i].end
                 /\ segs[i].corrected => new[i] = segs[i]
      <4>1. i \in 1..n
        OBVIOUS
      <4> QED BY <4>1, <2>4, <2>6, <2>7, SegmentAt
    <3> QED BY <3>1, <2>4 DEF Trimmed
  <2> QED BY <2>4, <2>8, <2>9, <2>10 DEF new
<1> QED BY <1>1, <1>2

\* An exit from in_progress ends the segment; any other move keeps the array
\* (update, blockTask, failTask and the automated closers).
LEMMA CloseOnExitLemma ==
  ASSUME NEW segs \in Seq(Segment), NEW at \in Nat, WellFormed(segs, at),
         NEW from, NEW to, HasOpenSegment(segs) => from = "in_progress"
  PROVE  /\ CloseOnExit(segs, from, to, at) \in Seq(Segment)
         /\ WellFormed(CloseOnExit(segs, from, to, at), at)
         /\ Trimmed(segs, CloseOnExit(segs, from, to, at))
         /\ HasOpenSegment(CloseOnExit(segs, from, to, at)) =>
              HasOpenSegment(segs) /\ to = "in_progress"
<1>1. Trimmed(segs, segs)
  BY SegmentAt DEF Trimmed
<1> QED BY <1>1, CloseTrailingLemma DEF CloseOnExit

\* A correction stays inside the segment it replaces.
LEMMA CorrectedLemma ==
  ASSUME NEW segs \in Seq(Segment), NEW at \in Nat, WellFormed(segs, at),
         NEW i \in DOMAIN segs, NEW from \in 0..at, NEW to \in 0..at,
         ~segs[i].corrected, from < to, Within(segs[i], from, to, at)
  PROVE  /\ Corrected(segs, i, from, to) \in Seq(Segment)
         /\ WellFormed(Corrected(segs, i, from, to), at)
         /\ Trimmed(segs, Corrected(segs, i, from, to))
         /\ HasOpenSegment(Corrected(segs, i, from, to)) => HasOpenSegment(segs)
<1> DEFINE n == Len(segs)
           seg == [start |-> from, end |-> to, corrected |-> TRUE]
           new == Corrected(segs, i, from, to)
<1>1. i \in 1..n /\ to # Undefined /\ to \in Nat /\ from \in Nat
  BY SegmentsAssumption
<1>2. seg \in Segment
  BY <1>1 DEF Segment, OptTime
<1>3. /\ new \in Seq(Segment) /\ Len(new) = n
      /\ new[i] = seg /\ \A j \in 1..n : j # i => new[j] = segs[j]
  BY <1>1, <1>2 DEF Corrected
<1> HIDE DEF new
<1>4. /\ segs[i].start <= from
      /\ segs[i].end # Undefined => to <= segs[i].end
  BY DEF Within
<1>5. ASSUME NEW j \in 1..n
      PROVE  /\ new[j] \in Segment
             /\ segs[j].start <= new[j].start
             /\ segs[j].end # Undefined => /\ new[j].end # Undefined
                                           /\ new[j].end <= segs[j].end
             /\ new[j].start <= at
             /\ new[j].corrected => new[j].end # Undefined
             /\ new[j].end # Undefined => new[j].start <= new[j].end /\ new[j].end <= at
             /\ segs[j].corrected => new[j] = segs[j]
  <2>1. CASE j = i
    BY <2>1, <1>1, <1>2, <1>3, <1>4
  <2>2. CASE j # i
    BY <2>2, <1>3, SegmentAt DEF WellFormed
  <2> QED BY <2>1, <2>2
<1>6. ASSUME NEW j \in 1..n - 1
      PROVE  new[j].end # Undefined /\ new[j].end <= new[j + 1].start
  <2>1. j \in 1..n /\ j + 1 \in 1..n
    OBVIOUS
  <2>2. segs[j].end # Undefined /\ segs[j].end <= segs[j + 1].start
    BY DEF WellFormed
  <2>3. /\ new[j].end # Undefined /\ new[j].end <= segs[j].end
        /\ segs[j + 1].start <= new[j + 1].start
    BY <2>1, <2>2, <1>5
  <2>4. /\ new[j].end \in Nat /\ segs[j].end \in Nat
        /\ segs[j + 1].start \in Nat /\ new[j + 1].start \in Nat
    BY <2>1, <2>2, <2>3, <1>3, SegmentAt
  <2> QED BY <2>2, <2>3, <2>4
<1>7. WellFormed(new, at)
  BY <1>3, <1>5, <1>6 DEF WellFormed
<1>8. Trimmed(segs, new)
  BY <1>3, <1>5 DEF Trimmed
<1>9. HasOpenSegment(new) => HasOpenSegment(segs)
  BY <1>1, <1>3, <1>5 DEF HasOpenSegment
<1> QED BY <1>3, <1>7, <1>8, <1>9 DEF new

-----------------------------------------------------------------------------
(* The recorded time of every row.                                         *)

ClockInv == ClockTyped /\ SegmentsWellFormed /\ ClockRunsOnlyInProgress

\* What a step may do to the recorded time of one row.
TimeKept(t) ==
  Exists(t) /\ Exists(t)' =>
    \/ Trimmed(workSegments[t], workSegments'[t])
    \/ Claimed(t) /\ Len(workSegments'[t]) = 1

\* The conjuncts of ClockInv' that speak of row t, and TimeKept.
RowKept(t) ==
  /\ workSegments'[t] \in Seq(Segment)
  /\ WellFormed(workSegments'[t], now')
  /\ HasOpenSegment(workSegments'[t]) =>
       status'[t] = "in_progress" /\ pausedAt'[t] = Undefined
  /\ TimeKept(t)

\* The columns ClockInv reads keep their types.
ColumnsTyped ==
  /\ now' \in Nat
  /\ status' \in [Task -> Status \cup NoRow]
  /\ startedAt' \in [Task -> OptTime]
  /\ pausedAt' \in [Task -> OptTime]
  /\ \E f \in [Task -> Seq(Segment)] : workSegments' = f

\* ClockInv for row t alone.
LEMMA ClockInvAt ==
  ASSUME ClockInv, NEW t \in Task
  PROVE  /\ workSegments[t] \in Seq(Segment)
         /\ WellFormed(workSegments[t], now)
         /\ HasOpenSegment(workSegments[t]) =>
              status[t] = "in_progress" /\ pausedAt[t] = Undefined
         /\ now \in Nat /\ status[t] \in Status \cup NoRow
         /\ pausedAt[t] \in OptTime
  BY DEF ClockInv, ClockTyped, SegmentsWellFormed, ClockRunsOnlyInProgress

\* Row by row gives the invariant.
LEMMA FromRows ==
  ASSUME ColumnsTyped, \A t \in Task : RowKept(t)
  PROVE  ClockInv' /\ \A t \in Task : TimeKept(t)
  BY DEF ColumnsTyped, RowKept, ClockInv, ClockTyped, SegmentsWellFormed,
         ClockRunsOnlyInProgress

\* A row whose array is left alone, and whose clock either stands still or
\* keeps its status.
LEMMA Untouched ==
  ASSUME ClockInv, NEW t \in Task,
         now' \in Nat, now <= now', workSegments'[t] = workSegments[t],
         \/ ~HasOpenSegment(workSegments[t])
         \/ status'[t] = status[t] /\ pausedAt'[t] = pausedAt[t]
  PROVE  RowKept(t)
<1>1. /\ workSegments[t] \in Seq(Segment) /\ WellFormed(workSegments[t], now)
      /\ now \in Nat
  BY ClockInvAt
<1>2. WellFormed(workSegments[t], now') /\ Trimmed(workSegments[t], workSegments[t])
  BY <1>1, LaterLemma
<1> QED BY <1>1, <1>2, ClockInvAt DEF RowKept, TimeKept

\* A row moved to another status with its segment ended on the way out.
LEMMA Exited ==
  ASSUME ClockInv, NEW t \in Task, NEW to,
         now' = now, status'[t] = to, pausedAt'[t] = pausedAt[t],
         workSegments'[t] = CloseOnExit(workSegments[t], status[t], to, now)
  PROVE  RowKept(t)
  BY ClockInvAt, CloseOnExitLemma DEF RowKept, TimeKept

\* A row whose trailing segment is ended whatever its status.
LEMMA Ended ==
  ASSUME ClockInv, NEW t \in Task,
         now' = now, workSegments'[t] = CloseTrailing(workSegments[t], now)
  PROVE  RowKept(t)
  BY ClockInvAt, CloseTrailingLemma DEF RowKept, TimeKept

\* A row whose clock is started, on top of what is recorded.
LEMMA Opened ==
  ASSUME ClockInv, NEW t \in Task, ~HasOpenSegment(workSegments[t]),
         now' = now, status'[t] = "in_progress", pausedAt'[t] = Undefined,
         workSegments'[t] = OpenSegment(workSegments[t], now)
  PROVE  RowKept(t)
  BY ClockInvAt, OpenSegmentLemma DEF RowKept, TimeKept
-----------------------------------------------------------------------------
(* One lemma per family of actions. *)

StepKept == ColumnsTyped /\ \A t \in Task : RowKept(t)

\* Steps that leave status, pausedAt and every array alone.
LEMMA QuietStep ==
  ASSUME ClockInv, now' \in Nat, now <= now', startedAt' \in [Task -> OptTime],
         UNCHANGED <<status, pausedAt, workSegments>>
  PROVE  StepKept
<1>1. ColumnsTyped
  BY DEF ColumnsTyped, ClockInv, ClockTyped
<1>2. ASSUME NEW t \in Task PROVE RowKept(t)
  BY Untouched
<1> QED BY <1>1, <1>2 DEF StepKept

LEMMA TickStep == ASSUME ClockInv, Tick PROVE StepKept
<1>1. now' \in Nat /\ now <= now' /\ startedAt' \in [Task -> OptTime]
      /\ UNCHANGED <<status, pausedAt, workSegments>>
  BY DEF Tick, ClockInv, ClockTyped, timeVars
<1> QED BY <1>1, QuietStep

\* Steps on the other columns.
LEMMA ColumnStep ==
  ASSUME ClockInv, UNCHANGED <<now, status, timeVars>>
  PROVE  StepKept
<1>1. now' \in Nat /\ now <= now' /\ startedAt' \in [Task -> OptTime]
      /\ UNCHANGED <<status, pausedAt, workSegments>>
  BY DEF ClockInv, ClockTyped, timeVars
<1> QED BY <1>1, QuietStep

LEMMA TypedStep ==
  ASSUME ClockInv, NEW t \in Task, NEW c, UpdateTyped(t, c)
  PROVE  StepKept
<1>1. now' = now /\ UNCHANGED <<status, pausedAt, workSegments>>
  BY DEF UpdateTyped
<1>2. startedAt' \in [Task -> OptTime]
  BY TasksAssumption DEF UpdateTyped, ClockInv, ClockTyped, OptTime
<1>3. now' \in Nat /\ now <= now'
  BY <1>1 DEF ClockInv, ClockTyped
<1> QED BY <1>1, <1>2, <1>3, QuietStep

\* A new row has no recorded time.
LEMMA InsertStep ==
  ASSUME ClockInv, NEW t \in Task, status[t] = "absent", NEW s \in Status,
         status' = [status EXCEPT ![t] = s], UNCHANGED <<now, timeVars>>
  PROVE  StepKept
<1>1. ColumnsTyped
  BY DEF ColumnsTyped, ClockInv, ClockTyped, timeVars
<1>2. ASSUME NEW x \in Task PROVE RowKept(x)
  <2>1. /\ now' \in Nat /\ now <= now' /\ workSegments'[x] = workSegments[x]
        /\ pausedAt'[x] = pausedAt[x]
    BY DEF ClockInv, ClockTyped, timeVars
  <2>2. x = t => ~HasOpenSegment(workSegments[x])
    BY ClockInvAt
  <2>3. x # t => status'[x] = status[x]
    BY DEF ClockInv, ClockTyped
  <2> QED BY <2>1, <2>2, <2>3, Untouched
<1> QED BY <1>1, <1>2 DEF StepKept

LEMMA CreateStep ==
  ASSUME ClockInv, NEW t \in Task,
         CreateByAutomation(t) \/ \E c \in Caller : Create(t, c)
  PROVE  StepKept
<1>1. CASE CreateByAutomation(t)
  <2>1. "todo" \in Status
    BY DEF Status, OpenStatus
  <2> QED BY <1>1, <2>1, InsertStep DEF CreateByAutomation
<1>2. CASE \E c \in Caller : Create(t, c)
  <2>1. PICK c \in Caller : Create(t, c)
    BY <1>2
  <2>2. PICK s \in Status : status' = [status EXCEPT ![t] = s]
    BY <2>1 DEF Create
  <2> QED BY <2>1, <2>2, InsertStep DEF Create
<1> QED BY <1>1, <1>2

LEMMA DeleteStep ==
  ASSUME ClockInv, NEW t \in Task, NEW c, DeleteTask(t, c)
  PROVE  StepKept
<1>1. ColumnsTyped
  BY NoSegments DEF DeleteTask, ColumnsTyped, ClockInv, ClockTyped, NoRow, OptTime
<1>2. ASSUME NEW x \in Task PROVE RowKept(x)
  <2>1. CASE x = t
    <3>1. workSegments'[t] = <<>> /\ ~Exists(t)' /\ now' \in Nat
      BY DEF DeleteTask, ClockInv, ClockTyped, Exists, NoRow
    <3> QED BY <2>1, <3>1, NoSegments DEF RowKept, TimeKept
  <2>2. CASE x # t
    BY <2>2, Untouched DEF DeleteTask, ClockInv, ClockTyped
  <2> QED BY <2>1, <2>2
<1> QED BY <1>1, <1>2 DEF StepKept

LEMMA StartStep ==
  ASSUME ClockInv, NEW t \in Task, NEW c, Start(t, c)
  PROVE  StepKept
<1>1. ColumnsTyped
  BY ClockInvAt, OpenSegmentLemma
  DEF Start, ColumnsTyped, ClockInv, ClockTyped, Status, OpenStatus, OptTime
<1>2. ASSUME NEW x \in Task PROVE RowKept(x)
  <2>1. CASE x = t
    BY <2>1, Opened DEF Start, ClockInv, ClockTyped
  <2>2. CASE x # t
    BY <2>2, Untouched DEF Start, ClockInv, ClockTyped
  <2> QED BY <2>1, <2>2
<1> QED BY <1>1, <1>2 DEF StepKept

LEMMA PauseStep ==
  ASSUME ClockInv, NEW t \in Task, NEW c, Pause(t, c)
  PROVE  StepKept
<1>1. ColumnsTyped
  BY ClockInvAt, CloseTrailingLemma
  DEF Pause, ColumnsTyped, ClockInv, ClockTyped, Status, OpenStatus, OptTime
<1>2. ASSUME NEW x \in Task PROVE RowKept(x)
  <2>1. CASE x = t
    BY <2>1, Ended DEF Pause, ClockInv, ClockTyped
  <2>2. CASE x # t
    BY <2>2, Untouched DEF Pause, ClockInv, ClockTyped
  <2> QED BY <2>1, <2>2
<1> QED BY <1>1, <1>2 DEF StepKept

\* resume looks for no open segment: the invariant says that a paused row
\* has none.
LEMMA ResumeStep ==
  ASSUME ClockInv, NEW t \in Task, NEW c, Resume(t, c)
  PROVE  StepKept
<1>1. ~HasOpenSegment(workSegments[t])
  BY ClockInvAt DEF Resume
<1>2. ColumnsTyped
  BY <1>1, ClockInvAt, OpenSegmentLemma
  DEF Resume, ColumnsTyped, ClockInv, ClockTyped, Status, OpenStatus, OptTime
<1>3. ASSUME NEW x \in Task PROVE RowKept(x)
  <2>1. CASE x = t
    BY <1>1, <2>1, Opened DEF Resume, ClockInv, ClockTyped
  <2>2. CASE x # t
    BY <2>2, Untouched DEF Resume, ClockInv, ClockTyped
  <2> QED BY <2>1, <2>2
<1> QED BY <1>2, <1>3 DEF StepKept

LEMMA CheckoutStep ==
  ASSUME ClockInv, NEW t \in Task, NEW c, Checkout(t, c)
  PROVE  StepKept
<1> DEFINE new == OpenSegment(<<>>, now)
<1>1. now \in Nat
  BY DEF ClockInv, ClockTyped
<1>2. /\ new \in Seq(Segment) /\ WellFormed(new, now)
      /\ Len(new) = 1
  <2>1. Len(<<>>) = 0
    OBVIOUS
  <2>2. /\ <<>> \in Seq(Segment) /\ WellFormed(<<>>, now)
        /\ ~HasOpenSegment(<<>>)
    BY <1>1, NoSegments
  <2>3. /\ new \in Seq(Segment) /\ WellFormed(new, now)
        /\ Len(new) = Len(<<>>) + 1
    BY <1>1, <2>2, OpenSegmentLemma
  <2> QED BY <2>1, <2>3
<1> HIDE DEF new
<1>3. /\ status' = [status EXCEPT ![t] = "in_progress"]
      /\ workSegments' = [workSegments EXCEPT ![t] = new]
      /\ startedAt' = [startedAt EXCEPT ![t] = now]
      /\ now' = now /\ pausedAt' = pausedAt
      /\ status[t] = "todo" /\ pausedAt[t] = Undefined
  BY DEF Checkout, new
<1>4. ColumnsTyped
  BY <1>1, <1>2, <1>3
  DEF ColumnsTyped, ClockInv, ClockTyped, Status, OpenStatus, OptTime
<1>5. ASSUME NEW x \in Task PROVE RowKept(x)
  <2>1. CASE x = t
    BY <1>2, <1>3, <2>1 DEF RowKept, TimeKept, Claimed, ClockInv, ClockTyped
  <2>2. CASE x # t
    BY <1>3, <2>2, Untouched DEF ClockInv, ClockTyped
  <2> QED BY <2>1, <2>2
<1> QED BY <1>4, <1>5 DEF StepKept

LEMMA CorrectSegmentStep ==
  ASSUME ClockInv, NEW t \in Task, NEW c, CorrectSegment(t, c)
  PROVE  StepKept
<1>1. PICK i \in DOMAIN workSegments[t], from \in 0..now, to \in 0..now :
        /\ ~workSegments[t][i].corrected
        /\ from < to
        /\ Within(workSegments[t][i], from, to, now)
        /\ workSegments' =
             [workSegments EXCEPT ![t] = Corrected(workSegments[t], i, from, to)]
  BY DEF CorrectSegment
<1> DEFINE new == Corrected(workSegments[t], i, from, to)
<1>2. /\ new \in Seq(Segment) /\ WellFormed(new, now)
      /\ Trimmed(workSegments[t], new)
      /\ HasOpenSegment(new) => HasOpenSegment(workSegments[t])
  BY <1>1, ClockInvAt, CorrectedLemma
<1> HIDE DEF new
<1>3. /\ workSegments' = [workSegments EXCEPT ![t] = new]
      /\ UNCHANGED <<now, status, startedAt, pausedAt>>
  BY <1>1 DEF CorrectSegment, new
<1>4. ColumnsTyped
  BY <1>2, <1>3 DEF ColumnsTyped, ClockInv, ClockTyped
<1>5. ASSUME NEW x \in Task PROVE RowKept(x)
  <2>1. CASE x = t
    BY <1>2, <1>3, <2>1, ClockInvAt DEF RowKept, TimeKept, ClockInv, ClockTyped
  <2>2. CASE x # t
    BY <1>3, <2>2, Untouched DEF ClockInv, ClockTyped
  <2> QED BY <2>1, <2>2
<1> QED BY <1>4, <1>5 DEF StepKept

LEMMA ClockStep ==
  ASSUME ClockInv, NEW t \in Task, NEW c, Clock(t, c)
  PROVE  StepKept
  BY StartStep, PauseStep, ResumeStep, CheckoutStep, CorrectSegmentStep DEF Clock

\* A row leaves its status, its segment ended if it was in progress: block,
\* fail, cancel and the plain status change of update.
LEMMA ExitStep ==
  ASSUME ClockInv, NEW t \in Task, NEW to \in Status,
         status' = [status EXCEPT ![t] = to],
         workSegments' =
           [workSegments EXCEPT ![t] = CloseOnExit(@, status[t], to, now)],
         UNCHANGED <<now, startedAt, pausedAt>>
  PROVE  StepKept
<1>1. ColumnsTyped
  BY ClockInvAt, CloseOnExitLemma DEF ColumnsTyped, ClockInv, ClockTyped
<1>2. ASSUME NEW x \in Task PROVE RowKept(x)
  <2>1. CASE x = t
    BY <2>1, Exited DEF ClockInv, ClockTyped
  <2>2. CASE x # t
    BY <2>2, Untouched DEF ClockInv, ClockTyped
  <2> QED BY <2>1, <2>2
<1> QED BY <1>1, <1>2 DEF StepKept

LEMMA BlockStep ==
  ASSUME ClockInv, NEW t \in Task, NEW c, Block(t, c)
  PROVE  StepKept
<1>1. \E l : MarkBlocked(t, l)
  BY DEF Block, BlockOnTask, BlockOnNobody
<1>2. "blocked" \in Status
  BY DEF Status, OpenStatus
<1> QED BY <1>1, <1>2, ExitStep DEF MarkBlocked

LEMMA FailStep ==
  ASSUME ClockInv, NEW t \in Task, NEW c, FailTask(t, c)
  PROVE  StepKept
<1>1. "failed" \in Status
  BY DEF Status
<1> QED BY <1>1, ExitStep DEF FailTask

LEMMA CancelStep ==
  ASSUME ClockInv, NEW t \in Task, NEW c, UpdateCancel(t, c)
  PROVE  StepKept
<1>1. "cancelled" \in Status
  BY DEF Status
<1> QED BY <1>1, ExitStep DEF UpdateCancel

LEMMA StatusStep ==
  ASSUME ClockInv, NEW t \in Task, NEW c, UpdateStatus(t, c)
  PROVE  StepKept
<1>1. PICK s \in {"todo", "in_progress", "review"} :
        /\ status' = [status EXCEPT ![t] = s]
        /\ workSegments' =
             [workSegments EXCEPT ![t] = CloseOnExit(@, status[t], s, now)]
  BY DEF UpdateStatus
<1>2. s \in Status /\ UNCHANGED <<now, startedAt, pausedAt>>
  BY DEF Status, OpenStatus, UpdateStatus
<1> QED BY <1>1, <1>2, ExitStep

\* Rows in S have their segment ended and may change status; of the others,
\* only blocked ones change status (the sweep).
LEMMA CloseStep ==
  ASSUME ClockInv, NEW S \in SUBSET Task,
         status' \in [Task -> Status \cup NoRow],
         EndRecordedTime(S), UNCHANGED <<now, startedAt, pausedAt>>,
         \A x \in Task \ S : status[x] = "blocked" \/ status'[x] = status[x]
  PROVE  StepKept
<1>1. ColumnsTyped
  BY ClockInvAt, CloseTrailingLemma
  DEF EndRecordedTime, ColumnsTyped, ClockInv, ClockTyped
<1>2. ASSUME NEW x \in Task PROVE RowKept(x)
  <2>1. CASE x \in S
    BY <2>1, Ended DEF EndRecordedTime
  <2>2. CASE x \notin S
    BY <2>2, ClockInvAt, Untouched DEF EndRecordedTime, ClockInv, ClockTyped
  <2> QED BY <2>1, <2>2
<1> QED BY <1>1, <1>2 DEF StepKept

LEMMA DoneStep ==
  ASSUME ClockInv, NEW t \in Task, DoneAndSweep(t), EndRecordedTime({t}),
         UNCHANGED <<now, startedAt, pausedAt>>
  PROVE  StepKept
<1>1. status' \in [Task -> Status \cup NoRow]
  BY DEF DoneAndSweep, ClockInv, ClockTyped, Status, OpenStatus
<1>2. \A x \in Task \ {t} : status[x] = "blocked" \/ status'[x] = status[x]
  BY DEF DoneAndSweep, Waiters
<1>3. {t} \in SUBSET Task
  OBVIOUS
<1> QED BY <1>1, <1>2, <1>3, CloseStep

LEMMA BulkStep ==
  ASSUME ClockInv, NEW c, BulkComplete(c)
  PROVE  StepKept
<1>1. PICK S \in SUBSET Task :
        /\ status' = [x \in Task |-> IF x \in S THEN "done" ELSE status[x]]
        /\ EndRecordedTime(S) /\ UNCHANGED <<now, startedAt, pausedAt>>
  BY DEF BulkComplete
<1>2. /\ status' \in [Task -> Status \cup NoRow]
      /\ \A x \in Task \ S : status'[x] = status[x]
  BY <1>1 DEF ClockInv, ClockTyped, Status
<1> QED BY <1>1, <1>2, CloseStep

LEMMA AutomationStep ==
  ASSUME ClockInv, NEW S \in SUBSET Task, CloseByAutomation(S)
  PROVE  StepKept
<1>1. ColumnsTyped
  BY ClockInvAt, CloseOnExitLemma
  DEF CloseByAutomation, ColumnsTyped, ClockInv, ClockTyped, Status
<1>2. ASSUME NEW x \in Task PROVE RowKept(x)
  <2>1. CASE x \in S
    BY <2>1, Exited DEF CloseByAutomation, ClockInv, ClockTyped
  <2>2. CASE x \notin S
    BY <2>2, Untouched DEF CloseByAutomation, ClockInv, ClockTyped
  <2> QED BY <2>1, <2>2
<1> QED BY <1>1, <1>2 DEF StepKept
-----------------------------------------------------------------------------
LEMMA UpdateStep ==
  ASSUME ClockInv, NEW t \in Task, NEW c, Update(t, c)
  PROVE  StepKept
<1>1. CASE UpdateStatus(t, c)
  BY <1>1, StatusStep
<1>2. CASE UpdateDone(t, c)
  BY <1>2, DoneStep DEF UpdateDone
<1>3. CASE UpdateCancel(t, c)
  BY <1>3, CancelStep
<1>4. CASE \E a \in Agent : UpdateAssignee(t, c, a)
  BY <1>4, ColumnStep DEF UpdateAssignee
<1>5. CASE UpdateLinks(t, c)
  BY <1>5, ColumnStep DEF UpdateLinks
<1>6. CASE ReplaceDependsOn(t, c)
  BY <1>6, ColumnStep DEF ReplaceDependsOn
<1>7. CASE \E A \in SUBSET Task : AddDependsOn(t, c, A)
  BY <1>7, ColumnStep DEF AddDependsOn
<1>8. CASE UpdateTyped(t, c)
  BY <1>8, TypedStep
<1> QED BY <1>1, <1>2, <1>3, <1>4, <1>5, <1>6, <1>7, <1>8 DEF Update

LEMMA CallStep ==
  ASSUME ClockInv, NEW t \in Task, NEW c \in Caller, Call(t, c)
  PROVE  StepKept
<1>1. CASE Create(t, c)
  BY <1>1, CreateStep
<1>2. CASE DeleteTask(t, c)
  BY <1>2, DeleteStep
<1>3. CASE Clock(t, c)
  BY <1>3, ClockStep
<1>4. CASE Block(t, c)
  BY <1>4, BlockStep
<1>5. CASE Update(t, c)
  BY <1>5, UpdateStep
<1>6. CASE Complete(t, c)
  BY <1>6, DoneStep DEF Complete
<1>7. CASE FailTask(t, c)
  BY <1>7, FailStep
<1>8. CASE AttachReviewArtifact(t, c)
  BY <1>8, ColumnStep DEF AttachReviewArtifact
<1> QED BY <1>1, <1>2, <1>3, <1>4, <1>5, <1>6, <1>7, <1>8 DEF Call

LEMMA AutomaticStep ==
  ASSUME ClockInv, Automation
  PROVE  StepKept
<1>1. CASE \E t \in Task : CreateByAutomation(t)
  BY <1>1, CreateStep
<1>2. CASE \E S \in SUBSET Task : CloseMatched(S)
  BY <1>2, AutomationStep DEF CloseMatched
<1>3. CASE \E m \in Mission : CascadeCloseMission(m)
  <2>1. PICK m \in Mission : CascadeCloseMission(m)
    BY <1>3
  <2>2. InMission(m, OpenStatus) \in SUBSET Task
    BY DEF InMission
  <2> QED BY <2>1, <2>2, AutomationStep DEF CascadeCloseMission
<1>4. CASE \E m \in Mission : ResolveStaleMission(m)
  <2>1. PICK m \in Mission : ResolveStaleMission(m)
    BY <1>4
  <2>2. InMission(m, {"todo", "in_progress"}) \in SUBSET Task
    BY DEF InMission
  <2> QED BY <2>1, <2>2, AutomationStep DEF ResolveStaleMission
<1>5. CASE \E m \in Mission : UpdateMission(m)
  BY <1>5, ColumnStep DEF UpdateMission
<1> QED BY <1>1, <1>2, <1>3, <1>4, <1>5 DEF Automation

\* Every step of the system, callers' and automation's.
LEMMA NextKept ==
  ASSUME ClockInv, Next
  PROVE  StepKept
<1>1. CASE Tick
  BY <1>1, TickStep
<1>2. CASE \E c \in Caller, t \in Task : Call(t, c)
  BY <1>2, CallStep
<1>3. CASE \E c \in Caller : BulkComplete(c)
  BY <1>3, BulkStep
<1>4. CASE Automation
  BY <1>4, AutomaticStep
<1> QED BY <1>1, <1>2, <1>3, <1>4 DEF Next

LEMMA InitClockInv == Init => ClockInv
<1> SUFFICES ASSUME Init PROVE ClockInv
  OBVIOUS
<1>1. \A t \in Task : workSegments[t] = <<>>
  BY DEF Init, Fresh
<1>2. ClockTyped
  BY NoSegments DEF Init, Fresh, ClockTyped, NoRow, OptTime
<1> QED BY <1>1, <1>2, NoSegments
        DEF ClockInv, SegmentsWellFormed, ClockRunsOnlyInProgress, Init, Fresh

LEMMA ClockInvInductive == ClockInv /\ [Next]_vars => ClockInv'
<1> SUFFICES ASSUME ClockInv, [Next]_vars PROVE ClockInv'
  OBVIOUS
<1>1. CASE Next
  BY <1>1, NextKept, FromRows DEF StepKept
<1>2. CASE UNCHANGED vars
  <2>1. UNCHANGED <<now, status, timeVars>>
    BY <1>2 DEF vars, timeVars
  <2> QED BY <2>1, ColumnStep, FromRows DEF StepKept
<1> QED BY <1>1, <1>2

\* ClockInv holds in every reachable state.
THEOREM ClockSafe == Spec => []ClockInv
  BY InitClockInv, ClockInvInductive, PTL DEF Spec

\* The columns the clock reads keep their types, whatever callers do
\* (convex/tasks.ts, every mutation).
THEOREM ClockTypeCorrect == Spec => []ClockTyped
<1>1. ClockInv => ClockTyped
  BY DEF ClockInv
<1> QED BY <1>1, ClockSafe, PTL

\* Billed spans never overlap and none lies in the future.
THEOREM SegmentsStayWellFormed == Spec => []SegmentsWellFormed
<1>1. ClockInv => SegmentsWellFormed
  BY DEF ClockInv
<1> QED BY <1>1, ClockSafe, PTL

\* No door leaves a clock running on a row that is not in progress.
THEOREM ClockStopsOnExit == Spec => []ClockRunsOnlyInProgress
<1>1. ClockInv => ClockRunsOnlyInProgress
  BY DEF ClockInv
<1> QED BY <1>1, ClockSafe, PTL

\* Recorded time is only appended to or trimmed, but for checkout's claim.
THEOREM RecordedTimeStays == Spec => RecordedTimeKept
<1>1. ClockInv /\ [Next]_vars =>
        [\A t \in Task : Exists(t) /\ Exists(t)' =>
           \/ Trimmed(workSegments[t], workSegments'[t])
           \/ Claimed(t) /\ Len(workSegments'[t]) = 1]_vars
  BY NextKept, FromRows DEF StepKept, TimeKept
<1> QED BY <1>1, ClockSafe, PTL DEF Spec, RecordedTimeKept

-----------------------------------------------------------------------------
(* Nobody waits on a task that a caller has closed.                        *)

StatusTyped == status \in [Task -> Status \cup NoRow]
WaitingTyped == waiting \in [Task -> Waiting]

\* A row not yet inserted waits for nothing, and nothing waits for it.
NoLinkUnused ==
  \A w, b \in Task : waiting[w].on = b => Used(w) /\ Used(b)

WaitInv == StatusTyped /\ WaitingTyped /\ NoLinkUnused /\ NoWaiterOnDone

\* Steps that change no link and make no row done, blocked or unused.
LEMMA StatusOnly ==
  ASSUME WaitInv, StatusTyped', UNCHANGED waiting,
         \A t \in Task : \/ status'[t] = status[t]
                         \/ status'[t] \notin {"done", "blocked", "absent"}
  PROVE  WaitInv'
<1>1. NoLinkUnused'
  BY DEF WaitInv, NoLinkUnused, Used
<1>2. NoWaiterOnDone'
  BY DEF WaitInv, NoWaiterOnDone
<1> QED BY <1>1, <1>2 DEF WaitInv, WaitingTyped

\* Steps on other columns.
LEMMA NoStatus ==
  ASSUME WaitInv, UNCHANGED <<status, waiting>>
  PROVE  WaitInv'
  BY StatusOnly DEF WaitInv, StatusTyped

\* Steps that move the status of one row, not to done or blocked.
LEMMA OneStatus ==
  ASSUME WaitInv, NEW t \in Task, NEW s \in Status \ {"done", "blocked"},
         status' = [status EXCEPT ![t] = s], UNCHANGED waiting
  PROVE  WaitInv'
<1>1. StatusTyped'
  BY DEF WaitInv, StatusTyped
<1>2. s # "absent"
  BY DEF Status, OpenStatus
<1> QED BY <1>1, <1>2, StatusOnly DEF WaitInv, StatusTyped

\* Insertion, with any status: the row is in no link yet.
LEMMA InsertWait ==
  ASSUME WaitInv, NEW t \in Task, NEW c, Create(t, c)
  PROVE  WaitInv'
<1>1. PICK s \in Status : status' = [status EXCEPT ![t] = s]
  BY DEF Create
<1>2. status[t] = "absent" /\ waiting' = waiting
  BY DEF Create
<1>3. StatusTyped'
  BY <1>1 DEF WaitInv, StatusTyped
<1>4. s # "absent"
  BY DEF Status, OpenStatus
<1>5. \A w, b \in Task : waiting[w].on = b => w # t /\ b # t
  BY <1>2 DEF WaitInv, NoLinkUnused, Used
<1>6. NoLinkUnused'
  BY <1>1, <1>2, <1>4, <1>5 DEF WaitInv, StatusTyped, NoLinkUnused, Used
<1>7. NoWaiterOnDone'
  BY <1>1, <1>2, <1>5 DEF WaitInv, StatusTyped, NoWaiterOnDone
<1> QED BY <1>2, <1>3, <1>6, <1>7 DEF WaitInv, WaitingTyped

\* Deletion: the row's link goes with it, the links to it stay.
LEMMA DeleteWait ==
  ASSUME WaitInv, NEW t \in Task, NEW c, DeleteTask(t, c)
  PROVE  WaitInv'
<1>1. /\ status' = [status EXCEPT ![t] = "deleted"]
      /\ waiting' = [waiting EXCEPT ![t] = NoWaiting]
  BY DEF DeleteTask
<1>2. NoWaiting \in Waiting /\ NoWaiting.on = Undefined /\ Undefined \notin Task
  BY TasksAssumption DEF NoWaiting, Waiting
<1>3. StatusTyped' /\ WaitingTyped'
  BY <1>1, <1>2 DEF WaitInv, StatusTyped, WaitingTyped, NoRow
<1>4. NoLinkUnused'
  BY <1>1, <1>2 DEF WaitInv, StatusTyped, WaitingTyped, NoLinkUnused, Used
<1>5. NoWaiterOnDone'
  BY <1>1, <1>2 DEF WaitInv, StatusTyped, WaitingTyped, NoWaiterOnDone
<1> QED BY <1>3, <1>4, <1>5 DEF WaitInv

\* A block names an existing task that is not done, or nothing.
LEMMA BlockWait ==
  ASSUME WaitInv, NEW t \in Task, NEW c, Block(t, c)
  PROVE  WaitInv'
<1>1. PICK l \in Waiting :
        /\ status' = [status EXCEPT ![t] = "blocked"]
        /\ waiting' = [waiting EXCEPT ![t] = l]
        /\ \A b \in Task : l.on = b => Used(b) /\ status[b] # "done"
        /\ Exists(t)
  <2>1. CASE BlockOnNobody(t, c)
    <3> DEFINE l == [on |-> Undefined, nobody |-> TRUE]
    <3>1. l \in Waiting /\ \A b \in Task : l.on # b
      BY TasksAssumption DEF Waiting
    <3> QED BY <2>1, <3>1 DEF BlockOnNobody, MarkBlocked
  <2>2. CASE \E b \in Task : BlockOnTask(t, c, b)
    <3>1. PICK b \in Task : BlockOnTask(t, c, b)
      BY <2>2
    <3> DEFINE l == [on |-> b, nobody |-> FALSE]
    <3>2. l \in Waiting /\ l.on = b
      BY DEF Waiting
    <3>3. Used(b) /\ status[b] # "done"
      BY <3>1 DEF BlockOnTask, Exists, Used, NoRow
    <3> QED BY <3>1, <3>2, <3>3 DEF BlockOnTask, MarkBlocked
  <2> QED BY <2>1, <2>2 DEF Block
<1>2. StatusTyped' /\ WaitingTyped'
  BY <1>1 DEF WaitInv, StatusTyped, WaitingTyped, Status, OpenStatus
<1>3. NoLinkUnused'
  BY <1>1 DEF WaitInv, StatusTyped, WaitingTyped, NoLinkUnused, Used
<1>4. NoWaiterOnDone'
  BY <1>1 DEF WaitInv, StatusTyped, WaitingTyped, NoWaiterOnDone
<1> QED BY <1>2, <1>3, <1>4 DEF WaitInv

\* Closing: every row blocked on t goes back to todo with t.
LEMMA DoneWait ==
  ASSUME WaitInv, NEW t \in Task, Exists(t), DoneAndSweep(t)
  PROVE  WaitInv'
<1>1. \A w \in Waiters(t) : waiting[w] \in Waiting
  BY DEF Waiters, WaitInv, WaitingTyped
<1>2. StatusTyped' /\ WaitingTyped'
  BY <1>1 DEF WaitInv, StatusTyped, WaitingTyped, DoneAndSweep, Status,
              OpenStatus, Waiting
<1>3. \A x \in Task :
        /\ status'[x] = IF x = t THEN "done"
                        ELSE IF x \in Waiters(t) THEN "todo" ELSE status[x]
        /\ x \notin Waiters(t) => waiting'[x] = waiting[x]
        /\ x \in Waiters(t) => waiting'[x].on = Undefined
  BY <1>1 DEF DoneAndSweep, Waiting
<1>4. Undefined \notin Task
  BY TasksAssumption
<1>5. NoLinkUnused'
  BY <1>3, <1>4 DEF WaitInv, NoLinkUnused, Used
<1>6. NoWaiterOnDone'
  BY <1>3, <1>4 DEF WaitInv, NoWaiterOnDone, Waiters
<1> QED BY <1>2, <1>5, <1>6 DEF WaitInv
-----------------------------------------------------------------------------
LEMMA ClockWait ==
  ASSUME WaitInv, NEW t \in Task, NEW c, Clock(t, c)
  PROVE  WaitInv'
<1>1. {"in_progress", "todo"} \subseteq Status \ {"done", "blocked"}
  BY DEF Status, OpenStatus
<1>2. CASE Start(t, c) \/ Resume(t, c) \/ Checkout(t, c)
  BY <1>1, <1>2, OneStatus DEF Start, Resume, Checkout
<1>3. CASE Pause(t, c)
  BY <1>1, <1>3, OneStatus DEF Pause
<1>4. CASE CorrectSegment(t, c)
  BY <1>4, NoStatus DEF CorrectSegment
<1> QED BY <1>2, <1>3, <1>4 DEF Clock

LEMMA UpdateWait ==
  ASSUME WaitInv, NEW t \in Task, NEW c, Update(t, c)
  PROVE  WaitInv'
<1>1. {"todo", "in_progress", "review", "cancelled"}
        \subseteq Status \ {"done", "blocked"}
  BY DEF Status, OpenStatus
<1>2. CASE UpdateStatus(t, c)
  BY <1>1, <1>2, OneStatus DEF UpdateStatus
<1>3. CASE UpdateDone(t, c)
  BY <1>3, DoneWait DEF UpdateDone
<1>4. CASE UpdateCancel(t, c)
  BY <1>1, <1>4, OneStatus DEF UpdateCancel
<1>5. CASE \E a \in Agent : UpdateAssignee(t, c, a)
  BY <1>5, NoStatus DEF UpdateAssignee
<1>6. CASE UpdateLinks(t, c)
  BY <1>6, NoStatus DEF UpdateLinks
<1>7. CASE ReplaceDependsOn(t, c)
  BY <1>7, NoStatus DEF ReplaceDependsOn
<1>8. CASE \E A \in SUBSET Task : AddDependsOn(t, c, A)
  BY <1>8, NoStatus DEF AddDependsOn
<1>9. CASE UpdateTyped(t, c)
  BY <1>9, NoStatus DEF UpdateTyped
<1> QED BY <1>2, <1>3, <1>4, <1>5, <1>6, <1>7, <1>8, <1>9 DEF Update

LEMMA CallWait ==
  ASSUME WaitInv, NEW t \in Task, NEW c \in Caller, Call(t, c)
  PROVE  WaitInv'
<1>1. CASE Create(t, c)
  BY <1>1, InsertWait
<1>2. CASE DeleteTask(t, c)
  BY <1>2, DeleteWait
<1>3. CASE Clock(t, c)
  BY <1>3, ClockWait
<1>4. CASE Block(t, c)
  BY <1>4, BlockWait
<1>5. CASE Update(t, c)
  BY <1>5, UpdateWait
<1>6. CASE Complete(t, c)
  BY <1>6, DoneWait DEF Complete
<1>7. CASE FailTask(t, c)
  <2>1. "failed" \in Status \ {"done", "blocked"}
    BY DEF Status, OpenStatus
  <2> QED BY <1>7, <2>1, OneStatus DEF FailTask
<1>8. CASE AttachReviewArtifact(t, c)
  BY <1>8, NoStatus DEF AttachReviewArtifact
<1> QED BY <1>1, <1>2, <1>3, <1>4, <1>5, <1>6, <1>7, <1>8 DEF Call

LEMMA InitWaitInv == Init => WaitInv
<1> SUFFICES ASSUME Init PROVE WaitInv
  OBVIOUS
<1>1. NoWaiting \in Waiting /\ NoWaiting.on = Undefined /\ Undefined \notin Task
  BY TasksAssumption DEF NoWaiting, Waiting
<1> QED BY <1>1 DEF Init, Fresh, WaitInv, StatusTyped, WaitingTyped, NoRow,
                    NoLinkUnused, NoWaiterOnDone

LEMMA WaitInvInductive == WaitInv /\ [CallNext]_vars => WaitInv'
<1> SUFFICES ASSUME WaitInv, [CallNext]_vars PROVE WaitInv'
  OBVIOUS
<1>1. CASE Tick
  BY <1>1, NoStatus DEF Tick
<1>2. CASE \E t \in Task, c \in Caller : Call(t, c)
  BY <1>2, CallWait
<1>3. CASE UNCHANGED vars
  BY <1>3, NoStatus DEF vars
<1> QED BY <1>1, <1>2, <1>3 DEF CallNext

\* Nobody is left blocked on a task a caller has closed: blockTask refuses a
\* done task, and complete and update sweep every waiter in the transaction
\* that closes it.
THEOREM NobodyWaitsOnDone == CallSpec => []NoWaiterOnDone
<1>1. WaitInv => NoWaiterOnDone
  BY DEF WaitInv
<1> QED BY <1>1, InitWaitInv, WaitInvInductive, PTL DEF CallSpec

-----------------------------------------------------------------------------
(* The sum of the segments that a closure bills.  The recursive total is   *)
(* run up by hand along Nat, since the loop of the code has no closed form. *)

\* A set of numbers that has 0 and every successor has every number.
LEMMA Upwards ==
  ASSUME NEW P \in SUBSET Nat, 0 \in P, \A n \in P : n + 1 \in P
  PROVE  P = Nat
<1> SUFFICES ASSUME Nat \ P # {} PROVE FALSE
  OBVIOUS
<1> DEFINE R == OpToRel(<, Nat)
           T == Nat \ P
<1>1. IsWellFoundedOn(R, Nat)
  BY NatLessThanWellFounded
<1>2. PICK x \in T : \A y \in T : ~ (<<y, x>> \in R)
  <2> HIDE DEF R
  <2> QED BY <1>1, WFMin
<1>3. x \in Nat /\ x # 0 /\ x \notin P
  BY <1>2
<1>4. x - 1 \in Nat /\ <<x - 1, x>> \in R
  BY <1>3 DEF OpToRel
<1> HIDE DEF R
<1>5. x - 1 \in P /\ (x - 1) + 1 = x
  <2>1. x - 1 \notin T
    BY <1>2, <1>4
  <2> QED BY <1>3, <1>4, <2>1
<1>6. x \in P
  BY <1>5
<1> QED BY <1>3, <1>6

\* The running totals of a list of numbers.
RunsUp(g, add, k) ==
  g \in [0..k -> Int] /\ g[0] = 0 /\ \A n \in 1..k : g[n] = g[n - 1] + add[n]

LEMMA TotalsExist ==
  ASSUME NEW len \in Nat, NEW add \in [1..len -> Int]
  PROVE  \E g : RunsUp(g, add, len)
<1> DEFINE P == {k \in Nat : k <= len => \E g : RunsUp(g, add, k)}
<1>1. 0 \in P
  <2>1. RunsUp([n \in 0..0 |-> 0], add, 0)
    BY DEF RunsUp
  <2> QED BY <2>1
<1>2. ASSUME NEW k \in P PROVE k + 1 \in P
  <2>0. k \in Nat /\ (k <= len => \E g : RunsUp(g, add, k))
    OBVIOUS
  <2> SUFFICES ASSUME k + 1 <= len PROVE \E g : RunsUp(g, add, k + 1)
    BY <2>0
  <2>1. PICK g : RunsUp(g, add, k)
    BY <2>0
  <2> DEFINE h == [n \in 0..k+1 |-> IF n = k + 1 THEN g[k] + add[k + 1] ELSE g[n]]
  <2>2. add[k + 1] \in Int /\ g[k] \in Int
    BY <2>0, <2>1 DEF RunsUp
  <2>3. h \in [0..k+1 -> Int] /\ h[0] = 0
    BY <2>0, <2>1, <2>2 DEF RunsUp
  <2>4. ASSUME NEW n \in 1..k+1 PROVE h[n] = h[n - 1] + add[n]
    <3>1. CASE n = k + 1
      <4>1. h[n] = g[k] + add[k + 1] /\ h[n - 1] = g[k]
        BY <2>0, <3>1
      <4> QED BY <3>1, <4>1
    <3>2. CASE n # k + 1
      <4>1. n \in 1..k /\ h[n] = g[n] /\ h[n - 1] = g[n - 1]
        BY <2>0, <3>2
      <4> QED BY <2>1, <4>1 DEF RunsUp
    <3> QED BY <3>1, <3>2
  <2> HIDE DEF h
  <2>5. RunsUp(h, add, k + 1)
    BY <2>3, <2>4 DEF RunsUp
  <2> QED BY <2>5
<1>3. P \in SUBSET Nat
  OBVIOUS
<1>4. len \in P
  <2> HIDE DEF P
  <2> QED BY <1>1, <1>2, <1>3, Upwards
<1> QED BY <1>4

\* What the loop adds up, as the running totals it passes.
LEMMA TotalOfIs ==
  ASSUME NEW segs \in Seq(Segment), NEW Counted \in SUBSET ClosedIndices(segs)
  PROVE  \E total \in [0..Len(segs) -> Int] :
           /\ TotalOf(segs, Counted) = total[Len(segs)]
           /\ total[0] = 0
           /\ \A n \in 1..Len(segs) :
                total[n] = total[n - 1] + (IF n \in Counted THEN Span(segs[n]) ELSE 0)
<1> DEFINE len == Len(segs)
           add == [n \in 1..len |-> IF n \in Counted THEN Span(segs[n]) ELSE 0]
           sums(g) == g = [n \in 0..len |-> IF n = 0 THEN 0 ELSE g[n - 1] + (IF n \in Counted THEN Span(segs[n]) ELSE 0)]
           total == CHOOSE g : sums(g)
<1>1. len \in Nat /\ add \in [1..len -> Int]
  <2>1. ASSUME NEW n \in 1..len, n \in Counted PROVE Span(segs[n]) \in Int
    BY <2>1, SegmentAt DEF ClosedIndices, Span
  <2> QED BY <2>1
<1>2. \A n \in 1..len : add[n] = IF n \in Counted THEN Span(segs[n]) ELSE 0
  OBVIOUS
<1>3. TotalOf(segs, Counted) = total[len]
  BY DEF TotalOf
<1>4. \E g : sums(g)
  <2> HIDE DEF add
  <2>1. PICK g : RunsUp(g, add, len)
    BY <1>1, TotalsExist
  <2>2. \A n \in 0..len : g[n] = IF n = 0 THEN 0 ELSE g[n - 1] + (IF n \in Counted THEN Span(segs[n]) ELSE 0)
    BY <1>1, <1>2, <2>1 DEF RunsUp
  <2>3. sums(g)
    BY <2>1, <2>2 DEF RunsUp
  <2> QED BY <2>3
<1>5. sums(total)
  BY <1>4
<1> HIDE DEF total, add
<1>6. /\ DOMAIN total = 0..len /\ total = [n \in 0..len |-> total[n]]
      /\ total[0] = 0 /\ \A n \in 1..len : total[n] = total[n - 1] + add[n]
  BY <1>1, <1>2, <1>5
<1>7. \A n \in 0..len : total[n] \in Int
  <2> DEFINE P == {k \in Nat : k <= len => total[k] \in Int}
  <2>1. 0 \in P
    BY <1>6
  <2>2. ASSUME NEW k \in P PROVE k + 1 \in P
    <3>0. k \in Nat /\ (k <= len => total[k] \in Int)
      OBVIOUS
    <3> SUFFICES ASSUME k + 1 <= len PROVE total[k + 1] \in Int
      BY <3>0
    <3>1. k + 1 \in 1..len /\ (k + 1) - 1 = k
      BY <1>1, <3>0
    <3>2. total[k + 1] = total[k] + add[k + 1] /\ add[k + 1] \in Int
      BY <1>1, <1>6, <3>1
    <3> QED BY <1>1, <3>0, <3>2
  <2>3. P \in SUBSET Nat
    OBVIOUS
  <2>4. P = Nat
    <3> HIDE DEF P
    <3> QED BY <2>1, <2>2, <2>3, Upwards
  <2> QED BY <1>1, <2>4
<1>8. total \in [0..len -> Int]
  BY <1>6, <1>7
<1> QED BY <1>2, <1>3, <1>6, <1>8

\* The segments counted, and one more, lie side by side before `at`.
LEMMA TotalWithin ==
  ASSUME NEW segs \in Seq(Segment), NEW at \in Nat, WellFormed(segs, at),
         ~HasOpenSegment(segs), NEW Counted \in SUBSET ClosedIndices(segs),
         NEW spare \in 0..Len(segs), spare \notin Counted
  PROVE  /\ TotalOf(segs, Counted) \in Int
         /\ TotalOf(segs, Counted) + (IF spare = 0 THEN 0 ELSE Span(segs[spare])) <= at
<1> DEFINE len == Len(segs)
<1>1. PICK total \in [0..len -> Int] :
        /\ TotalOf(segs, Counted) = total[len]
        /\ total[0] = 0
        /\ \A n \in 1..len :
             total[n] = total[n - 1] + (IF n \in Counted THEN Span(segs[n]) ELSE 0)
  BY TotalOfIs
<1>2. len \in Nat
  OBVIOUS
<1>3. ASSUME NEW n \in 1..len
      PROVE  /\ segs[n].start \in Nat /\ segs[n].end \in Nat
             /\ segs[n].start <= segs[n].end /\ segs[n].end <= at
             /\ Span(segs[n]) = segs[n].end - segs[n].start
             /\ n > 1 => segs[n - 1].end <= segs[n].start
  <2>1. segs[n].end # Undefined
    <3>1. CASE n = len
      BY <3>1, <1>2 DEF HasOpenSegment
    <3>2. CASE n # len
      BY <3>2, <1>2 DEF WellFormed
    <3> QED BY <3>1, <3>2
  <2>2. segs[n].start <= segs[n].end /\ segs[n].end <= at
    BY <2>1 DEF WellFormed
  <2>3. n > 1 => segs[n - 1].end <= segs[n].start
    <3> SUFFICES ASSUME n > 1 PROVE segs[n - 1].end <= segs[n].start
      OBVIOUS
    <3>1. n - 1 \in 1..Len(segs) - 1 /\ (n - 1) + 1 = n
      BY <1>2
    <3>2. segs[n - 1].end <= segs[(n - 1) + 1].start
      BY <3>1 DEF WellFormed
    <3> QED BY <3>1, <3>2
  <2> QED BY <2>1, <2>2, <2>3, SegmentAt DEF Span
<1> DEFINE extra(n) == IF spare = 0 \/ n < spare THEN 0 ELSE Span(segs[spare])
           last(n) == IF n = 0 THEN 0 ELSE segs[n].end
           P == {n \in Nat : n <= len => total[n] + extra(n) <= last(n)}
<1>4. 0 \in P
  BY <1>1, <1>2
<1>5. ASSUME NEW n \in P PROVE n + 1 \in P
  <2>0. n \in Nat /\ (n <= len => total[n] + extra(n) <= last(n))
    OBVIOUS
  <2> SUFFICES ASSUME n + 1 <= len PROVE total[n + 1] + extra(n + 1) <= last(n + 1)
    BY <2>0
  <2>1. n + 1 \in 1..len /\ (n + 1) - 1 = n /\ n \in 0..len
    BY <1>2, <2>0
  <2>2. total[n + 1] = total[n] + (IF n + 1 \in Counted THEN Span(segs[n + 1]) ELSE 0)
    BY <1>1, <2>1
  <2>3. total[n] \in Int /\ total[n] + extra(n) <= last(n)
    BY <1>1, <2>0, <2>1
  <2>4. last(n) <= segs[n + 1].start /\ last(n) \in Nat
    <3>1. CASE n = 0
      BY <3>1, <2>1, <1>3
    <3>2. CASE n # 0
      <4>1. n \in 1..len /\ n + 1 > 1
        BY <2>0, <2>1, <3>2
      <4> QED BY <4>1, <2>1, <1>3
    <3> QED BY <3>1, <3>2
  <2>5. /\ segs[n + 1].start \in Nat /\ segs[n + 1].end \in Nat
        /\ segs[n + 1].start <= segs[n + 1].end
        /\ Span(segs[n + 1]) = segs[n + 1].end - segs[n + 1].start
    BY <2>1, <1>3
  <2>6. last(n + 1) = segs[n + 1].end
    BY <2>0
  <2>7. extra(n) \in Int
    <3>1. CASE spare = 0
      BY <3>1
    <3>2. CASE spare # 0
      <4>1. spare \in 1..len
        BY <1>2, <3>2
      <4>2. \E x, y \in Nat : Span(segs[spare]) = y - x
        BY <4>1, <1>3
      <4> QED BY <4>2
    <3> QED BY <3>1, <3>2
  <2>8. CASE spare = n + 1
    <3>1. extra(n + 1) = Span(segs[n + 1]) /\ extra(n) = 0 /\ n + 1 \notin Counted
      BY <2>0, <2>8
    <3> HIDE DEF extra, last
    <3> QED BY <3>1, <2>2, <2>3, <2>4, <2>5, <2>6
  <2>9. CASE spare # n + 1
    <3>1. extra(n + 1) = extra(n)
      BY <2>0, <2>9
    <3> HIDE DEF extra, last
    <3> QED BY <3>1, <2>2, <2>3, <2>4, <2>5, <2>6, <2>7
  <2> QED BY <2>8, <2>9
<1>6. P \in SUBSET Nat
  OBVIOUS
<1>7. P = Nat
  <2> HIDE DEF P
  <2> QED BY <1>4, <1>5, <1>6, Upwards
<1>8. total[len] \in Int /\ total[len] + extra(len) <= last(len)
  BY <1>1, <1>2, <1>7
<1>9. last(len) <= at
  BY <1>2, <1>3
<1>10. extra(len) = (IF spare = 0 THEN 0 ELSE Span(segs[spare])) /\ extra(len) \in Int
  BY <1>2, <1>3
<1>11. last(len) \in Int
  BY <1>2, <1>3
<1> HIDE DEF extra, last
<1> QED BY <1>1, <1>8, <1>9, <1>10, <1>11

\* Rounding to minutes, half up: within half a minute, and monotone.
LEMMA Division ==
  ASSUME NEW a \in Int, NEW b \in Nat \ {0}
  PROVE  /\ a \div b \in Int
         /\ b * (a \div b) <= a
         /\ a < b * (a \div b) + b
  OBVIOUS

LEMMA MinutesRound ==
  ASSUME NEW ticks \in Int
  PROVE  /\ Minutes(ticks) \in Int
         /\ 2 * (Minutes(ticks) * TicksPerMinute) <= 2 * ticks + TicksPerMinute
         /\ 2 * ticks + TicksPerMinute < 2 * (Minutes(ticks) * TicksPerMinute) + 2 * TicksPerMinute
<1> DEFINE a == 2 * ticks + TicksPerMinute
           b == 2 * TicksPerMinute
           m == Minutes(ticks)
<1>1. TicksPerMinute \in Nat \ {0} /\ a \in Int /\ b \in Nat \ {0}
  BY SegmentsAssumption
<1>2. m = a \div b
  BY DEF Minutes
<1>3. m \in Int /\ b * m <= a /\ a < b * m + b
  BY <1>1, <1>2, Division
<1>4. b * m = 2 * (m * TicksPerMinute)
  BY <1>1, <1>3
<1> QED BY <1>3, <1>4

\* Ticks at most half a minute beyond `at` are at most a minute more.
LEMMA MinutesWithin ==
  ASSUME NEW ticks \in Int, NEW at \in Int, 2 * ticks <= 2 * at + TicksPerMinute
  PROVE  Minutes(ticks) <= Minutes(at) + 1
<1> DEFINE m == Minutes(ticks)
           n == Minutes(at)
           T == TicksPerMinute
<1>1. T \in Nat /\ T > 0
  BY SegmentsAssumption
<1>2. m \in Int /\ n \in Int
  BY MinutesRound
<1>3. 2 * (m * T) <= 2 * ticks + T /\ 2 * at + T < 2 * (n * T) + 2 * T
  BY MinutesRound
<1>4. m * T \in Int /\ n * T \in Int
  BY <1>1, <1>2
<1> HIDE DEF m, n, T
<1>5. m * T < n * T + 2 * T
  BY <1>1, <1>3, <1>4 DEF T
<1>6. n * T + 2 * T = (n + 2) * T
  BY <1>1, <1>2
<1>7. ASSUME n + 2 <= m PROVE (n + 2) * T <= m * T
  BY <1>1, <1>2, <1>7
<1>8. m < n + 2
  BY <1>1, <1>2, <1>4, <1>5, <1>6, <1>7
<1>9. m <= n + 1
  BY <1>2, <1>8
<1> QED BY <1>9 DEF m, n

\* What a closure bills is a number, and never more than has passed but for
\* the minute of the rounding.
LEMMA BillLemma ==
  ASSUME NEW segs \in Seq(Segment), NEW at \in Nat, WellFormed(segs, at),
         ~HasOpenSegment(segs), NEW attested \in Attestation, SegmentsClosable(segs, attested)
  PROVE  /\ BilledMinutes(segs, attested) \in Int
         /\ BilledMinutes(segs, attested) <= Minutes(at) + 1
<1> DEFINE T == TicksPerMinute
           plausible == ClosedIndices(segs) \ OverCap(segs)
           total == TotalOf(segs, plausible)
<1>1. T \in Nat /\ T > 0 /\ Len(segs) \in Nat
  BY SegmentsAssumption
<1>2. plausible \in SUBSET ClosedIndices(segs) /\ OverCap(segs) \in SUBSET ClosedIndices(segs)
  BY DEF OverCap
<1>3. /\ BilledTicks(segs, attested) \in Int
      /\ 2 * BilledTicks(segs, attested) <= 2 * at + T
  <2>1. CASE OverCap(segs) = {}
    <3>1. 0 \in 0..Len(segs) /\ 0 \notin plausible
      BY <1>1 DEF ClosedIndices
    <3>2. total \in Int /\ total <= at
      <4> HIDE DEF plausible
      <4>1. /\ total \in Int
            /\ total + (IF 0 = 0 THEN 0 ELSE Span(segs[0])) <= at
        BY <1>2, <3>1, TotalWithin
      <4> QED BY <4>1
    <3>3. BilledTicks(segs, attested) = total + 0
      BY <2>1 DEF BilledTicks
    <3> HIDE DEF total
    <3> QED BY <1>1, <3>2, <3>3
  <2>2. CASE OverCap(segs) # {}
    <3>1. PICK i \in OverCap(segs) : attested \in 1..Minutes(Span(segs[i]))
      BY <2>2 DEF SegmentsClosable, Attests
    <3>2. i \in 1..Len(segs) /\ i # 0 /\ i \notin plausible /\ segs[i].end # Undefined
      BY <1>1, <1>2 DEF ClosedIndices
    <3>3. total \in Int /\ total + Span(segs[i]) <= at
      <4> HIDE DEF plausible
      <4>1. /\ total \in Int
            /\ total + (IF i = 0 THEN 0 ELSE Span(segs[i])) <= at
        BY <1>2, <3>2, TotalWithin
      <4> QED BY <3>2, <4>1
    <3>4. Span(segs[i]) \in Int
      BY <3>2, SegmentAt DEF Span
    <3>5. PICK m \in Int : m = Minutes(Span(segs[i])) /\ 2 * (m * T) <= 2 * Span(segs[i]) + T
      BY <3>4, MinutesRound
    <3>6. attested \in Int /\ attested <= m
      BY <3>1, <3>5
    <3>7. attested * T <= m * T /\ attested * T \in Int /\ m * T \in Int
      BY <1>1, <3>5, <3>6
    <3>8. BilledTicks(segs, attested) = total + attested * T
      BY <2>2 DEF BilledTicks
    <3> DEFINE x == attested * T
               y == m * T
               z == Span(segs[i])
    <3>9. x \in Int /\ y \in Int /\ z \in Int /\ x <= y /\ 2 * y <= 2 * z + T
          /\ total \in Int /\ total + z <= at /\ BilledTicks(segs, attested) = total + x
      BY <3>3, <3>4, <3>5, <3>7, <3>8
    <3> HIDE DEF x, y, z, total, T
    <3>10. 2 * (total + x) <= 2 * at + T /\ total + x \in Int
      BY <1>1, <3>9
    <3> QED BY <3>9, <3>10
  <2> QED BY <2>1, <2>2
<1> QED BY <1>3, MinutesRound, MinutesWithin DEF BilledMinutes

-----------------------------------------------------------------------------
(* The columns that the clock does not read are typed.                     *)

\* The domain of every such column.
ActorTyped == actor \in [Task -> Actors]
LinkTyped == link \in [Task -> Links]
MissionTyped == mission \in [Mission -> {"execute", "complete", "cancelled"}]
NoticesTyped == notices \subseteq Notice
TableTyped == ActorTyped /\ LinkTyped /\ WaitingTyped /\ MissionTyped /\ NoticesTyped

\* The columns of a row that does not exist.
LEMMA NoActorsTyped == NoActors \in Actors
  BY DEF NoActors, Actors

LEMMA NoLinksTyped == NoLinks \in Links
  BY DEF NoLinks, Links

LEMMA NoWaitingTyped == NoWaiting \in Waiting
  BY DEF NoWaiting, Waiting

\* A column stays typed when one row is written.
LEMMA OneRowWritten ==
  ASSUME NEW f, NEW S, f \in [Task -> S], NEW t \in Task, NEW v \in S
  PROVE  [f EXCEPT ![t] = v] \in [Task -> S]
  OBVIOUS

\* Every operation leaves the columns typed: insertions, by a caller or by
\* an automation.
LEMMA CreateTable ==
  ASSUME TableTyped, NEW t \in Task, NEW c \in Caller, Create(t, c)
  PROVE  TableTyped'
<1>1. PICK a \in Agent, r \in BOOLEAN :
        actor' = [actor EXCEPT ![t] =
         [NoActors EXCEPT !.createdBy = IF c = Fleet THEN Undefined ELSE c,
                          !.assignedTo = a, !.isReview = r]]
  BY DEF Create
<1>2. [NoActors EXCEPT !.createdBy = IF c = Fleet THEN Undefined ELSE c,
                       !.assignedTo = a, !.isReview = r] \in Actors
  BY DEF NoActors, Actors, Caller
<1>3. ActorTyped'
  BY <1>1, <1>2 DEF TableTyped, ActorTyped
<1>4. PICK p \in Project \cup {Undefined}, m \in Mission \cup {Undefined},
        D \in SUBSET {d \in Task : Used(d)} :
       link' = [link EXCEPT ![t] =
         [project |-> p, mission |-> m, dependsOn |-> D]]
  BY DEF Create
<1>5. [project |-> p, mission |-> m, dependsOn |-> D] \in Links
  BY DEF Links
<1>6. LinkTyped'
  BY <1>4, <1>5 DEF TableTyped, LinkTyped
<1> QED BY <1>3, <1>6 DEF Create, TableTyped, WaitingTyped, MissionTyped, NoticesTyped

LEMMA CreateByAutomationTable ==
  ASSUME TableTyped, NEW t \in Task, CreateByAutomation(t)
  PROVE  TableTyped'
<1>1. PICK cr \in Agent \cup {Undefined}, a \in Agent \cup {Undefined},
        o \in {"human", "automation", "automation-webhook"} :
       actor' = [actor EXCEPT ![t] =
         [NoActors EXCEPT !.createdBy = cr, !.assignedTo = a,
                          !.isReview = (o = "automation"), !.origin = o]]
  BY DEF CreateByAutomation
<1>2. PICK r \in BOOLEAN : r = (o = "automation")
  OBVIOUS
<1>3. [NoActors EXCEPT !.createdBy = cr, !.assignedTo = a, !.isReview = r, !.origin = o] \in Actors
  BY DEF NoActors, Actors
<1>4. ActorTyped'
  BY <1>1, <1>2, <1>3 DEF TableTyped, ActorTyped
<1>5. PICK p \in Project \cup {Undefined} : link' = [link EXCEPT ![t].project = p]
  BY DEF CreateByAutomation
<1>6. LinkTyped'
  BY <1>5 DEF TableTyped, LinkTyped, Links
<1> QED BY <1>4, <1>6 DEF CreateByAutomation, TableTyped, WaitingTyped, MissionTyped, NoticesTyped

\* The deletion, the clock and the links of a blocked row.
LEMMA DeleteTable ==
  ASSUME TableTyped, NEW t \in Task, NEW c, DeleteTask(t, c)
  PROVE  TableTyped'
  BY NoActorsTyped, NoLinksTyped, NoWaitingTyped, OneRowWritten
  DEF DeleteTask, TableTyped, ActorTyped, LinkTyped, WaitingTyped, MissionTyped, NoticesTyped

LEMMA ClockTable ==
  ASSUME TableTyped, NEW t \in Task, NEW c, Clock(t, c)
  PROVE  TableTyped'
  BY DEF Clock, Start, Pause, Resume, Checkout, CorrectSegment,
         TableTyped, ActorTyped, LinkTyped, WaitingTyped, MissionTyped, NoticesTyped

LEMMA BlockTable ==
  ASSUME TableTyped, NEW t \in Task, NEW c, Block(t, c)
  PROVE  TableTyped'
<1>1. PICK l \in Waiting : waiting' = [waiting EXCEPT ![t] = l] /\ UNCHANGED <<actor, link, mission, notices>>
  <2>1. \A b \in Task \cup {Undefined}, n \in BOOLEAN : [on |-> b, nobody |-> n] \in Waiting
    BY DEF Waiting
  <2>2. CASE BlockOnNobody(t, c)
    BY <2>1, <2>2 DEF BlockOnNobody, MarkBlocked
  <2>3. CASE \E b \in Task : BlockOnTask(t, c, b)
    BY <2>1, <2>3 DEF BlockOnTask, MarkBlocked
  <2> QED BY <2>2, <2>3 DEF Block
<1> QED BY <1>1, OneRowWritten DEF TableTyped, ActorTyped, LinkTyped, WaitingTyped, MissionTyped, NoticesTyped

\* The closing sweep, and the notices it sends.
LEMMA NotifyTyped ==
  ASSUME NoticesTyped, NEW t \in Task, NEW kind \in {"UNBLOCKED", "BLOCKER_FAILED"}, Notify(t, kind)
  PROVE  NoticesTyped'
<1>1. \A w \in Task : [to |-> w, blocker |-> t, kind |-> kind] \in Notice
  BY DEF Notice
<1> QED BY <1>1 DEF NoticesTyped, Notify, Waiters

LEMMA SweepTable ==
  ASSUME TableTyped, NEW t \in Task, DoneAndSweep(t), UNCHANGED <<actor, link>>, MissionTyped'
  PROVE  TableTyped'
<1>1. NoticesTyped'
  BY NotifyTyped DEF DoneAndSweep, TableTyped
<1>2. WaitingTyped'
  <2>1. ASSUME NEW x \in Task PROVE [waiting[x] EXCEPT !.on = Undefined] \in Waiting /\ waiting[x] \in Waiting
    BY DEF TableTyped, WaitingTyped, Waiting
  <2> QED BY <2>1 DEF DoneAndSweep, WaitingTyped
<1> QED BY <1>1, <1>2 DEF TableTyped, ActorTyped, LinkTyped

LEMMA MissionAfterTyped ==
  ASSUME MissionTyped, LinkTyped, NEW t \in Task
  PROVE  MissionAfter(t) \in [Mission -> {"execute", "complete", "cancelled"}]
  BY DEF MissionAfter, MissionTyped, LinkTyped, Links

\* The doors of update and the attached review.
LEMMA AssigneeTable ==
  ASSUME TableTyped, NEW t \in Task, NEW c, NEW a \in Agent, UpdateAssignee(t, c, a)
  PROVE  TableTyped'
<1>1. [actor[t] EXCEPT !.assignedTo = a, !.lastAssignedTo = actor[t].assignedTo] \in Actors
  BY DEF TableTyped, ActorTyped, Actors
<1>2. actor' = [actor EXCEPT ![t] = [actor[t] EXCEPT !.assignedTo = a, !.lastAssignedTo = actor[t].assignedTo]]
  BY DEF UpdateAssignee, TableTyped, ActorTyped
<1> QED BY <1>1, <1>2, OneRowWritten
        DEF UpdateAssignee, TableTyped, ActorTyped, LinkTyped, WaitingTyped, MissionTyped, NoticesTyped

LEMMA AttachTable ==
  ASSUME TableTyped, NEW t \in Task, NEW c, AttachReviewArtifact(t, c)
  PROVE  TableTyped'
<1>1. [actor[t] EXCEPT !.attachedBy = c] \in Actors
  BY DEF AttachReviewArtifact, TableTyped, ActorTyped, Actors
<1>2. actor' = [actor EXCEPT ![t] = [actor[t] EXCEPT !.attachedBy = c]]
  BY DEF AttachReviewArtifact, TableTyped, ActorTyped
<1> QED BY <1>1, <1>2, OneRowWritten
        DEF AttachReviewArtifact, TableTyped, ActorTyped, LinkTyped, WaitingTyped, MissionTyped, NoticesTyped

LEMMA LinksTable ==
  ASSUME TableTyped, NEW t \in Task, NEW c, 
         UpdateLinks(t, c) \/ ReplaceDependsOn(t, c) \/ \E A \in SUBSET Task : AddDependsOn(t, c, A)
  PROVE  TableTyped'
<1>1. UNCHANGED <<actor, waiting, mission, notices>>
  BY DEF UpdateLinks, ReplaceDependsOn, AddDependsOn
<1>2. ASSUME NEW p \in Project, link' = [link EXCEPT ![t].project = p] PROVE LinkTyped'
  BY <1>2 DEF TableTyped, LinkTyped, Links
<1>3. ASSUME NEW m \in Mission, link' = [link EXCEPT ![t].mission = m] PROVE LinkTyped'
  BY <1>3 DEF TableTyped, LinkTyped, Links
<1>4. ASSUME NEW D \in SUBSET Task, link' = [link EXCEPT ![t].dependsOn = D] PROVE LinkTyped'
  BY <1>4 DEF TableTyped, LinkTyped, Links
<1>5. LinkTyped'
  <2>1. CASE UpdateLinks(t, c)
    BY <2>1, <1>2, <1>3 DEF UpdateLinks
  <2>2. CASE ReplaceDependsOn(t, c)
    BY <2>2, <1>4 DEF ReplaceDependsOn
  <2>3. CASE \E A \in SUBSET Task : AddDependsOn(t, c, A)
    <3>1. PICK A \in SUBSET Task : AddDependsOn(t, c, A)
      BY <2>3
    <3>2. link[t].dependsOn \cup (A \ link[t].dependsOn) \in SUBSET Task
      BY DEF TableTyped, LinkTyped, Links
    <3> QED BY <3>1, <3>2, <1>4 DEF AddDependsOn
  <2> QED BY <2>1, <2>2, <2>3
<1> QED BY <1>1, <1>5 DEF TableTyped, ActorTyped, WaitingTyped, MissionTyped, NoticesTyped

LEMMA UpdateTable ==
  ASSUME TableTyped, NEW t \in Task, NEW c, Update(t, c)
  PROVE  TableTyped'
<1>1. CASE UpdateStatus(t, c) \/ UpdateCancel(t, c) \/ UpdateTyped(t, c)
  BY <1>1 DEF UpdateStatus, UpdateCancel, UpdateTyped, TableTyped, ActorTyped, LinkTyped, WaitingTyped, MissionTyped, NoticesTyped
<1>2. CASE UpdateDone(t, c)
  BY <1>2, SweepTable DEF UpdateDone, TableTyped, MissionTyped
<1>3. CASE \E a \in Agent : UpdateAssignee(t, c, a)
  BY <1>3, AssigneeTable
<1>4. CASE UpdateLinks(t, c) \/ ReplaceDependsOn(t, c) \/ \E A \in SUBSET Task : AddDependsOn(t, c, A)
  BY <1>4, LinksTable
<1> QED BY <1>1, <1>2, <1>3, <1>4 DEF Update

\* Any call, and what runs by itself.
LEMMA CallTable ==
  ASSUME TableTyped, NEW t \in Task, NEW c \in Caller, Call(t, c)
  PROVE  TableTyped'
<1>1. CASE Create(t, c)
  BY <1>1, CreateTable
<1>2. CASE DeleteTask(t, c)
  BY <1>2, DeleteTable
<1>3. CASE Clock(t, c)
  BY <1>3, ClockTable
<1>4. CASE Block(t, c)
  BY <1>4, BlockTable
<1>5. CASE Update(t, c)
  BY <1>5, UpdateTable
<1>6. CASE Complete(t, c)
  <2>1. MissionTyped'
    BY <1>6, MissionAfterTyped DEF Complete, MissionTyped, TableTyped
  <2> QED BY <1>6, <2>1, SweepTable DEF Complete
<1>7. CASE FailTask(t, c)
  BY <1>7, NotifyTyped DEF FailTask, TableTyped, ActorTyped, LinkTyped, WaitingTyped, MissionTyped
<1>8. CASE AttachReviewArtifact(t, c)
  BY <1>8, AttachTable
<1> QED BY <1>1, <1>2, <1>3, <1>4, <1>5, <1>6, <1>7, <1>8 DEF Call

LEMMA AutomationTable ==
  ASSUME TableTyped, Automation
  PROVE  TableTyped'
<1>1. CASE \E t \in Task : CreateByAutomation(t)
  BY <1>1, CreateByAutomationTable
<1>2. CASE \E S \in SUBSET Task : CloseMatched(S)
  BY <1>2 DEF CloseMatched, CloseByAutomation, TableTyped, ActorTyped, LinkTyped, WaitingTyped, MissionTyped, NoticesTyped
<1>3. CASE \E m \in Mission : CascadeCloseMission(m) \/ ResolveStaleMission(m) \/ UpdateMission(m)
  BY <1>3 DEF CascadeCloseMission, ResolveStaleMission, UpdateMission, CloseByAutomation, TableTyped, ActorTyped, LinkTyped, WaitingTyped, MissionTyped, NoticesTyped
<1> QED BY <1>1, <1>2, <1>3 DEF Automation

LEMMA TableInductive == TableTyped /\ [Next]_vars => TableTyped'
<1> SUFFICES ASSUME TableTyped, [Next]_vars PROVE TableTyped'
  OBVIOUS
<1>1. CASE UNCHANGED vars
  BY <1>1 DEF vars, TableTyped, ActorTyped, LinkTyped, WaitingTyped, MissionTyped, NoticesTyped
<1>2. CASE Tick
  BY <1>2 DEF Tick, TableTyped, ActorTyped, LinkTyped, WaitingTyped, MissionTyped, NoticesTyped
<1>3. CASE \E c \in Caller, t \in Task : Call(t, c)
  BY <1>3, CallTable
<1>4. CASE \E c \in Caller : BulkComplete(c)
  BY <1>4 DEF BulkComplete, TableTyped, ActorTyped, LinkTyped, WaitingTyped, MissionTyped, NoticesTyped
<1>5. CASE Automation
  BY <1>5, AutomationTable
<1> QED BY <1>1, <1>2, <1>3, <1>4, <1>5 DEF Next

-----------------------------------------------------------------------------
(* What a closure says.                                                    *)

\* More ticks are not fewer minutes.
LEMMA MinutesMonotone ==
  ASSUME NEW at \in Int, NEW later \in Int, at <= later
  PROVE  Minutes(at) <= Minutes(later)
<1> DEFINE m == Minutes(at)
           n == Minutes(later)
           T == TicksPerMinute
<1>1. T \in Nat /\ T > 0
  BY SegmentsAssumption
<1>2. m \in Int /\ n \in Int
  BY MinutesRound
<1>3. 2 * (m * T) <= 2 * at + T /\ 2 * later + T < 2 * (n * T) + 2 * T
  BY MinutesRound
<1>4. m * T \in Int /\ n * T \in Int
  BY <1>1, <1>2
<1> HIDE DEF m, n, T
<1>5. m * T < n * T + T
  BY <1>1, <1>3, <1>4 DEF T
<1>6. n * T + T = (n + 1) * T
  BY <1>1, <1>2
<1>7. ASSUME n + 1 <= m PROVE (n + 1) * T <= m * T
  BY <1>1, <1>2, <1>7
<1>8. m < n + 1
  BY <1>1, <1>2, <1>4, <1>5, <1>6, <1>7
<1>9. m <= n
  BY <1>2, <1>8
<1> QED BY <1>9 DEF m, n

\* What a row's closure says at time n.
Fair(r, n) ==
  /\ r \in Closure
  /\ r.source = "segments" =>
       r.minutes \in Int /\ (r.minutes \in Typed \/ r.minutes <= Minutes(n) + 1)

ClosureInv == closure \in [Task -> Closure] /\ \A t \in Task : Fair(closure[t], now)

\* A fair closure stays fair as time passes and as it is completed.
LEMMA FairLater ==
  ASSUME NEW r, NEW n \in Nat, NEW m \in Nat, n <= m, Fair(r, n)
  PROVE  Fair(r, m)
<1>1. Minutes(n) \in Int /\ Minutes(m) \in Int /\ Minutes(n) <= Minutes(m)
  BY MinutesRound, MinutesMonotone
<1> QED BY <1>1 DEF Fair

LEMMA FairSucceeded ==
  ASSUME NEW r, NEW n, Fair(r, n), NEW at \in Nat
  PROVE  Fair(SucceededAt(r, at), n)
<1> DEFINE s == SucceededAt(r, at)
<1>1. s \in Closure /\ s.source = r.source /\ s.minutes = r.minutes
  BY DEF Fair, SucceededAt, Closure, OptTime
<1> QED BY <1>1 DEF Fair

LEMMA FairTyped ==
  ASSUME NEW r, NEW n, Fair(r, n), NEW minutes \in Typed
  PROVE  Fair([r EXCEPT !.minutes = minutes], n)
<1>1. minutes \in Int
  BY TasksAssumption
<1> QED BY <1>1 DEF Fair, Closure

\* What the gate of a closure computes is fair: from segments that it first
\* closes, or from the legacy column.
LEMMA FairGate ==
  ASSUME ClockInv, NEW t \in Task, Fair(closure[t], now),
         NEW attested \in Attestation, NEW override, GatePasses(t, attested, override)
  PROVE  Fair(GateClosure(t, attested), now)
<1> DEFINE segs == CloseTrailing(workSegments[t], now)
<1>1. workSegments[t] \in Seq(Segment) /\ WellFormed(workSegments[t], now) /\ now \in Nat
  BY ClockInvAt
<1>2. segs \in Seq(Segment) /\ WellFormed(segs, now) /\ ~HasOpenSegment(segs)
  BY <1>1, CloseTrailingLemma
<1>3. segs # <<>> => workSegments[t] # <<>>
  BY DEF CloseTrailing, HasOpenSegment
<1> HIDE DEF segs
<1>4. CASE segs # <<>>
  <2>1. SegmentsClosable(segs, attested)
    BY <1>3, <1>4 DEF GatePasses, segs
  <2>2. PICK m \in Int : m = BilledMinutes(segs, attested) /\ m <= Minutes(now) + 1
    BY <1>1, <1>2, <2>1, BillLemma
  <2>3. GateClosure(t, attested) = [closure[t] EXCEPT !.minutes = m, !.source = "segments"]
    BY <1>4, <2>2 DEF GateClosure, segs
  <2> QED BY <2>2, <2>3 DEF Fair, Closure
<1>5. CASE segs = <<>> /\ startedAt[t] # Undefined
  <2>1. startedAt[t] \in Nat
    BY <1>5 DEF ClockInv, ClockTyped, OptTime
  <2>2. PICK m \in Int : m = Minutes(now - startedAt[t])
    <3>1. now - startedAt[t] \in Int
      BY <1>1, <2>1
    <3> QED BY <3>1, MinutesRound
  <2>3. GateClosure(t, attested) = [closure[t] EXCEPT !.minutes = m, !.source = "legacy"]
    BY <1>5, <2>2 DEF GateClosure, segs
  <2> QED BY <2>2, <2>3 DEF Fair, Closure
<1>6. CASE segs = <<>> /\ startedAt[t] = Undefined
  BY <1>6 DEF GateClosure, segs
<1> QED BY <1>4, <1>5, <1>6

\* One row's closure is written.
LEMMA OneClosure ==
  ASSUME ClosureInv, NEW t \in Task, NEW r, Fair(r, now),
         closure' = [closure EXCEPT ![t] = r], now' = now
  PROVE  ClosureInv'
<1>1. r \in Closure
  BY DEF Fair
<1>2. closure' \in [Task -> Closure] /\ \A x \in Task : closure'[x] = IF x = t THEN r ELSE closure[x]
  BY <1>1 DEF ClosureInv
<1> QED BY <1>2 DEF ClosureInv, Fair

\* The closures of a set of rows are written.
LEMMA ManyClosures ==
  ASSUME ClosureInv, NEW f \in [Task -> Closure], closure' = f,
         \A x \in Task : Fair(f[x], now), now' = now
  PROVE  ClosureInv'
  BY DEF ClosureInv, Fair

\* The steps that write no closure.
LEMMA QuietClosure ==
  ASSUME ClosureInv, UNCHANGED <<now, closure>>
  PROVE  ClosureInv'
  BY DEF ClosureInv, Fair

LEMMA NoClosureFair == \A n : Fair(NoClosure, n)
  BY TasksAssumption DEF Fair, NoClosure, Closure, OptTime

LEMMA TickClosure == ASSUME ClosureInv, ClockInv, Tick PROVE ClosureInv'
<1>1. now \in Nat /\ now' \in Nat /\ now <= now' /\ closure' = closure
  BY DEF Tick, ClockInv, ClockTyped
<1>2. \A t \in Task : Fair(closure[t], now')
  BY <1>1, FairLater DEF ClosureInv
<1> QED BY <1>1, <1>2 DEF ClosureInv, Fair

\* The steps that do.
LEMMA CompleteClosure ==
  ASSUME ClosureInv, ClockInv, NEW t \in Task, NEW c, Complete(t, c)
  PROVE  ClosureInv'
<1>1. PICK attested \in Attestation, override \in BOOLEAN :
        /\ GatePasses(t, attested, override)
        /\ closure' = [closure EXCEPT ![t] = SucceededAt(GateClosure(t, attested), now)]
  BY DEF Complete
<1>2. Fair(GateClosure(t, attested), now)
  BY <1>1, FairGate DEF ClosureInv
<1>3. Fair(SucceededAt(GateClosure(t, attested), now), now)
  BY <1>2, FairSucceeded DEF ClockInv, ClockTyped
<1> QED BY <1>1, <1>3, OneClosure DEF Complete

LEMMA UpdateDoneClosure ==
  ASSUME ClosureInv, ClockInv, NEW t \in Task, NEW c, UpdateDone(t, c)
  PROVE  ClosureInv'
<1>1. PICK attested \in Attestation, override \in BOOLEAN,
           at \in Typed \cup {now}, minutes \in Typed \cup {Undefined} :
        /\ GatePasses(t, attested, override)
        /\ closure' = [closure EXCEPT ![t] =
             IF minutes = Undefined THEN SucceededAt(GateClosure(t, attested), at)
             ELSE [SucceededAt(GateClosure(t, attested), at) EXCEPT !.minutes = minutes]]
  BY DEF UpdateDone
<1>2. at \in Nat
  BY TasksAssumption DEF ClockInv, ClockTyped
<1>3. Fair(GateClosure(t, attested), now)
  BY <1>1, FairGate DEF ClosureInv
<1> DEFINE r == SucceededAt(GateClosure(t, attested), at)
<1>4. Fair(r, now)
  BY <1>2, <1>3, FairSucceeded
<1> HIDE DEF r
<1>5. minutes # Undefined => Fair([r EXCEPT !.minutes = minutes], now)
  BY <1>4, FairTyped
<1> DEFINE s == IF minutes = Undefined THEN r ELSE [r EXCEPT !.minutes = minutes]
<1>6. Fair(s, now) /\ closure' = [closure EXCEPT ![t] = s] /\ now' = now
  BY <1>1, <1>4, <1>5 DEF r, UpdateDone
<1> HIDE DEF s
<1> QED BY <1>6, OneClosure

LEMMA FailClosure ==
  ASSUME ClosureInv, ClockInv, NEW t \in Task, NEW c, FailTask(t, c)
  PROVE  ClosureInv'
<1> DEFINE r == [closure[t] EXCEPT !.at = now, !.outcome = "failed"]
<1>1. r \in Closure /\ r.source = closure[t].source /\ r.minutes = closure[t].minutes
  BY DEF ClosureInv, Closure, ClockInv, ClockTyped, OptTime
<1>2. Fair(r, now)
  BY <1>1 DEF Fair, ClosureInv
<1>3. closure' = [closure EXCEPT ![t] = r] /\ now' = now
  BY DEF FailTask, ClosureInv
<1> HIDE DEF r
<1> QED BY <1>2, <1>3, OneClosure

LEMMA TypedClosure ==
  ASSUME ClosureInv, ClockInv, NEW t \in Task, NEW c, UpdateTyped(t, c)
  PROVE  ClosureInv'
<1>1. PICK n \in Typed :
        \/ closure' = closure
        \/ closure' = [closure EXCEPT ![t].at = n]
        \/ closure' = [closure EXCEPT ![t].minutes = n]
  BY DEF UpdateTyped
<1>2. now' = now /\ n \in Nat /\ Fair(closure[t], now) /\ closure[t] \in Closure
  BY TasksAssumption DEF UpdateTyped, ClosureInv
<1>3. Fair([closure[t] EXCEPT !.at = n], now)
  <2> DEFINE r == [closure[t] EXCEPT !.at = n]
  <2>1. r \in Closure /\ r.source = closure[t].source /\ r.minutes = closure[t].minutes
    BY <1>2 DEF Closure, OptTime
  <2> QED BY <1>2, <2>1 DEF Fair
<1>4. Fair([closure[t] EXCEPT !.minutes = n], now)
  BY <1>2, FairTyped
<1> QED BY <1>1, <1>2, <1>3, <1>4, OneClosure, QuietClosure

LEMMA BulkClosure ==
  ASSUME ClosureInv, ClockInv, NEW c, BulkComplete(c)
  PROVE  ClosureInv'
<1>1. PICK S \in SUBSET Task, attested \in Attestation, override \in BOOLEAN :
        /\ \A x \in S : GatePasses(x, attested, override)
        /\ closure' = [x \in Task |->
             IF x \in S THEN SucceededAt(GateClosure(x, attested), now) ELSE closure[x]]
  BY DEF BulkComplete
<1>2. ASSUME NEW x \in S PROVE Fair(SucceededAt(GateClosure(x, attested), now), now)
  <2>1. Fair(GateClosure(x, attested), now)
    BY <1>1, FairGate DEF ClosureInv
  <2> QED BY <2>1, FairSucceeded DEF ClockInv, ClockTyped
<1> DEFINE f == [x \in Task |->
             IF x \in S THEN SucceededAt(GateClosure(x, attested), now) ELSE closure[x]]
<1>3. \A x \in Task : Fair(f[x], now)
  BY <1>2 DEF ClosureInv
<1>4. f \in [Task -> Closure]
  BY <1>3 DEF Fair
<1>5. closure' = f /\ now' = now
  BY <1>1 DEF BulkComplete
<1> HIDE DEF f
<1> QED BY <1>3, <1>4, <1>5, ManyClosures

LEMMA AutomationClosure ==
  ASSUME ClosureInv, ClockInv, NEW S \in SUBSET Task, CloseByAutomation(S)
  PROVE  ClosureInv'
<1> DEFINE f == [x \in Task |-> IF x \in S THEN SucceededAt(closure[x], now) ELSE closure[x]]
<1>1. \A x \in Task : Fair(f[x], now)
  BY FairSucceeded DEF ClosureInv, ClockInv, ClockTyped
<1>2. f \in [Task -> Closure]
  BY <1>1 DEF Fair
<1>3. closure' = f /\ now' = now
  BY DEF CloseByAutomation
<1> HIDE DEF f
<1> QED BY <1>1, <1>2, <1>3, ManyClosures

LEMMA CallClosure ==
  ASSUME ClosureInv, ClockInv, NEW t \in Task, NEW c \in Caller, Call(t, c)
  PROVE  ClosureInv'
<1>1. CASE Create(t, c) \/ Clock(t, c) \/ Block(t, c) \/ AttachReviewArtifact(t, c)
  BY <1>1, QuietClosure
  DEF Create, Clock, Start, Pause, Resume, Checkout, CorrectSegment, Block, BlockOnTask,
      BlockOnNobody, MarkBlocked, AttachReviewArtifact
<1>2. CASE DeleteTask(t, c)
  BY <1>2, NoClosureFair, OneClosure DEF DeleteTask
<1>3. CASE Update(t, c)
  <2>1. CASE \/ UpdateStatus(t, c) \/ UpdateCancel(t, c) \/ \E a \in Agent : UpdateAssignee(t, c, a)
             \/ UpdateLinks(t, c) \/ ReplaceDependsOn(t, c) \/ \E A \in SUBSET Task : AddDependsOn(t, c, A)
    BY <2>1, QuietClosure
    DEF UpdateStatus, UpdateCancel, UpdateAssignee, UpdateLinks, ReplaceDependsOn, AddDependsOn
  <2>2. CASE UpdateDone(t, c)
    BY <2>2, UpdateDoneClosure
  <2>3. CASE UpdateTyped(t, c)
    BY <2>3, TypedClosure
  <2> QED BY <1>3, <2>1, <2>2, <2>3 DEF Update
<1>4. CASE Complete(t, c)
  BY <1>4, CompleteClosure
<1>5. CASE FailTask(t, c)
  BY <1>5, FailClosure
<1> QED BY <1>1, <1>2, <1>3, <1>4, <1>5 DEF Call

LEMMA AutomaticClosure ==
  ASSUME ClosureInv, ClockInv, Automation
  PROVE  ClosureInv'
<1>1. CASE \E t \in Task : CreateByAutomation(t)
  BY <1>1, QuietClosure DEF CreateByAutomation
<1>2. CASE \E S \in SUBSET Task : CloseMatched(S)
  BY <1>2, AutomationClosure DEF CloseMatched
<1>3. CASE \E m \in Mission : CascadeCloseMission(m) \/ ResolveStaleMission(m)
  <2>1. \A m, statuses : InMission(m, statuses) \in SUBSET Task
    BY DEF InMission
  <2> QED BY <1>3, <2>1, AutomationClosure DEF CascadeCloseMission, ResolveStaleMission
<1>4. CASE \E m \in Mission : UpdateMission(m)
  BY <1>4, QuietClosure DEF UpdateMission
<1> QED BY <1>1, <1>2, <1>3, <1>4 DEF Automation

LEMMA ClosureInductive == ClosureInv /\ ClockInv /\ [Next]_vars => ClosureInv'
<1> SUFFICES ASSUME ClosureInv, ClockInv, [Next]_vars PROVE ClosureInv'
  OBVIOUS
<1>1. CASE UNCHANGED vars
  BY <1>1, QuietClosure DEF vars
<1>2. CASE Tick
  BY <1>2, TickClosure
<1>3. CASE \E c \in Caller, t \in Task : Call(t, c)
  BY <1>3, CallClosure
<1>4. CASE \E c \in Caller : BulkComplete(c)
  BY <1>4, BulkClosure
<1>5. CASE Automation
  BY <1>5, AutomaticClosure
<1> QED BY <1>1, <1>2, <1>3, <1>4, <1>5 DEF Next

LEMMA InitRows == Init => TableTyped /\ ClosureInv
<1> SUFFICES ASSUME Init PROVE TableTyped /\ ClosureInv
  OBVIOUS
<1>1. TableTyped
  BY NoActorsTyped, NoLinksTyped, NoWaitingTyped
  DEF Init, Fresh, TableTyped, ActorTyped, LinkTyped, WaitingTyped, MissionTyped, NoticesTyped
<1>2. NoClosure \in Closure
  BY NoClosureFair DEF Fair
<1>3. ClosureInv
  BY <1>2, NoClosureFair DEF Init, Fresh, ClosureInv
<1> QED BY <1>1, <1>3

\* The whole row is typed, and its closure is fair.
RowsInv == ClockInv /\ TableTyped /\ ClosureInv

LEMMA RowsSafe == Spec => []RowsInv
<1>1. Init => RowsInv
  BY InitClockInv, InitRows DEF RowsInv
<1>2. RowsInv /\ [Next]_vars => RowsInv'
  BY ClockInvInductive, TableInductive, ClosureInductive DEF RowsInv
<1> QED BY <1>1, <1>2, PTL DEF Spec

\* Every column of a row holds what the schema declares, the minutes that a
\* closure computes included (convex/tasks.ts, every mutation).
THEOREM TableTypeCorrect == Spec => []TypeOK
<1>1. RowsInv => TypeOK
  BY DEF RowsInv, ClockInv, TableTyped, ActorTyped, LinkTyped, WaitingTyped, MissionTyped,
         NoticesTyped, ClosureInv, TypeOK
<1> QED BY <1>1, RowsSafe, PTL

\* No closure computes more minutes than have passed, but for one: the
\* segments it adds up lie side by side.
THEOREM BilledTimeElapsed == Spec => []BilledWithinElapsed
<1>1. RowsInv => BilledWithinElapsed
  BY DEF RowsInv, ClosureInv, Fair, BilledWithinElapsed
<1> QED BY <1>1, RowsSafe, PTL

-----------------------------------------------------------------------------
(* The mission, and the cap.                                               *)

\* The last task to be done closes its mission in the transaction that closes
\* it: no row of the mission can be left, waiters put back to todo included.
THEOREM CompleteLeavesNothing == Spec => CompleteClosesMission
<1>1. RowsInv /\ [Next]_vars =>
        [\A m \in Mission : mission[m] # "complete" /\ mission'[m] = "complete" =>
           \/ \A x \in Task : Exists(x)' /\ link'[x].mission = m => status'[x] = "done"
           \/ ~\E t \in Task, c \in Caller : Complete(t, c)]_mission
  <2> SUFFICES ASSUME RowsInv,
                      NEW m \in Mission, mission[m] # "complete", mission'[m] = "complete",
                      NEW t \in Task, NEW c \in Caller, Complete(t, c),
                      NEW x \in Task, Exists(x)', link'[x].mission = m
               PROVE  status'[x] = "done"
    OBVIOUS
  <2>1. link[t].mission = m /\ \A y \in Task \ {t} : Exists(y) /\ link[y].mission = m => status[y] = "done"
    <3>1. mission \in [Mission -> {"execute", "complete", "cancelled"}]
      BY DEF RowsInv, TableTyped, MissionTyped
    <3>2. mission' = MissionAfter(t)
      BY DEF Complete
    <3> QED BY <3>1, <3>2 DEF MissionAfter
  <2>2. link' = link /\ status' = [y \in Task |-> IF y = t THEN "done"
                                               ELSE IF y \in Waiters(t) THEN "todo" ELSE status[y]]
    BY DEF Complete, DoneAndSweep
  <2>3. x \in Waiters(t) => Exists(x) /\ status[x] # "done"
    BY DEF Waiters, Exists, NoRow
  <2> QED BY <2>1, <2>2, <2>3 DEF Exists
<1> QED BY <1>1, RowsSafe, PTL DEF Spec, CompleteClosesMission

-----------------------------------------------------------------------------
\* The rows an agent holds are not more than before.
LEMMA FewerHeld ==
  ASSUME NEW a, NEW p, ~AboveCap(a, p),
         \A x \in Task : status'[x] = "in_progress" =>
           /\ status[x] = "in_progress"
           /\ actor'[x].assignedTo = actor[x].assignedTo
           /\ link'[x].project = link[x].project
  PROVE  ~AboveCap(a, p)'
<1>1. HeldBy(a, p)' \subseteq HeldBy(a, p) /\ HeldBy(a, p) \subseteq Task
  BY DEF HeldBy
<1>2. IsFiniteSet(HeldBy(a, p)) /\ IsFiniteSet(HeldBy(a, p)') 
  BY <1>1, FS_Subset, TasksAssumption
<1>3. /\ Cardinality(HeldBy(a, p)') <= Cardinality(HeldBy(a, p))
      /\ Cardinality(HeldBy(a, p)') \in Nat /\ Cardinality(HeldBy(a, p)) \in Nat
  BY <1>1, <1>2, FS_Subset, FS_CardinalityType
<1>4. ~(Cardinality(HeldBy(a, p)) > InProgressCap)
  BY DEF AboveCap
<1>5. ~(Cardinality(HeldBy(a, p)') > InProgressCap)
  BY <1>3, <1>4, TasksAssumption
<1> QED BY <1>5 DEF AboveCap

\* start and resume count the caller's rows first.
LEMMA CountedStart ==
  ASSUME RowsInv, NEW a \in Agent, NEW p, ~AboveCap(a, p),
         NEW t \in Task, BelowCap(t, a),
         status' = [status EXCEPT ![t] = "in_progress"], UNCHANGED <<actor, link>>
  PROVE  ~AboveCap(a, p)'
<1>0. status \in [Task -> Status \cup NoRow]
  BY DEF RowsInv, ClockInv, ClockTyped
<1>1. CASE actor[t].assignedTo = a /\ link[t].project = p
  <2> DEFINE H == HeldBy(a, p) \ {t}
  <2>1. HeldBy(a, p)' \subseteq H \cup {t} /\ H \subseteq Task
    BY <1>0 DEF HeldBy
  <2>2. IsFiniteSet(H) /\ IsFiniteSet(H \cup {t})
    BY <2>1, FS_Subset, FS_AddElement, TasksAssumption
  <2>3. t \notin H
    OBVIOUS
  <2>4. Cardinality(H) < InProgressCap
    BY <1>1 DEF BelowCap
  <2> HIDE DEF H
  <2>5. Cardinality(H \cup {t}) = Cardinality(H) + 1 /\ Cardinality(H) \in Nat
    BY <2>2, <2>3, FS_AddElement, FS_CardinalityType
  <2>6. IsFiniteSet(HeldBy(a, p)') /\ Cardinality(HeldBy(a, p)') <= Cardinality(H \cup {t})
    BY <2>1, <2>2, FS_Subset
  <2>7. Cardinality(HeldBy(a, p)') \in Nat
    BY <2>6, FS_CardinalityType
  <2>8. ~(Cardinality(HeldBy(a, p)') > InProgressCap)
    BY <2>4, <2>5, <2>6, <2>7, TasksAssumption
  <2> QED BY <2>8 DEF AboveCap
<1>2. CASE ~(actor[t].assignedTo = a /\ link[t].project = p)
  <2>1. HeldBy(a, p)' \subseteq HeldBy(a, p) /\ HeldBy(a, p) \subseteq Task
    BY <1>0, <1>2 DEF HeldBy
  <2>2. IsFiniteSet(HeldBy(a, p))
    BY <2>1, FS_Subset, TasksAssumption
  <2>3. /\ IsFiniteSet(HeldBy(a, p)') /\ Cardinality(HeldBy(a, p)') <= Cardinality(HeldBy(a, p))
    BY <2>1, <2>2, FS_Subset
  <2>4. Cardinality(HeldBy(a, p)') \in Nat /\ Cardinality(HeldBy(a, p)) \in Nat
    BY <2>2, <2>3, FS_CardinalityType
  <2>5. ~(Cardinality(HeldBy(a, p)) > InProgressCap)
    BY DEF AboveCap
  <2>6. ~(Cardinality(HeldBy(a, p)') > InProgressCap)
    BY <2>3, <2>4, <2>5, TasksAssumption
  <2> QED BY <2>6 DEF AboveCap
<1> QED BY <1>1, <1>2

\* One row leaves, or stays out of, in_progress.
LEMMA OneLess ==
  ASSUME RowsInv, NEW a, NEW p, ~AboveCap(a, p), NEW t \in Task, NEW s, s # "in_progress",
         status' = [status EXCEPT ![t] = s], UNCHANGED <<actor, link>>
  PROVE  ~AboveCap(a, p)'
<1>1. status \in [Task -> Status \cup NoRow]
  BY DEF RowsInv, ClockInv, ClockTyped
<1>2. \A x \in Task : status'[x] = "in_progress" => status[x] = "in_progress"
  BY <1>1
<1> QED BY <1>2, FewerHeld

LEMMA CountedKept ==
  ASSUME RowsInv, NEW a \in Agent, NEW p, ~AboveCap(a, p), CountedFor(a)
  PROVE  ~AboveCap(a, p)'
<1>0. /\ status \in [Task -> Status \cup NoRow]
      /\ actor \in [Task -> Actors] /\ link \in [Task -> Links]
  BY DEF RowsInv, ClockInv, ClockTyped, TableTyped, ActorTyped, LinkTyped
<1>1. CASE \E t \in Task : Start(t, a) \/ Resume(t, a)
  BY <1>1, CountedStart DEF Start, Resume
<1>2. CASE \E t \in Task, c \in Caller : Pause(t, c) \/ Block(t, c) \/ FailTask(t, c) \/ UpdateCancel(t, c)
  BY <1>2, OneLess DEF Pause, Block, BlockOnTask, BlockOnNobody, MarkBlocked, FailTask, UpdateCancel
<1>3. CASE \E t \in Task, c \in Caller : Complete(t, c) \/ UpdateDone(t, c)
  <2>1. PICK t \in Task : DoneAndSweep(t) /\ UNCHANGED <<actor, link>>
    BY <1>3 DEF Complete, UpdateDone
  <2>2. \A x \in Task : status'[x] = "in_progress" => status[x] = "in_progress"
    BY <2>1 DEF DoneAndSweep
  <2> QED BY <2>1, <2>2, FewerHeld
<1>4. CASE \E t \in Task, c \in Caller : DeleteTask(t, c)
  <2>1. PICK t \in Task : /\ status' = [status EXCEPT ![t] = "deleted"]
                          /\ actor' = [actor EXCEPT ![t] = NoActors]
                          /\ link' = [link EXCEPT ![t] = NoLinks]
    BY <1>4 DEF DeleteTask
  <2>2. \A x \in Task : status'[x] = "in_progress" =>
           status[x] = "in_progress" /\ actor'[x] = actor[x] /\ link'[x] = link[x]
    BY <1>0, <2>1
  <2> QED BY <2>2, FewerHeld
<1>5. CASE \E t \in Task, c \in Caller : AttachReviewArtifact(t, c)
  <2>1. PICK t \in Task, c \in Caller : /\ actor' = [actor EXCEPT ![t].attachedBy = c]
                                        /\ UNCHANGED <<status, link>>
    BY <1>5 DEF AttachReviewArtifact
  <2>2. \A x \in Task : actor'[x].assignedTo = actor[x].assignedTo
    BY <1>0, <2>1 DEF Actors
  <2> QED BY <2>1, <2>2, FewerHeld
<1>6. CASE \E c \in Caller : BulkComplete(c)
  <2>1. \E S \in SUBSET Task : status' = [x \in Task |-> IF x \in S THEN "done" ELSE status[x]] /\ UNCHANGED <<actor, link>>
    BY <1>6 DEF BulkComplete
  <2>2. \A x \in Task : status'[x] = "in_progress" => status[x] = "in_progress"
    BY <2>1
  <2> QED BY <2>1, <2>2, FewerHeld
<1>7. CASE Automation
  <2>1. CASE \E t \in Task : CreateByAutomation(t)
    <3>1. PICK t \in Task : CreateByAutomation(t)
      BY <2>1
    <3>2. \A x \in Task : status'[x] = "in_progress" =>
             status[x] = "in_progress" /\ actor'[x] = actor[x] /\ link'[x] = link[x]
      BY <1>0, <3>1 DEF CreateByAutomation
    <3> QED BY <3>2, FewerHeld
  <2>2. CASE \E S : CloseByAutomation(S)
    <3>1. (\A x \in Task : status'[x] = "in_progress" => status[x] = "in_progress") /\ UNCHANGED <<actor, link>>
      BY <2>2 DEF CloseByAutomation
    <3> QED BY <3>1, FewerHeld
  <2>3. CASE \E m \in Mission : UpdateMission(m)
    BY <2>3, FewerHeld DEF UpdateMission
  <2> QED BY <1>7, <2>1, <2>2, <2>3 DEF Automation, CloseMatched, CascadeCloseMission, ResolveStaleMission
<1> QED BY <1>1, <1>2, <1>3, <1>4, <1>5, <1>6, <1>7 DEF CountedFor

\* The doors that count, and the ones that only end work, never take an agent
\* above the cap, whoever calls them and in whatever order.
THEOREM OwnersStayBelowCap == Spec => OwnersHoldCap
<1>1. RowsInv /\ [Next]_vars =>
        [\A a \in Agent, p \in Project \cup {Undefined} :
           AboveCap(a, p)' => AboveCap(a, p) \/ ~CountedFor(a)]_<<status, actor, link>>
  BY CountedKept
<1> QED BY <1>1, RowsSafe, PTL DEF Spec, OwnersHoldCap

-----------------------------------------------------------------------------
(* The lists of dependencies.                                              *)

\* The lists of dependencies, as one function, and the absence of cycles in it.
Lists(l) == [x \in Task |-> l[x].dependsOn]
ClosedUnder(d, S) == \A y \in S : d[y] \subseteq S
Apart(d, x, S) == d[x] \subseteq S /\ ClosedUnder(d, S) /\ x \notin S
Acyclic(d) == \A x \in Task : \E S \in SUBSET Task : Apart(d, x, S)

\* The same, in the terms of the model.
LEMMA AcyclicHere == DependsAcyclic <=> Acyclic(Lists(link))
<1>1. \A x \in Task : Lists(link)[x] = Depends(x)
  BY DEF Lists, Depends
<1> QED BY <1>1 DEF DependsAcyclic, Reached, Acyclic, Apart, ClosedUnder

LEMMA AcyclicNext == DependsAcyclic' <=> Acyclic(Lists(link'))
<1>1. \A x \in Task : Lists(link')[x] = Depends(x)'
  BY DEF Lists, Depends
<1> QED BY <1>1 DEF DependsAcyclic, Reached, Acyclic, Apart, ClosedUnder

\* Lists that only lose entries close no cycle.
LEMMA ShrinkAcyclic ==
  ASSUME NEW d, NEW e, Acyclic(d), \A x \in Task : e[x] \subseteq d[x]
  PROVE  Acyclic(e)
  BY DEF Acyclic, Apart, ClosedUnder

\* Neither does a row that nothing lists.
LEMMA InsertAcyclic ==
  ASSUME NEW d \in [Task -> SUBSET Task], NEW e \in [Task -> SUBSET Task], Acyclic(d),
         NEW t \in Task, \A x \in Task : t \notin e[x], \A x \in Task \ {t} : e[x] = d[x]
  PROVE  Acyclic(e)
<1>1. Apart(e, t, Task \ {t})
  BY DEF Apart, ClosedUnder
<1>2. ASSUME NEW x \in Task \ {t} PROVE \E S \in SUBSET Task : Apart(e, x, S)
  <2>1. PICK S \in SUBSET Task : Apart(d, x, S)
    BY DEF Acyclic
  <2>2. Apart(e, x, S \ {t})
    BY <2>1 DEF Apart, ClosedUnder
  <2> QED BY <2>2
<1> QED BY <1>1, <1>2 DEF Acyclic

\* Nor do added ids from which no walk comes back to the row.
LEMMA AppendAcyclic ==
  ASSUME NEW d \in [Task -> SUBSET Task], NEW e \in [Task -> SUBSET Task], Acyclic(d),
         NEW t \in Task, NEW A \in SUBSET Task, NEW N \in SUBSET Task,
         A \subseteq N, ClosedUnder(d, N), t \notin N,
         e[t] = d[t] \cup A, \A x \in Task \ {t} : e[x] = d[x]
  PROVE  Acyclic(e)
<1> SUFFICES ASSUME NEW x \in Task PROVE \E S \in SUBSET Task : Apart(e, x, S)
  BY DEF Acyclic
<1>1. PICK S \in SUBSET Task : Apart(d, x, S)
  BY DEF Acyclic
<1>2. CASE x = t
  <2>1. Apart(e, x, S \cup N)
    BY <1>1, <1>2 DEF Apart, ClosedUnder
  <2> QED BY <2>1
<1>3. CASE x # t /\ t \notin S
  <2>1. Apart(e, x, S)
    BY <1>1, <1>3 DEF Apart, ClosedUnder
  <2> QED BY <2>1
<1>4. CASE x # t /\ t \in S /\ x \in N
  <2>1. Apart(e, x, S \cap N)
    BY <1>1, <1>4 DEF Apart, ClosedUnder
  <2> QED BY <2>1
<1>5. CASE x # t /\ t \in S /\ x \notin N
  <2>1. Apart(e, x, S \cup N)
    BY <1>1, <1>5 DEF Apart, ClosedUnder
  <2> QED BY <2>1
<1> QED BY <1>2, <1>3, <1>4, <1>5

\* create lists any ids that were handed out.
LEMMA InsertedLists ==
  ASSUME NEW t \in Task, NEW c, Create(t, c)
  PROVE  \E l \in Links : /\ link' = [link EXCEPT ![t] = l]
                          /\ l.dependsOn \in SUBSET {y \in Task : Used(y)}
<1>1. PICK p \in Project \cup {Undefined}, m \in Mission \cup {Undefined},
        D \in SUBSET {d \in Task : Used(d)} :
       link' = [link EXCEPT ![t] = [project |-> p, mission |-> m, dependsOn |-> D]]
  BY DEF Create
<1>2. [project |-> p, mission |-> m, dependsOn |-> D] \in Links
  BY DEF Links
<1>3. [project |-> p, mission |-> m, dependsOn |-> D].dependsOn = D
  OBVIOUS
<1> QED BY <1>1, <1>2, <1>3

\* A row lists ids that were once handed out, so none lists a row to come.
ListsUsed == \A x, y \in Task : y \in link[x].dependsOn => Used(y)

\* Only create, update and deletion write the lists.
LEMMA ListsUsedInductive == RowsInv /\ ListsUsed /\ [Next]_vars => ListsUsed'
<1> SUFFICES ASSUME RowsInv, ListsUsed, [Next]_vars PROVE ListsUsed'
  OBVIOUS
<1>0. /\ status \in [Task -> Status \cup NoRow] /\ link \in [Task -> Links]
  BY DEF RowsInv, ClockInv, ClockTyped, TableTyped, LinkTyped
<1>a. ASSUME \A x \in Task : link'[x].dependsOn \subseteq {y \in Task : Used(y)},
             \A x \in Task : Used(x) => Used(x)'
      PROVE  ListsUsed'
  BY <1>a DEF ListsUsed
<1>b. \A x \in Task : link[x].dependsOn \subseteq {y \in Task : Used(y)}
  BY <1>0 DEF ListsUsed, Links
<1>1. \A x \in Task : Used(x) => Used(x)'
  <2>1. ASSUME NEW t \in Task, NEW s, s # "absent", status' = [status EXCEPT ![t] = s]
        PROVE  \A x \in Task : Used(x) => Used(x)'
    BY <1>0, <2>1 DEF Used
  <2>2. ASSUME NEW t \in Task, NEW c \in Caller, Call(t, c) PROVE \A x \in Task : Used(x) => Used(x)'
    <3>1. CASE Create(t, c) \/ DeleteTask(t, c) \/ Clock(t, c) \/ Block(t, c) \/ FailTask(t, c)
      <4>1. UNCHANGED status \/ \E s : s # "absent" /\ status' = [status EXCEPT ![t] = s]
        BY <3>1 DEF Create, DeleteTask, Clock, Start, Pause, Resume, Checkout, CorrectSegment,
           Block, BlockOnTask, BlockOnNobody, MarkBlocked, FailTask, Status, OpenStatus
      <4> QED BY <2>1, <4>1 DEF Used
    <3>2. CASE Complete(t, c) \/ UpdateDone(t, c)
      BY <3>2 DEF Complete, UpdateDone, DoneAndSweep, Used
    <3>3. CASE AttachReviewArtifact(t, c)
      BY <3>3 DEF AttachReviewArtifact, Used
    <3>4. CASE Update(t, c)
      <4>1. CASE UpdateStatus(t, c) \/ UpdateCancel(t, c)
        BY <2>1, <4>1 DEF UpdateStatus, UpdateCancel
      <4>2. CASE \/ \E a \in Agent : UpdateAssignee(t, c, a)
                 \/ UpdateLinks(t, c) \/ ReplaceDependsOn(t, c) \/ UpdateTyped(t, c)
                 \/ \E A \in SUBSET Task : AddDependsOn(t, c, A)
        BY <4>2 DEF UpdateAssignee, UpdateLinks, ReplaceDependsOn, AddDependsOn, UpdateTyped, Used
      <4> QED BY <3>2, <3>4, <4>1, <4>2 DEF Update
    <3> QED BY <2>2, <3>1, <3>2, <3>3, <3>4 DEF Call
  <2>3. CASE \E c \in Caller : BulkComplete(c)
    BY <2>3 DEF BulkComplete, Used
  <2>4. CASE Automation
    <3>1. CASE \E t \in Task : CreateByAutomation(t)
      BY <2>1, <3>1 DEF CreateByAutomation
    <3>2. CASE \E S : CloseByAutomation(S)
      BY <3>2 DEF CloseByAutomation, Used
    <3>3. CASE \E m \in Mission : UpdateMission(m)
      BY <3>3 DEF UpdateMission, Used
    <3> QED BY <2>4, <3>1, <3>2, <3>3 DEF Automation, CloseMatched, CascadeCloseMission, ResolveStaleMission
  <2>5. CASE Tick \/ UNCHANGED vars
    BY <2>5 DEF Tick, vars, Used
  <2> QED BY <2>2, <2>3, <2>4, <2>5 DEF Next
<1>2. \A x \in Task : link'[x].dependsOn \subseteq {y \in Task : Used(y)}
  <2>1. CASE UNCHANGED link
    BY <1>b, <2>1
  <2>2. ASSUME NEW t \in Task, NEW D \in SUBSET {y \in Task : Used(y)}, link' = [link EXCEPT ![t].dependsOn = D]
        PROVE  \A x \in Task : link'[x].dependsOn \subseteq {y \in Task : Used(y)}
    BY <1>0, <1>b, <2>2 DEF Links
  <2>3. ASSUME NEW t \in Task, NEW c \in Caller, Call(t, c)
        PROVE  \A x \in Task : link'[x].dependsOn \subseteq {y \in Task : Used(y)}
    <3>1. CASE Create(t, c)
      <4>1. PICK l \in Links : /\ link' = [link EXCEPT ![t] = l]
                              /\ l.dependsOn \in SUBSET {y \in Task : Used(y)}
        BY <3>1, InsertedLists
      <4> QED BY <1>0, <1>b, <4>1
    <3>2. CASE DeleteTask(t, c)
      BY <1>0, <1>b, <3>2 DEF DeleteTask, NoLinks
    <3>3. CASE UpdateLinks(t, c)
      BY <1>0, <1>b, <3>3 DEF UpdateLinks, Links
    <3>4. CASE ReplaceDependsOn(t, c)
      BY <2>2, <3>4 DEF ReplaceDependsOn
    <3>5. CASE \E A \in SUBSET Task : AddDependsOn(t, c, A)
      <4>1. PICK A \in SUBSET Task : AddDependsOn(t, c, A)
        BY <3>5
      <4>2. link[t].dependsOn \cup (A \ link[t].dependsOn) \in SUBSET {y \in Task : Used(y)}
        BY <1>b, <4>1 DEF AddDependsOn, Exists, Used, NoRow
      <4> QED BY <2>2, <4>1, <4>2 DEF AddDependsOn
    <3>6. \/ Create(t, c) \/ DeleteTask(t, c) \/ UpdateLinks(t, c) \/ ReplaceDependsOn(t, c)
          \/ \E A \in SUBSET Task : AddDependsOn(t, c, A)
          \/ UNCHANGED link
      BY <2>3 DEF Call, Clock, Start, Pause, Resume, Checkout, CorrectSegment,
         Block, BlockOnTask, BlockOnNobody, MarkBlocked, FailTask, Complete, Update, UpdateStatus,
         UpdateDone, UpdateCancel, UpdateAssignee, UpdateTyped, AttachReviewArtifact
    <3> QED BY <1>b, <3>1, <3>2, <3>3, <3>4, <3>5, <3>6
  <2>4. CASE \E t \in Task : CreateByAutomation(t)
    BY <1>0, <1>b, <2>4 DEF CreateByAutomation, Links
  <2>5. \/ UNCHANGED link \/ \E t \in Task : CreateByAutomation(t)
        \/ \E c \in Caller, t \in Task : Call(t, c)
    BY DEF Next, Tick, BulkComplete, Automation, CloseMatched, CascadeCloseMission, ResolveStaleMission,
       CloseByAutomation, UpdateMission, vars
  <2> QED BY <1>b, <2>3, <2>4, <2>5
<1> QED BY <1>1, <1>2, <1>a

LEMMA ListsSafe == Spec => [](RowsInv /\ ListsUsed)
<1>1. Init => ListsUsed
  BY DEF Init, ListsUsed, NoLinks
<1> QED BY <1>1, RowsSafe, ListsUsedInductive, PTL DEF Spec

\* An addition that gets through closes no cycle.
LEMMA AppendStep ==
  ASSUME RowsInv, RowsInv', ListsUsed, NEW t \in Task, NEW c \in Caller, DependsAcyclic,
         \/ \E A \in SUBSET Task : AddDependsOn(t, c, A)
         \/ Create(t, c) \/ CreateByAutomation(t) \/ DeleteTask(t, c)
         \/ UpdateLinks(t, c)
  PROVE  DependsAcyclic'
<1> DEFINE d == Lists(link)
           e == Lists(link')
<1>0. link \in [Task -> Links] /\ link' \in [Task -> Links]
  BY DEF RowsInv, TableTyped, LinkTyped
<1>1. d \in [Task -> SUBSET Task] /\ e \in [Task -> SUBSET Task]
  BY <1>0 DEF Lists, Links
<1>2. \A x \in Task : d[x] = link[x].dependsOn /\ e[x] = link'[x].dependsOn
  BY DEF Lists
<1>3. Acyclic(d)
  BY AcyclicHere
<1> HIDE DEF d, e
<1>4. CASE \E A \in SUBSET Task : AddDependsOn(t, c, A)
  <2>1. PICK B \in SUBSET Task : AddDependsOn(t, c, B)
    BY <1>4
  <2> DEFINE A == B \ link[t].dependsOn
  <2>2. t \notin Reached(A) /\ link' = [link EXCEPT ![t].dependsOn = @ \cup A]
    BY <2>1 DEF AddDependsOn, ReachesBack
  <2>3. PICK N \in SUBSET Task : A \subseteq N /\ (\A y \in N : Depends(y) \subseteq N) /\ t \notin N
    BY <2>2 DEF Reached
  <2>4. ClosedUnder(d, N)
    BY <1>2, <2>3 DEF ClosedUnder, Depends
  <2>5. e[t] = d[t] \cup A /\ \A x \in Task \ {t} : e[x] = d[x]
    BY <1>0, <1>2, <2>2 DEF Links
  <2>6. A \in SUBSET Task
    OBVIOUS
  <2> HIDE DEF A
  <2>7. Acyclic(e)
    BY <1>1, <1>3, <2>3, <2>4, <2>5, <2>6, AppendAcyclic
  <2> QED BY <2>7, AcyclicNext DEF e
<1>5. CASE Create(t, c)
  <2>1. PICK l \in Links : /\ link' = [link EXCEPT ![t] = l]
                          /\ l.dependsOn \in SUBSET {y \in Task : Used(y)}
    BY <1>5, InsertedLists
  <2>2. ~Used(t)
    BY <1>5 DEF Create, Used
  <2>3. \A x \in Task : t \notin e[x]
    BY <1>0, <1>2, <2>1, <2>2 DEF ListsUsed
  <2>4. \A x \in Task \ {t} : e[x] = d[x]
    BY <1>0, <1>2, <2>1
  <2>5. Acyclic(e)
    BY <1>1, <1>3, <2>3, <2>4, InsertAcyclic
  <2> QED BY <2>5, AcyclicNext DEF e
<1>6. CASE CreateByAutomation(t) \/ DeleteTask(t, c) \/ UpdateLinks(t, c)
  <2>1. \A x \in Task : e[x] \subseteq d[x]
    <3>1. CASE CreateByAutomation(t) \/ UpdateLinks(t, c)
      <4>1. \E v : \/ link' = [link EXCEPT ![t].project = v]
                  \/ link' = [link EXCEPT ![t].mission = v]
        BY <3>1 DEF CreateByAutomation, UpdateLinks
      <4>2. \A x \in Task : link'[x].dependsOn = link[x].dependsOn
        BY <1>0, <4>1 DEF Links
      <4> QED BY <1>2, <4>2
    <3>2. CASE DeleteTask(t, c)
      <4>1. \A x \in Task : link'[x].dependsOn \subseteq link[x].dependsOn
        BY <1>0, <3>2 DEF DeleteTask, NoLinks
      <4> QED BY <1>2, <4>1
    <3> QED BY <1>6, <3>1, <3>2
  <2>2. Acyclic(e)
    BY <1>3, <2>1, ShrinkAcyclic
  <2> QED BY <2>2, AcyclicNext DEF e
<1> QED BY <1>4, <1>5, <1>6

\* However additions, insertions and deletions interleave, none closes a cycle.
THEOREM AppendsNeverCycle == Spec => AppendedStayAcyclic
<1>1. (RowsInv /\ ListsUsed) /\ (RowsInv /\ ListsUsed)' /\ [Next]_vars =>
        [~DependsAcyclic' =>
           \/ ~DependsAcyclic
           \/ ~\E t \in Task, c \in Caller :
                 \/ \E A \in SUBSET Task : AddDependsOn(t, c, A)
                 \/ Create(t, c) \/ CreateByAutomation(t) \/ DeleteTask(t, c)
                 \/ UpdateLinks(t, c)]_link
  BY AppendStep
<1> QED BY <1>1, ListsSafe, PTL DEF Spec, AppendedStayAcyclic

-----------------------------------------------------------------------------
(* The rows of others.                                                     *)

\* What may become of a row in which agent a has no part.
LeftAlone(a, t) ==
  \/ Row(t)' = Row(t)
  \/ status[t] = "todo" /\ status'[t] = "in_progress"
  \/ /\ status[t] = "blocked" /\ status'[t] = "todo"
     /\ \E x \in Task : waiting[t].on = x /\ status'[x] = "done"
  \/ actor'[t] = [actor[t] EXCEPT !.attachedBy = a]
  \/ /\ actor[t].origin = "automation" /\ actor[t].isReview
     /\ a \in ReviewCoordinator \cup {RepoOwner}
     /\ actor'[t].assignedTo # RepoOwner /\ status'[t] = status[t]
  \/ /\ actor[t].origin # "human" /\ status'[t] = "cancelled"
     /\ a \in AutomationCanceller

\* The columns of row t are the ones they were.
SameRow(t) ==
  /\ status'[t] = status[t] /\ actor'[t] = actor[t] /\ link'[t] = link[t]
  /\ startedAt'[t] = startedAt[t] /\ pausedAt'[t] = pausedAt[t]
  /\ workSegments'[t] = workSegments[t] /\ closure'[t] = closure[t] /\ waiting'[t] = waiting[t]

\* A row that no column of changed is left alone.
LEMMA SameRowAlone ==
  ASSUME NEW a, NEW t, SameRow(t)
  PROVE  LeftAlone(a, t)
  BY DEF SameRow, LeftAlone, Row

\* No part, no authority.
LEMMA Unauthorized ==
  ASSUME NEW a \in Agent, NEW t \in Task, ~HasPart(a, t)
  PROVE  /\ ~Authorized(t, a) /\ ~MayRetire(t, a)
         /\ ~IsActor(a, actor[t].createdBy) /\ ~IsActor(a, actor[t].assignedTo)
         /\ a \notin Member /\ a # Fleet
  BY TasksAssumption DEF HasPart, Authorized, MayRetire, IsActor

\* Every column has a row for every task.
LEMMA Columns ==
  ASSUME RowsInv
  PROVE  /\ status \in [Task -> Status \cup NoRow] /\ actor \in [Task -> Actors]
         /\ link \in [Task -> Links]
         /\ startedAt \in [Task -> OptTime] /\ pausedAt \in [Task -> OptTime]
         /\ workSegments \in [Task -> Seq(Segment)]
         /\ closure \in [Task -> Closure] /\ waiting \in [Task -> Waiting]
  BY DEF RowsInv, ClockInv, ClockTyped, TableTyped, ActorTyped, LinkTyped, WaitingTyped, ClosureInv

\* A call on another row leaves the row alone, or sweeps it.
LEMMA OtherRow ==
  ASSUME RowsInv, NEW a, NEW t \in Task, NEW x \in Task \ {t}, NEW c, Call(x, c)
  PROVE  LeftAlone(a, t)
<1>1. CASE Complete(x, c) \/ UpdateDone(x, c)
  <2>1. DoneAndSweep(x) /\ EndRecordedTime({x})
        /\ UNCHANGED <<actor, link, startedAt, pausedAt>>
    BY <1>1 DEF Complete, UpdateDone
  <2>2. closure'[t] = closure[t] /\ workSegments'[t] = workSegments[t]
    BY <1>1, Columns DEF Complete, UpdateDone, EndRecordedTime
  <2>3. CASE t \in Waiters(x)
    BY <2>1, <2>3 DEF DoneAndSweep, Waiters, LeftAlone
  <2>4. CASE t \notin Waiters(x)
    <3>1. status'[t] = status[t] /\ waiting'[t] = waiting[t]
      BY <2>1, <2>4 DEF DoneAndSweep
    <3> QED BY <2>1, <2>2, <3>1, SameRowAlone DEF SameRow
  <2> QED BY <2>3, <2>4
<1>2. CASE Create(x, c) \/ DeleteTask(x, c)
  <2>1. SameRow(t)
    BY <1>2, Columns DEF Create, DeleteTask, SameRow, timeVars
  <2> QED BY <2>1, SameRowAlone
<1>3. CASE Clock(x, c)
  <2>1. SameRow(t)
    BY <1>3, Columns DEF Clock, Start, Pause, Resume, Checkout, CorrectSegment, SameRow
  <2> QED BY <2>1, SameRowAlone
<1>4. CASE Block(x, c) \/ FailTask(x, c)
  <2>1. SameRow(t)
    BY <1>4, Columns DEF Block, BlockOnTask, BlockOnNobody, MarkBlocked, FailTask, SameRow
  <2> QED BY <2>1, SameRowAlone
<1>5. CASE UpdateStatus(x, c) \/ UpdateCancel(x, c) \/ UpdateTyped(x, c)
  <2>1. SameRow(t)
    BY <1>5, Columns DEF UpdateStatus, UpdateCancel, UpdateTyped, SameRow
  <2> QED BY <2>1, SameRowAlone
<1>6. CASE \/ \E b \in Agent : UpdateAssignee(x, c, b)
           \/ AttachReviewArtifact(x, c)
  <2>1. SameRow(t)
    BY <1>6, Columns DEF UpdateAssignee, AttachReviewArtifact, SameRow, timeVars
  <2> QED BY <2>1, SameRowAlone
<1>7. CASE \/ UpdateLinks(x, c) \/ ReplaceDependsOn(x, c)
           \/ \E A \in SUBSET Task : AddDependsOn(x, c, A)
  <2>1. SameRow(t)
    BY <1>7, Columns DEF UpdateLinks, ReplaceDependsOn, AddDependsOn, SameRow, timeVars
  <2> QED BY <2>1, SameRowAlone
<1> QED BY <1>1, <1>2, <1>3, <1>4, <1>5, <1>6, <1>7 DEF Call, Update

\* A call on the row itself gets through only where the code lets it.
LEMMA OwnRow ==
  ASSUME RowsInv, NEW a \in Agent, NEW t \in Task, Exists(t), ~HasPart(a, t), Call(t, a)
  PROVE  LeftAlone(a, t)
<1>1. CASE Create(t, a)
  BY <1>1 DEF Create, Exists, NoRow
<1>2. CASE Checkout(t, a)
  BY <1>2, Columns DEF Checkout, LeftAlone
<1>3. CASE UpdateCancel(t, a)
  BY <1>3, Unauthorized, Columns DEF UpdateCancel, MayCancelAutomation, LeftAlone
<1>4. CASE \E b \in Agent : UpdateAssignee(t, a, b)
  <2>1. PICK b \in Agent : UpdateAssignee(t, a, b)
    BY <1>4
  <2>2. MayReassignReview(t, a) /\ b # RepoOwner /\ status' = status
    BY <2>1, Unauthorized DEF UpdateAssignee
  <2>3. actor'[t].assignedTo = b
    BY <2>1, Columns DEF UpdateAssignee, Actors
  <2> QED BY <2>2, <2>3 DEF MayReassignReview, LeftAlone
<1>5. CASE AttachReviewArtifact(t, a)
  BY <1>5, Columns DEF AttachReviewArtifact, LeftAlone
<1>6. \/ Create(t, a) \/ Checkout(t, a) \/ UpdateCancel(t, a)
      \/ \E b \in Agent : UpdateAssignee(t, a, b)
      \/ AttachReviewArtifact(t, a)
  BY Unauthorized
  DEF Call, Clock, Block, Update, DeleteTask, Start, Pause, Resume, CorrectSegment, BlockOnTask,
      BlockOnNobody, UpdateStatus, UpdateDone, UpdateLinks, ReplaceDependsOn, AddDependsOn,
      UpdateTyped, Complete, FailTask
<1> QED BY <1>1, <1>2, <1>3, <1>4, <1>5, <1>6

\* Neither is a row of others among those an agent completes in bulk.
LEMMA BulkRow ==
  ASSUME RowsInv, NEW a \in Agent, NEW t \in Task, ~HasPart(a, t), BulkComplete(a)
  PROVE  LeftAlone(a, t)
<1>1. PICK S \in SUBSET Task, attested \in Attestation :
        /\ \A x \in S : \/ a = Fleet \/ IsActor(a, actor[x].createdBy) \/ IsActor(a, actor[x].assignedTo)
        /\ status' = [x \in Task |-> IF x \in S THEN "done" ELSE status[x]]
        /\ closure' = [x \in Task |->
             IF x \in S THEN SucceededAt(GateClosure(x, attested), now) ELSE closure[x]]
        /\ EndRecordedTime(S)
        /\ UNCHANGED <<now, actor, link, startedAt, pausedAt, waiting, mission, notices>>
  BY DEF BulkComplete
<1>2. t \notin S
  BY <1>1, Unauthorized
<1>3. SameRow(t)
  BY <1>1, <1>2 DEF SameRow, EndRecordedTime
<1> QED BY <1>3, SameRowAlone

\* Whatever an agent does, it reaches a row of others only through the doors
\* that are open to everyone, and the grants on automation rows.
THEOREM OutsidersKeptOut == Spec => OutsiderKeptOut
<1>1. RowsInv /\ [Next]_vars =>
        [\A a \in Agent, t \in Task : Exists(t) /\ ~HasPart(a, t) =>
           LeftAlone(a, t) \/ ~ActsAs(a)]_vars
  BY OtherRow, OwnRow, BulkRow DEF ActsAs
<1>2. (\A a \in Agent, t \in Task : Exists(t) /\ ~HasPart(a, t) => LeftAlone(a, t) \/ ~ActsAs(a))
      <=> (\A a \in Agent, t \in Task : Exists(t) /\ ~HasPart(a, t) =>
       \/ Row(t)' = Row(t)
       \/ status[t] = "todo" /\ status'[t] = "in_progress"
       \/ /\ status[t] = "blocked" /\ status'[t] = "todo"
          /\ \E x \in Task : waiting[t].on = x /\ status'[x] = "done"
       \/ actor'[t] = [actor[t] EXCEPT !.attachedBy = a]
       \/ /\ actor[t].origin = "automation" /\ actor[t].isReview
          /\ a \in ReviewCoordinator \cup {RepoOwner}
          /\ actor'[t].assignedTo # RepoOwner /\ status'[t] = status[t]
       \/ /\ actor[t].origin # "human" /\ status'[t] = "cancelled"
          /\ a \in AutomationCanceller
       \/ ~ActsAs(a))
  BY DEF LeftAlone
<1> QED BY <1>1, <1>2, RowsSafe, PTL DEF Spec, OutsiderKeptOut
=============================================================================
