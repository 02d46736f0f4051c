----------------------------- MODULE BulkDrain -----------------------------
(***************************************************************************)
(* bulkComplete beyond its cap (convex/tasks.ts): the first call closes a  *)
(* batch of the rows its filter matches, records the run and schedules     *)
(* bulkCompleteContinue, which closes the next batch with the arguments    *)
(* carried from the first call and schedules itself while rows remain.     *)
(* Between two batches the rows change hands, status and closability.      *)
(*                                                                         *)
(* The closure gate is the column "closable" here; Tasks has its detail.   *)
(***************************************************************************)
EXTENDS Integers, FiniteSets, Absence

CONSTANTS
  Task, Agent, Org, Run,
  Fleet,          \* the verified fleet caller, acting as "system"
  OrgOf,          \* the organisation of an agent
  Label,          \* agents.name; two organisations may use one label
  HardCap,        \* BULK_COMPLETE_HARD_CAP
  MaxChanges      \* bound: steps of everybody else

ASSUME BulkAssumption ==
  /\ OrgOf \in [Agent -> Org]
  /\ Fleet \notin Agent
  /\ Nothing \notin Run \cup Org \cup Agent
  /\ HardCap \in Nat \ {0}
  /\ IsFiniteSet(Task)
  /\ MaxChanges \in Nat

OpenStatus == {"todo", "in_progress", "review", "blocked"}
Labels == {Label[a] : a \in Agent}

Row == [status : OpenStatus \cup {"done", "absent"},
        org : Org,
        createdBy : Agent,
        assignedTo : Agent,
        autoGenerated : BOOLEAN,
        closable : BOOLEAN,
        note : Run \cup {Nothing}]      \* the run named in completionNote

\* At least one reductive predicate (BULK_FILTER_TOO_BROAD).
Filter ==
  {f \in [autoGeneratedOnly : BOOLEAN,
          assignedTo : Labels \cup {Nothing},
          status : OpenStatus \cup {Nothing}] :
     f.autoGeneratedOnly \/ f.assignedTo # Nothing \/ f.status # Nothing}

\* What the first call resolves and every later batch carries: the acting
\* caller and the organisation it may reach; Nothing is every organisation.
Args == [filter : Filter, caller : Agent \cup {Fleet}, org : Org \cup {Nothing}]

\* An absent document is no arguments.
ASSUME ArgsAssumption == Nothing \notin Args

RunRow == [status : {"none", "running", "complete", "failed"},
           createdBy : Agent \cup {Fleet, Nothing},
           org : Org \cup {Nothing},
           closed : Nat,
           remaining : BOOLEAN]

VARIABLES
  row,          \* tasks
  run,          \* bulk_complete_runs
  scheduled,    \* the continuation waiting in the scheduler, per run
  changes       \* counts the steps of everybody else

vars == <<row, run, scheduled, changes>>

NoRun == [status |-> "none", createdBy |-> Nothing, org |-> Nothing,
          closed |-> 0, remaining |-> FALSE]

\* The agents of a row are agents of its organisation.
Init ==
  /\ row \in [Task -> {x \in Row : /\ x.note = Nothing /\ x.status # "done"
                                   /\ OrgOf[x.createdBy] = x.org
                                   /\ OrgOf[x.assignedTo] = x.org}]
  /\ run = [r \in Run |-> NoRun]
  /\ scheduled = [r \in Run |-> Nothing]
  /\ changes = 0
-----------------------------------------------------------------------------
(* One batch. *)

\* Variant: the organisation is read from the label alone.
MatchesLabel(x, args) ==
  /\ x.status \in OpenStatus
  /\ args.filter.status \in {Nothing, x.status}
  /\ args.filter.autoGeneratedOnly => x.autoGenerated
  /\ args.filter.assignedTo \in {Nothing, Label[x.assignedTo]}

\* The test of scanBulkCompleteMatches: every condition given holds of x.
Matches(x, args) ==
  /\ x.status \in OpenStatus
  /\ args.filter.status \in {Nothing, x.status}
  /\ args.filter.autoGeneratedOnly => x.autoGenerated
  /\ args.filter.assignedTo \in {Nothing, Label[x.assignedTo]}
  /\ args.org \in {Nothing, x.org}

Matching(args) == {t \in Task : Matches(row[t], args)}

\* The scan stops one row beyond the cap: that row is the overflow sentinel.
ScanLimit == HardCap + 1

\* What the scan returns: the first ScanLimit matches in index order, which
\* may be any of the matches.
Scans(args) ==
  LET M == Matching(args)
  IN  {S \in SUBSET M : \/ S = M /\ Cardinality(M) <= ScanLimit
                        \/ Cardinality(S) = ScanLimit}

Exceeds(S) == Cardinality(S) > HardCap

Batches(S) ==
  {B \in SUBSET S : IF Exceeds(S) THEN Cardinality(B) = HardCap ELSE B = S}

\* findBulkCompleteDenied: a row the caller neither created nor was assigned.
Denied(args, B) ==
  /\ args.caller # Fleet
  /\ \E t \in B : args.caller \notin {row[t].createdBy, row[t].assignedTo}

Closable(B) == \A t \in B : row[t].closable

\* writeBulkCompleteBatch: every row of the batch under the run's note.
WriteBatch(r, B) ==
  row' = [t \in Task |-> IF t \in B
                         THEN [row[t] EXCEPT !.status = "done", !.note = r]
                         ELSE row[t]]

\* Variant: the run row shows the last batch alone.
RecordThisBatch(r, args, S, B) ==
  /\ run' = [run EXCEPT ![r] =
       [status |-> IF Exceeds(S) THEN "running" ELSE "complete",
        createdBy |-> args.caller,
        org |-> args.org,
        closed |-> Cardinality(B),
        remaining |-> Exceeds(S)]]
  /\ scheduled' =
       [scheduled EXCEPT ![r] = IF Exceeds(S) THEN args ELSE Nothing]

\* Variant: the continuation does not schedule itself again.
RecordLastBatch(r, args, S, B) ==
  LET more == Exceeds(S) /\ run[r].status = "none"
  IN  /\ run' = [run EXCEPT ![r] =
           [status |-> IF more THEN "running" ELSE "complete",
            createdBy |-> args.caller,
            org |-> args.org,
            closed |-> run[r].closed + Cardinality(B),
            remaining |-> more]]
      /\ scheduled' = [scheduled EXCEPT ![r] = IF more THEN args ELSE Nothing]

\* The run row after a batch, and the continuation that drains the rest.
RecordBatch(r, args, S, B) ==
  /\ run' = [run EXCEPT ![r] =
       [status |-> IF Exceeds(S) THEN "running" ELSE "complete",
        createdBy |-> args.caller,
        org |-> args.org,
        closed |-> run[r].closed + Cardinality(B),
        remaining |-> Exceeds(S)]]
  /\ scheduled' =
       [scheduled EXCEPT ![r] = IF Exceeds(S) THEN args ELSE Nothing]

\* Variant: the failure is logged and the run row left as it was.
FailSilently(r) == UNCHANGED run

\* The catch of bulkCompleteContinue: only the run row is written.
RecordFailure(r) ==
  run' = [run EXCEPT ![r].status = "failed", ![r].remaining = TRUE]
-----------------------------------------------------------------------------
(* The operations. *)

\* An agent reaches its own organisation; the fleet reaches all of them, or
\* the one organisation the transport has verified for it.
Reach(caller) == IF caller = Fleet THEN Org \cup {Nothing} ELSE {OrgOf[caller]}

\* bulkComplete: a refusal throws and leaves nothing, not even a run.
BulkComplete(r, args) ==
  /\ run[r].status = "none"
  /\ args.org \in Reach(args.caller)
  /\ \E S \in Scans(args) : \E B \in Batches(S) :
       /\ ~Denied(args, B) /\ Closable(B)
       /\ WriteBatch(r, B)
       /\ RecordBatch(r, args, S, B)
  /\ UNCHANGED changes

\* Variant: refused rows are skipped and left to the next batch.
SkipRefused(r) ==
  /\ scheduled[r] # Nothing
  /\ \E S \in Scans(scheduled[r]) : \E B \in Batches(S) :
       LET allowed == {t \in B : ~Denied(scheduled[r], {t}) /\ Closable({t})}
       IN  /\ WriteBatch(r, allowed)
           /\ IF allowed = B
              THEN RecordBatch(r, scheduled[r], S, B)
              ELSE /\ run' = [run EXCEPT ![r].closed = @ + Cardinality(allowed)]
                   /\ UNCHANGED scheduled
  /\ UNCHANGED changes

\* bulkCompleteContinue, run by the scheduler.
Continue(r) ==
  /\ scheduled[r] # Nothing
  /\ \E S \in Scans(scheduled[r]) : \E B \in Batches(S) :
       IF Denied(scheduled[r], B) \/ ~Closable(B)
       THEN /\ RecordFailure(r)
            /\ scheduled' = [scheduled EXCEPT ![r] = Nothing]
            /\ UNCHANGED row
       ELSE /\ WriteBatch(r, B)
            /\ RecordBatch(r, scheduled[r], S, B)
  /\ UNCHANGED changes

\* Everybody else: create, update, complete, start, ... as far as a drain can
\* tell them apart.  Only a close rewrites the note.
Change(t) ==
  /\ changes < MaxChanges
  /\ changes' = changes + 1
  /\ \/ /\ row[t].status = "absent"
        /\ \E s \in OpenStatus : row' = [row EXCEPT ![t].status = s]
     \/ /\ row[t].status # "absent"
        /\ \/ \E s \in OpenStatus \ {row[t].status} :
                row' = [row EXCEPT ![t].status = s]
           \/ row' = [row EXCEPT ![t].status = "done", ![t].note = Nothing]
           \/ \E a \in Agent \ {row[t].assignedTo} :
                /\ OrgOf[a] = row[t].org
                /\ row' = [row EXCEPT ![t].assignedTo = a]
           \/ row' = [row EXCEPT ![t].closable = ~@]
  /\ UNCHANGED <<run, scheduled>>

Next ==
  \/ \E r \in Run : \/ \E args \in Args : BulkComplete(r, args)
                    \/ Continue(r)
  \/ \E t \in Task : Change(t)

\* The scheduler runs what was scheduled exactly once (runAfter(0, ...)).
Spec == Init /\ [][Next]_vars /\ \A r \in Run : WF_vars(Continue(r))
-----------------------------------------------------------------------------
(* Properties. *)

TypeOK ==
  /\ row \in [Task -> Row]
  /\ run \in [Run -> RunRow]
  /\ scheduled \in [Run -> Args \cup {Nothing}]
  /\ changes \in 0..MaxChanges

ClosedBy(r, t) == row[t].status # "done" /\ row'[t].status = "done" /\ row'[t].note = r

\* Whatever happened to the rows since the first call authorised the caller,
\* a batch closes only rows of the run's organisation that are closable and,
\* but for the fleet, rows the caller has a part in NOW (the scope and the
\* actor bulkCompleteContinue carries).
ClosesOwnRows ==
  [][\A r \in Run, t \in Task : ClosedBy(r, t) =>
       /\ row[t].closable
       /\ run'[r].org \in {Nothing, row[t].org}
       /\ \/ run'[r].createdBy = Fleet
          \/ run'[r].createdBy \in {row[t].createdBy, row[t].assignedTo}]_vars

\* No row is closed under a run's note without being counted in the run's
\* "closed" that getBulkCompleteRun serves, across all batches.
EveryClosedRowCounted ==
  \A r \in Run : Cardinality({t \in Task : row[t].note = r}) <= run[r].closed

\* A run that is shown running has a batch waiting in the scheduler, and one
\* that has ended has none: a client polling it does not poll for ever, and
\* nothing is closed after the end was shown.
RunningIsScheduled ==
  \A r \in Run : run[r].status = "running" <=> scheduled[r] # Nothing

\* "complete when the pile is drained": a running run turns complete only when
\* no row that its filter matches is left open.
CompleteMeansDrained ==
  [][\A r \in Run : run[r].status = "running" /\ run'[r].status = "complete" =>
       \A t \in Task : ~Matches(row'[t], scheduled[r])]_vars

\* Every run ends, complete or failed, once the others stop changing rows.
DrainEnds == \A r \in Run : run[r].status = "running" ~> run[r].status # "running"
=============================================================================
