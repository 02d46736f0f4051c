---------------------------- MODULE BatchProofs ----------------------------
(***************************************************************************)
(* Proofs about the two components whose work is cut into batches, each    *)
(* with a continuation: the drain of BulkDrain and the knowledge base.     *)
(*                                                                         *)
(* The drain, for any finite table, any callers, organisations and runs    *)
(* and any cap.  Each invariant is split by action; what the two           *)
(* operations share is one batch, whose facts are lemmas.                  *)
(*                                                                         *)
(* The knowledge base, for any number of organisations, tickets, files,    *)
(* documents, chunks, ingests and deletions and any size of a batch:       *)
(*                                                                         *)
(*  - the deletion of a document is never left half done without a         *)
(*    continuation (DeletionInv);                                          *)
(*  - an organisation claims no more files than it spent tickets on, and   *)
(*    has chunks of files of its own only.  UploadsInv adds that a bundle  *)
(*    is marked before it is bound, and a blob stored before it is bound   *)
(*    to anybody, so that a binding takes nothing from a ticket; ReadsOwn  *)
(*    adds that an ingest past its look at the file keeps the right to it; *)
(*  - an ingest that nobody disturbs leaves its own chunks alone live.     *)
(*    IngestsInv follows it from step to step: what it has listed is of    *)
(*    its document, and what is live of the document is what it listed,    *)
(*    nothing, or what it has inserted so far.                             *)
(***************************************************************************)
EXTENDS BulkDrain, KnowledgeBase, FiniteSetTheorems, FunctionTheorems, SequenceTheorems, TLAPS

-----------------------------------------------------------------------------
(* The drain.                                                              *)

\* A scanned set holds matches only, and a batch holds scanned rows only.
LEMMA BatchMatches ==
  ASSUME NEW args, NEW S \in Scans(args), NEW B \in Batches(S)
  PROVE  /\ S \subseteq Matching(args) /\ B \subseteq S
         /\ B \subseteq Task
         /\ \A t \in B : Matches(row[t], args)
  BY DEF Scans, Batches, Matching

\* Without the sentinel the batch is every match.
LEMMA LastBatch ==
  ASSUME NEW args, NEW S \in Scans(args), NEW B \in Batches(S), ~Exceeds(S)
  PROVE  B = Matching(args)
<1>1. HardCap \in Nat
  BY BulkAssumption
<1>2. B = S
  BY DEF Batches
<1>3. Cardinality(S) # ScanLimit
  <2> SUFFICES ASSUME Cardinality(S) = ScanLimit PROVE FALSE
    OBVIOUS
  <2> QED
    BY <1>1 DEF Exceeds, ScanLimit
<1> QED
  BY <1>2, <1>3 DEF Scans

\* Any set of rows is finite, so what a run counts is a number.
LEMMA RowsFinite ==
  ASSUME NEW B, B \subseteq Task
  PROVE  IsFiniteSet(B) /\ Cardinality(B) \in Nat
  BY BulkAssumption, FS_Subset, FS_CardinalityType

\* The rows stay rows when a batch is written.
LEMMA WriteBatchTyped ==
  ASSUME row \in [Task -> Row], NEW r \in Run, NEW B \in SUBSET Task, WriteBatch(r, B)
  PROVE  row' \in [Task -> Row]
<1> SUFFICES ASSUME NEW t \in Task PROVE row'[t] \in Row
  BY DEF WriteBatch
<1>1. row[t] \in Row
  OBVIOUS
<1>2. row'[t] = IF t \in B THEN [row[t] EXCEPT !.status = "done", !.note = r] ELSE row[t]
  BY DEF WriteBatch
<1> QED
  BY <1>1, <1>2 DEF Row

\* The run row and the scheduler stay typed when a batch is recorded.
LEMMA RecordBatchTyped ==
  ASSUME run \in [Run -> RunRow], scheduled \in [Run -> Args \cup {Nothing}],
         NEW r \in Run, NEW args \in Args, NEW S, NEW B \in SUBSET Task,
         RecordBatch(r, args, S, B)
  PROVE  run' \in [Run -> RunRow] /\ scheduled' \in [Run -> Args \cup {Nothing}]
<1>1. Cardinality(B) \in Nat
  BY RowsFinite
<1>2. args.caller \in Agent \cup {Fleet, Nothing} /\ args.org \in Org \cup {Nothing}
  BY DEF Args
<1>3. run[r].closed \in Nat
  BY DEF RunRow
<1>4. Exceeds(S) \in BOOLEAN
  BY DEF Exceeds
<1>5. [status |-> IF Exceeds(S) THEN "running" ELSE "complete",
       createdBy |-> args.caller, org |-> args.org,
       closed |-> run[r].closed + Cardinality(B), remaining |-> Exceeds(S)] \in RunRow
  BY <1>1, <1>2, <1>3, <1>4 DEF RunRow
<1> QED
  BY <1>5 DEF RecordBatch
-----------------------------------------------------------------------------
(* Types. *)

LEMMA TypeInit == Init => TypeOK
<1> SUFFICES ASSUME Init PROVE TypeOK
  OBVIOUS
<1>1. NoRun \in RunRow
  BY DEF NoRun, RunRow
<1> QED
  BY <1>1, BulkAssumption DEF Init, TypeOK

LEMMA TypeStep == TypeOK /\ [Next]_vars => TypeOK'
<1> SUFFICES ASSUME TypeOK, [Next]_vars PROVE TypeOK'
  OBVIOUS
<1> USE DEF TypeOK
<1>1. ASSUME NEW r \in Run, NEW args \in Args, BulkComplete(r, args) PROVE TypeOK'
  <2>1. PICK S \in Scans(args) : \E B \in Batches(S) :
          WriteBatch(r, B) /\ RecordBatch(r, args, S, B)
    BY <1>1 DEF BulkComplete
  <2>b. PICK B \in Batches(S) : WriteBatch(r, B) /\ RecordBatch(r, args, S, B)
    BY <2>1
  <2>2. B \in SUBSET Task
    BY BatchMatches
  <2> QED
    BY <1>1, <2>b, <2>2, WriteBatchTyped, RecordBatchTyped DEF BulkComplete
<1>2. ASSUME NEW r \in Run, Continue(r) PROVE TypeOK'
  <2>0. scheduled[r] \in Args
    BY <1>2 DEF Continue
  <2>a. PICK S \in Scans(scheduled[r]) : \E B \in Batches(S) :
          \/ /\ RecordFailure(r)
             /\ scheduled' = [scheduled EXCEPT ![r] = Nothing]
             /\ UNCHANGED row
          \/ WriteBatch(r, B) /\ RecordBatch(r, scheduled[r], S, B)
    BY <1>2 DEF Continue
  <2>1. PICK B \in Batches(S) :
          \/ /\ RecordFailure(r)
             /\ scheduled' = [scheduled EXCEPT ![r] = Nothing]
             /\ UNCHANGED row
          \/ WriteBatch(r, B) /\ RecordBatch(r, scheduled[r], S, B)
    BY <2>a
  <2>2. B \in SUBSET Task
    BY BatchMatches
  <2>3. CASE RecordFailure(r) /\ scheduled' = [scheduled EXCEPT ![r] = Nothing] /\ UNCHANGED row
    BY <1>2, <2>3 DEF RecordFailure, Continue, RunRow
  <2>4. CASE WriteBatch(r, B) /\ RecordBatch(r, scheduled[r], S, B)
    BY <1>2, <2>0, <2>2, <2>4, WriteBatchTyped, RecordBatchTyped DEF Continue
  <2> QED
    BY <2>1, <2>3, <2>4
<1>3. ASSUME NEW t \in Task, Change(t) PROVE TypeOK'
  <2>1. changes' \in 0..MaxChanges
    BY <1>3, BulkAssumption DEF Change
  <2>2. row' \in [Task -> Row]
    <3>1. row[t] \in Row
      OBVIOUS
    <3>2. ASSUME NEW s \in OpenStatus, row' = [row EXCEPT ![t].status = s]
          PROVE  row' \in [Task -> Row]
      BY <3>1, <3>2 DEF Row
    <3>3. CASE row' = [row EXCEPT ![t].status = "done", ![t].note = Nothing]
      BY <3>1, <3>3 DEF Row
    <3>4. ASSUME NEW a \in Agent, row' = [row EXCEPT ![t].assignedTo = a]
          PROVE  row' \in [Task -> Row]
      BY <3>1, <3>4 DEF Row
    <3>5. CASE row' = [row EXCEPT ![t].closable = ~@]
      BY <3>1, <3>5 DEF Row
    <3> QED
      BY <1>3, <3>2, <3>3, <3>4, <3>5 DEF Change
  <2> QED
    BY <1>3, <2>1, <2>2 DEF Change
<1>4. CASE UNCHANGED vars
  BY <1>4 DEF vars
<1> QED
  BY <1>1, <1>2, <1>3, <1>4 DEF Next

\* The tables hold what the schema declares, in every reachable state.
THEOREM TypeCorrect == Spec => []TypeOK
  BY TypeInit, TypeStep, PTL DEF Spec
-----------------------------------------------------------------------------
(* The status a client polls and the scheduler. *)

LEMMA ScheduledStep == TypeOK /\ RunningIsScheduled /\ [Next]_vars => RunningIsScheduled'
<1> SUFFICES ASSUME TypeOK, RunningIsScheduled, [Next]_vars,
                    NEW q \in Run
             PROVE  (run[q].status = "running" <=> scheduled[q] # Nothing)'
  BY DEF RunningIsScheduled
<1> USE DEF TypeOK, RunningIsScheduled
<1>1. ASSUME NEW r \in Run, NEW args \in Args, NEW S, NEW B, RecordBatch(r, args, S, B)
      PROVE  (run[q].status = "running" <=> scheduled[q] # Nothing)'
  BY <1>1, ArgsAssumption DEF RecordBatch
<1>2. ASSUME NEW r \in Run, NEW args \in Args, BulkComplete(r, args)
      PROVE  (run[q].status = "running" <=> scheduled[q] # Nothing)'
  BY <1>1, <1>2 DEF BulkComplete
<1>3. ASSUME NEW r \in Run, Continue(r)
      PROVE  (run[q].status = "running" <=> scheduled[q] # Nothing)'
  <2>1. scheduled[r] \in Args
    BY <1>3 DEF Continue
  <2>2. CASE RecordFailure(r) /\ scheduled' = [scheduled EXCEPT ![r] = Nothing]
    BY <2>2 DEF RecordFailure, RunRow
  <2>3. CASE \E S, B : RecordBatch(r, scheduled[r], S, B)
    BY <1>1, <2>1, <2>3
  <2> QED
    BY <1>3, <2>2, <2>3 DEF Continue
<1>4. ASSUME NEW t \in Task, Change(t)
      PROVE  (run[q].status = "running" <=> scheduled[q] # Nothing)'
  BY <1>4 DEF Change
<1>5. CASE UNCHANGED vars
  BY <1>5 DEF vars
<1> QED
  BY <1>2, <1>3, <1>4, <1>5 DEF Next

\* A run is shown running exactly while its next batch waits in the scheduler.
THEOREM EndIsShown == Spec => []RunningIsScheduled
<1>1. Init => RunningIsScheduled
  BY DEF Init, RunningIsScheduled, NoRun
<1> QED
  BY <1>1, ScheduledStep, TypeCorrect, PTL DEF Spec
-----------------------------------------------------------------------------
(* What a run counts. *)

Noted(r) == {t \in Task : row[t].note = r}

\* A set of rows contained in another is not larger.
LEMMA FewerRows ==
  ASSUME NEW A, NEW B, A \subseteq B, B \subseteq Task
  PROVE  Cardinality(A) <= Cardinality(B)
  BY RowsFinite, FS_Subset

\* One batch adds at most its own rows to the rows noted by its run.
LEMMA BatchCounted ==
  ASSUME TypeOK, EveryClosedRowCounted,
         NEW r \in Run, NEW args, NEW S, NEW B \in SUBSET Task,
         WriteBatch(r, B), RecordBatch(r, args, S, B)
  PROVE  EveryClosedRowCounted'
<1> SUFFICES ASSUME NEW q \in Run
             PROVE  Cardinality(Noted(q)') <= run'[q].closed
  BY DEF EveryClosedRowCounted, Noted
<1>1. Cardinality(Noted(q)) <= run[q].closed /\ Cardinality(Noted(q)) \in Nat
  BY RowsFinite DEF EveryClosedRowCounted, Noted
<1>2. run[q] \in RunRow /\ run[q].closed \in Nat
  BY DEF TypeOK, RunRow
<1>3. CASE q = r
  <2>1. Noted(q)' \subseteq Noted(q) \cup B
    BY DEF Noted, WriteBatch
  <2>2. Cardinality(Noted(q)') <= Cardinality(Noted(q) \cup B)
    <3>1. Noted(q) \cup B \subseteq Task
      BY DEF Noted
    <3> QED
      BY <2>1, <3>1, FewerRows
  <2>3. IsFiniteSet(Noted(q)) /\ IsFiniteSet(B)
    BY RowsFinite DEF Noted
  <2>4. Cardinality(Noted(q) \cup B) <= Cardinality(Noted(q)) + Cardinality(B)
    <3>1. Noted(q) \cap B \subseteq Task
      OBVIOUS
    <3>2. /\ Cardinality(Noted(q) \cup B) \in Nat
          /\ Cardinality(Noted(q) \cap B) \in Nat
          /\ Cardinality(B) \in Nat
      BY <3>1, RowsFinite DEF Noted
    <3>3. Cardinality(Noted(q) \cup B) =
            Cardinality(Noted(q)) + Cardinality(B) - Cardinality(Noted(q) \cap B)
      BY <2>3, FS_Union
    <3> QED
      BY <1>1, <3>2, <3>3
  <2>5. run'[q].closed = run[q].closed + Cardinality(B)
    BY <1>3 DEF RecordBatch, TypeOK
  <2>6. /\ Cardinality(Noted(q)') \in Nat /\ Cardinality(B) \in Nat
        /\ Cardinality(Noted(q) \cup B) \in Nat
    <3>1. Noted(q)' \subseteq Task /\ Noted(q) \cup B \subseteq Task
      BY DEF Noted
    <3> QED
      BY <3>1, RowsFinite
  <2> QED
    BY <1>1, <1>2, <2>2, <2>4, <2>5, <2>6
<1>4. CASE q # r
  <2>1. Noted(q)' \subseteq Noted(q)
    <3> SUFFICES ASSUME NEW t \in Task, row'[t].note = q PROVE row[t].note = q
      BY DEF Noted
    <3>1. row'[t] = IF t \in B THEN [row[t] EXCEPT !.status = "done", !.note = r] ELSE row[t]
      BY DEF WriteBatch
    <3>2. row[t] \in Row
      BY DEF TypeOK
    <3> QED
      BY <1>4, <3>1, <3>2 DEF Row
  <2>2. run'[q] = run[q]
    BY <1>4 DEF RecordBatch, TypeOK
  <2>3. Noted(q) \subseteq Task /\ Noted(q)' \subseteq Task
    BY DEF Noted
  <2>4. Cardinality(Noted(q)') <= Cardinality(Noted(q)) /\ Cardinality(Noted(q)') \in Nat
    BY <2>1, <2>3, FewerRows, RowsFinite
  <2> QED
    BY <1>1, <1>2, <2>2, <2>4
<1> QED
  BY <1>3, <1>4

\* Nobody else adds to the rows noted by a run.
LEMMA OthersCounted ==
  ASSUME TypeOK, EveryClosedRowCounted,
         \A q \in Run : Noted(q)' \subseteq Noted(q),
         \A q \in Run : run'[q].closed = run[q].closed
  PROVE  EveryClosedRowCounted'
<1> SUFFICES ASSUME NEW q \in Run
             PROVE  Cardinality(Noted(q)') <= run'[q].closed
  BY DEF EveryClosedRowCounted, Noted
<1>1. Noted(q) \subseteq Task /\ Noted(q)' \subseteq Task
  BY DEF Noted
<1>2. /\ Cardinality(Noted(q)') <= Cardinality(Noted(q))
      /\ Cardinality(Noted(q)) \in Nat /\ Cardinality(Noted(q)') \in Nat
  BY <1>1, FewerRows, RowsFinite
<1>3. Cardinality(Noted(q)) <= run[q].closed /\ run[q].closed \in Nat
  BY DEF EveryClosedRowCounted, Noted, TypeOK, RunRow
<1> QED
  BY <1>2, <1>3

LEMMA CountStep == TypeOK /\ EveryClosedRowCounted /\ [Next]_vars => EveryClosedRowCounted'
<1> SUFFICES ASSUME TypeOK, EveryClosedRowCounted, [Next]_vars PROVE EveryClosedRowCounted'
  OBVIOUS
<1>1. ASSUME NEW r \in Run, NEW args \in Args, BulkComplete(r, args)
      PROVE  EveryClosedRowCounted'
  BY <1>1, BatchMatches, BatchCounted DEF BulkComplete
<1>2. ASSUME NEW r \in Run, Continue(r) PROVE EveryClosedRowCounted'
  <2>1. CASE RecordFailure(r) /\ UNCHANGED row
    BY <2>1, OthersCounted DEF RecordFailure, TypeOK, RunRow, Noted
  <2>2. CASE \E S \in Scans(scheduled[r]) : \E B \in Batches(S) :
               WriteBatch(r, B) /\ RecordBatch(r, scheduled[r], S, B)
    BY <2>2, BatchMatches, BatchCounted
  <2> QED
    BY <1>2, <2>1, <2>2 DEF Continue
<1>3. ASSUME NEW t \in Task, Change(t) PROVE EveryClosedRowCounted'
  <2>1. \A x \in Task : row'[x].note \in {row[x].note, Nothing}
    <3>1. row[t] \in Row
      BY DEF TypeOK
    <3> QED
      BY <1>3, <3>1 DEF Change, TypeOK, Row
  <2>2. \A q \in Run : Noted(q)' \subseteq Noted(q)
    BY <2>1, BulkAssumption DEF Noted
  <2> QED
    BY <1>3, <2>2, OthersCounted DEF Change
<1>4. CASE UNCHANGED vars
  BY <1>4, OthersCounted DEF vars, Noted
<1> QED
  BY <1>1, <1>2, <1>3, <1>4 DEF Next

\* The count a client reads covers every row closed under the run's note.
THEOREM ClosedIsCounted == Spec => []EveryClosedRowCounted
<1>1. Init => EveryClosedRowCounted
  <2> SUFFICES ASSUME Init, NEW r \in Run
               PROVE  Cardinality(Noted(r)) <= run[r].closed
    BY DEF EveryClosedRowCounted, Noted
  <2>1. Noted(r) = {}
    BY BulkAssumption DEF Init, Noted
  <2>2. Cardinality(Noted(r)) = 0
    BY <2>1, FS_EmptySet
  <2> QED
    BY <2>2 DEF Init, NoRun
<1> QED
  BY <1>1, CountStep, TypeCorrect, PTL DEF Spec
-----------------------------------------------------------------------------
(* What a batch may close, and what is left when a run is complete. *)

LEMMA BatchOwned ==
  ASSUME TypeOK, NEW r \in Run, NEW args \in Args,
         NEW S \in Scans(args), NEW B \in Batches(S),
         ~Denied(args, B), Closable(B), WriteBatch(r, B), RecordBatch(r, args, S, B),
         NEW q \in Run, NEW t \in Task, ClosedBy(q, t)
  PROVE  /\ row[t].closable
         /\ run'[q].org \in {Nothing, row[t].org}
         /\ \/ run'[q].createdBy = Fleet
            \/ run'[q].createdBy \in {row[t].createdBy, row[t].assignedTo}
<1>1. row[t] \in Row
  BY DEF TypeOK
<1>2. row'[t] = IF t \in B THEN [row[t] EXCEPT !.status = "done", !.note = r] ELSE row[t]
  BY DEF WriteBatch
<1>3. t \in B /\ q = r
  BY <1>1, <1>2 DEF ClosedBy, Row
<1>4. run'[q].org = args.org /\ run'[q].createdBy = args.caller
  BY <1>3 DEF RecordBatch, TypeOK
<1>5. Matches(row[t], args)
  BY <1>3, BatchMatches
<1> QED
  BY <1>3, <1>4, <1>5 DEF Matches, Denied, Closable

\* A run closes only closable rows of its organisation that its caller has a
\* part in at that moment, in every batch and for every number of batches.
THEOREM OwnRowsOnly == Spec => ClosesOwnRows
<1>1. ASSUME TypeOK, [Next]_vars, NEW q \in Run, NEW t \in Task, ClosedBy(q, t)
      PROVE  /\ row[t].closable
             /\ run'[q].org \in {Nothing, row[t].org}
             /\ \/ run'[q].createdBy = Fleet
                \/ run'[q].createdBy \in {row[t].createdBy, row[t].assignedTo}
  <2>1. ASSUME NEW r \in Run, NEW args \in Args, BulkComplete(r, args)
        PROVE  \E S \in Scans(args) : \E B \in Batches(S) :
                 /\ ~Denied(args, B) /\ Closable(B)
                 /\ WriteBatch(r, B) /\ RecordBatch(r, args, S, B)
    BY <2>1 DEF BulkComplete
  <2>2. ASSUME NEW r \in Run, Continue(r)
        PROVE  /\ scheduled[r] \in Args
               /\ \E S \in Scans(scheduled[r]) : \E B \in Batches(S) :
                    /\ ~Denied(scheduled[r], B) /\ Closable(B)
                    /\ WriteBatch(r, B) /\ RecordBatch(r, scheduled[r], S, B)
    <3>1. row' # row
      BY <1>1 DEF ClosedBy
    <3> QED
      BY <1>1, <2>2, <3>1 DEF Continue, TypeOK
  <2>3. ASSUME NEW x \in Task, Change(x) PROVE FALSE
    <3>1. row[x] \in Row /\ row[t] \in Row
      BY <1>1 DEF TypeOK
    <3>2. row'[t].status = "done" /\ row[t].status # "done" => row'[t].note = Nothing
      BY <1>1, <2>3, <3>1 DEF Change, TypeOK, Row, OpenStatus
    <3> QED
      BY <1>1, <3>2, BulkAssumption DEF ClosedBy
  <2>4. CASE UNCHANGED vars
    BY <1>1, <2>4 DEF vars, ClosedBy
  <2> QED
    BY <1>1, <2>1, <2>2, <2>3, <2>4, BatchOwned DEF Next
<1>2. TypeOK /\ [Next]_vars =>
        [\A r \in Run, t \in Task : ClosedBy(r, t) =>
           /\ row[t].closable
           /\ run'[r].org \in {Nothing, row[t].org}
           /\ \/ run'[r].createdBy = Fleet
              \/ run'[r].createdBy \in {row[t].createdBy, row[t].assignedTo}]_vars
  BY <1>1
<1> QED
  BY <1>2, TypeCorrect, PTL DEF Spec, ClosesOwnRows

\* A running run turns complete only over a drained filter, whatever rows were
\* added, moved or reopened between its batches.
THEOREM CompleteIsDrained == Spec => CompleteMeansDrained
<1>1. ASSUME TypeOK, [Next]_vars, NEW q \in Run, NEW t \in Task,
             run[q].status = "running", run'[q].status = "complete"
      PROVE  ~Matches(row'[t], scheduled[q])
  <2>1. Continue(q)
    <3>1. ASSUME NEW r \in Run, NEW args \in Args, BulkComplete(r, args) PROVE FALSE
      BY <1>1, <3>1 DEF BulkComplete, RecordBatch, TypeOK
    <3>2. ASSUME NEW r \in Run, Continue(r), r # q PROVE FALSE
      BY <1>1, <3>2 DEF Continue, RecordBatch, RecordFailure, TypeOK
    <3>3. ASSUME NEW x \in Task, Change(x) PROVE FALSE
      BY <1>1, <3>3 DEF Change
    <3> QED
      BY <1>1, <3>1, <3>2, <3>3 DEF Next, vars
  <2>2. ~RecordFailure(q)
    BY <1>1 DEF RecordFailure, TypeOK, RunRow
  <2>3. PICK S \in Scans(scheduled[q]) : \E B \in Batches(S) :
          WriteBatch(q, B) /\ RecordBatch(q, scheduled[q], S, B)
    BY <2>1, <2>2 DEF Continue
  <2>4. PICK B \in Batches(S) : WriteBatch(q, B) /\ RecordBatch(q, scheduled[q], S, B)
    BY <2>3
  <2>5. ~Exceeds(S)
    BY <1>1, <2>4 DEF RecordBatch, TypeOK
  <2>6. B = Matching(scheduled[q])
    BY <2>5, LastBatch
  <2>7. row[t] \in Row
    BY <1>1 DEF TypeOK
  <2>8. row'[t] = IF t \in B THEN [row[t] EXCEPT !.status = "done", !.note = q] ELSE row[t]
    BY <2>4 DEF WriteBatch
  <2>9. CASE t \in B
    BY <2>7, <2>8, <2>9 DEF Matches, OpenStatus, Row
  <2>10. CASE t \notin B
    BY <2>6, <2>8, <2>10 DEF Matching
  <2> QED
    BY <2>9, <2>10
<1>2. TypeOK /\ [Next]_vars =>
        [\A r \in Run : run[r].status = "running" /\ run'[r].status = "complete" =>
           \A t \in Task : ~Matches(row'[t], scheduled[r])]_vars
  BY <1>1
<1> QED
  BY <1>2, TypeCorrect, PTL DEF Spec, CompleteMeansDrained

-----------------------------------------------------------------------------
(* A batch that leaves a row behind is full.                               *)

\* The rank of a row in its set is a bijection with an initial segment, so
\* that exactly n rows have a rank below n when some row has none.
LEMMA BatchIsFull ==
  ASSUME NEW S \in SUBSET Nat, IsFiniteSet(S), NEW n \in Nat,
         NEW c \in S, c \notin FirstRows(S, n)
  PROVE  Cardinality(FirstRows(S, n)) = n
<1> DEFINE Below(q) == {p \in S : p < q}
           rank == [q \in S |-> Cardinality(Below(q))]
           N == Cardinality(S)
           First == FirstRows(S, n)
<1>1. First = {q \in S : rank[q] < n}
  BY DEF FirstRows
<1>2. N \in Nat
  BY FS_CardinalityType
<1>3. ASSUME NEW q \in S
      PROVE  IsFiniteSet(Below(q)) /\ Cardinality(Below(q)) \in 0 .. N - 1
  <2>1. Below(q) \in SUBSET S /\ Below(q) # S
    OBVIOUS
  <2>2. /\ IsFiniteSet(Below(q)) /\ Cardinality(Below(q)) <= N
        /\ Cardinality(S) = Cardinality(Below(q)) => S = Below(q)
    BY <2>1, FS_Subset
  <2>3. Cardinality(Below(q)) \in Nat
    BY <2>2, FS_CardinalityType
  <2> HIDE DEF Below
  <2> QED BY <1>2, <2>1, <2>2, <2>3
<1>4. ASSUME NEW p \in S, NEW q \in S, p < q
      PROVE  rank[p] # rank[q]
  <2>1. Below(p) \in SUBSET Below(q) /\ Below(p) # Below(q)
    <3>1. p \in Below(q) /\ p \notin Below(p)
      BY <1>4
    <3>2. \A x \in Below(p) : x \in Below(q)
      BY <1>4
    <3> QED BY <3>1, <3>2
  <2>2. Cardinality(Below(q)) = Cardinality(Below(p)) => Below(q) = Below(p)
    BY <1>3, <2>1, FS_Subset
  <2>3. Cardinality(Below(p)) # Cardinality(Below(q))
    BY <2>1, <2>2
  <2> HIDE DEF Below
  <2> QED BY <2>3
<1>5. rank \in [S -> 0 .. N - 1]
  <2> HIDE DEF Below
  <2> QED BY <1>3
<1>c. First \in SUBSET S /\ c \notin First
  BY <1>1
<1> HIDE DEF rank, First
<1>6. rank \in Injection(S, 0 .. N - 1)
  <2>1. \A p, q \in S : p # q => p < q \/ q < p
    OBVIOUS
  <2>2. \A p, q \in S : rank[p] = rank[q] => p = q
    BY <1>4, <2>1
  <2> QED BY <1>5, <2>2 DEF Injection, IsInjective
<1>7. rank \in Surjection(S, 0 .. N - 1)
  <2>1. IsFiniteSet(0 .. N - 1) /\ Cardinality(0 .. N - 1) = N
    <3> HIDE DEF N
    <3> QED BY <1>2, FS_Interval
  <2> QED BY <1>6, <2>1, FS_Injection
<1>8. rank[c] >= n /\ n <= N - 1
  <2>1. ~(rank[c] < n)
    BY <1>1, <1>c
  <2>2. rank[c] \in 0 .. N - 1
    BY <1>5
  <2> QED BY <1>2, <2>1, <2>2
<1> DEFINE place == [q \in First |-> rank[q]]
<1>9. place \in Bijection(First, 0 .. n - 1)
  <2>1. place \in [First -> 0 .. n - 1]
    <3>1. \A q \in First : rank[q] \in 0 .. N - 1 /\ rank[q] < n
      BY <1>1, <1>c, <1>5
    <3>2. \A q \in First : rank[q] \in 0 .. n - 1
      <4> HIDE DEF N
      <4> QED BY <1>2, <3>1
    <3> QED BY <3>2
  <2>2. \A p, q \in First : place[p] = place[q] => p = q
    BY <1>1, <1>6 DEF Injection, IsInjective
  <2>3. \A i \in 0 .. n - 1 : \E q \in First : place[q] = i
    <3> TAKE i \in 0 .. n - 1
    <3>1. i \in 0 .. N - 1
      BY <1>2, <1>8
    <3>2. PICK q \in S : rank[q] = i
      BY <1>7, <3>1 DEF Surjection
    <3> QED BY <1>1, <3>2
  <2> HIDE DEF place
  <2> QED BY <2>1, <2>2, <2>3 DEF Bijection, Injection, IsInjective, Surjection
<1>10. IsFiniteSet(First)
  BY <1>1, FS_Subset
<1>11. Cardinality(0 .. n - 1) = Cardinality(First)
  BY <1>9, <1>10, FS_Bijection DEF ExistsBijection
<1>12. Cardinality(0 .. n - 1) = n
  BY FS_Interval
<1> QED BY <1>11, <1>12 DEF First

-----------------------------------------------------------------------------
(* The deletion.                                                           *)

\* The columns of ingests and deletions.
DocumentsShaped ==
  /\ ingests \subseteq Ingest
  /\ begun \in 0 .. MaxIngests
  /\ chunks \in Seq(Chunk)
  /\ continuations \in [Namespace -> Nat] /\ doomed \subseteq DOMAIN chunks

DeletionInv == DocumentsShaped /\ DeletionStaysScheduled

USE DEF Ingest, Chunk
USE KnowledgeAssumption

\* An ingest whose step has moved on is an ingest.
LEMMA IngestMoves ==
  ASSUME NEW i \in Ingest
  PROVE  /\ \A p \in {"claim", "list", "supersede", "insert"}, S \in SUBSET Nat :
              [i EXCEPT !.pc = p] \in Ingest /\ [i EXCEPT !.prior = S, !.pc = p] \in Ingest
         /\ [i EXCEPT !.alone = FALSE] \in Ingest
         /\ [i EXCEPT !.next = i.next + 1] \in Ingest
<1>1. i.next \in Nat /\ i.next + 1 \in Nat
  OBVIOUS
<1> DEFINE ids == 1 .. MaxIngests
<1>2. i \in [id : ids, ns : Namespace, blob : Blob,
             pc : {"claim", "list", "supersede", "insert"}, prior : SUBSET Nat, next : Nat,
             alone : BOOLEAN]
  OBVIOUS
<1> HIDE DEF ids
<1>3. [i EXCEPT !.next = i.next + 1] \in
        [id : ids, ns : Namespace, blob : Blob,
             pc : {"claim", "list", "supersede", "insert"}, prior : SUBSET Nat, next : Nat,
             alone : BOOLEAN]
  BY <1>1, <1>2
<1>4. Ingest = [id : ids, ns : Namespace, blob : Blob,
             pc : {"claim", "list", "supersede", "insert"}, prior : SUBSET Nat, next : Nat,
             alone : BOOLEAN]
  BY DEF ids
<1> HIDE DEF Ingest
<1> QED BY <1>2, <1>3, <1>4

\* Retiring rows changes nothing else of a chunk.
LEMMA RetiredKeeps ==
  ASSUME DocumentsShaped, NEW R
  PROVE  /\ Retired(R) \in Seq(Chunk)
         /\ DOMAIN Retired(R) = DOMAIN chunks
<1>1. /\ Len(chunks) \in Nat /\ DOMAIN chunks = 1 .. Len(chunks)
      /\ \A c \in 1 .. Len(chunks) : chunks[c] \in Chunk
  BY LenProperties, ElementOfSeq DEF DocumentsShaped
<1> DEFINE e(c) == IF c \in R THEN [chunks[c] EXCEPT !.isLatest = FALSE] ELSE chunks[c]
<1>2. Retired(R) = [c \in 1 .. Len(chunks) |-> e(c)]
  BY <1>1 DEF Retired
<1>3. \A c \in 1 .. Len(chunks) : e(c) \in Chunk
  BY <1>1
<1>4. [c \in 1 .. Len(chunks) |-> e(c)] \in Seq(Chunk)
  <2> HIDE DEF e, Chunk
  <2> QED BY <1>1, <1>3, IsASeq
<1> QED BY <1>1, <1>2, <1>3, <1>4

\* A chunk belongs to a document.
LEMMA ChunkNamed ==
  ASSUME DocumentsShaped, NEW c \in DOMAIN chunks
  PROVE  chunks[c].ns \in Namespace
<1>1. chunks \in Seq(Chunk) /\ c \in 1 .. Len(chunks)
  BY LenProperties DEF DocumentsShaped
<1>2. chunks[c] \in Chunk
  BY <1>1, ElementOfSeq
<1> QED BY <1>2

\* The chunks of a document are finitely many rows.
LEMMA LiveChunksFinite ==
  ASSUME DocumentsShaped, NEW ns
  PROVE  LiveChunks(ns) \in SUBSET Nat /\ IsFiniteSet(LiveChunks(ns))
<1>1. Len(chunks) \in Nat /\ DOMAIN chunks = 1 .. Len(chunks)
  BY LenProperties DEF DocumentsShaped
<1>2. LiveChunks(ns) \in SUBSET (1 .. Len(chunks))
  BY <1>1 DEF LiveChunks
<1>3. IsFiniteSet(1 .. Len(chunks))
  BY <1>1, FS_Interval
<1> QED BY <1>1, <1>2, <1>3, FS_Subset

\* Who is disturbed stays an ingest.
LEMMA DisturbedKeeps ==
  ASSUME DocumentsShaped, NEW ns
  PROVE  Disturbed(ns) \subseteq Ingest
<1> SUFFICES ASSUME NEW i \in ingests
             PROVE  (IF i.ns = ns THEN [i EXCEPT !.alone = FALSE] ELSE i) \in Ingest
  BY DEF Disturbed
<1> QED BY DEF DocumentsShaped

\* A batch, the first of a deletion or a later one, keeps the invariant: a chunk
\* it leaves behind makes it full, and a full batch has a successor.
LEMMA BatchKeeps ==
  ASSUME DeletionInv, NEW ns \in Namespace, NEW pending \in Nat,
         MarkDocSoftDeleted(ns, pending), UNCHANGED begun,
         NEW D \in SUBSET (doomed \cup LiveChunks(ns)),
         doomed' = D \ FirstRows(LiveChunks(ns), MARK_DOC_BATCH_SIZE)
  PROVE  DeletionInv'
<1> DEFINE rows == FirstRows(LiveChunks(ns), MARK_DOC_BATCH_SIZE)
<1>1. /\ chunks' = Retired(rows)
      /\ continuations' = [continuations EXCEPT ![ns] = IF FullBatch(rows) THEN pending + 1 ELSE pending]
      /\ ingests' = Disturbed(ns)
  BY DEF MarkDocSoftDeleted
<1>2. DOMAIN chunks' = DOMAIN chunks /\ doomed' \subseteq DOMAIN chunks
  BY <1>1, RetiredKeeps DEF DeletionInv, DocumentsShaped, LiveChunks
<1>3. DocumentsShaped'
  <2>1. continuations' \in [Namespace -> Nat]
    BY <1>1 DEF DeletionInv, DocumentsShaped
  <2>2. ingests' \subseteq Ingest
    BY <1>1, DisturbedKeeps DEF DeletionInv
  <2> QED BY <1>1, <1>2, <2>1, <2>2, RetiredKeeps DEF DeletionInv, DocumentsShaped
<1>4. ASSUME NEW c \in doomed'
      PROVE  chunks'[c].isLatest /\ continuations'[chunks'[c].ns] > 0
  <2>1. c \in DOMAIN chunks /\ c \notin rows /\ c \in doomed \cup LiveChunks(ns)
    BY <1>2
  <2>2. chunks'[c] = chunks[c] /\ chunks[c].ns \in Namespace /\ chunks[c].isLatest
    <3>1. chunks'[c] = chunks[c]
      BY <1>1, <2>1 DEF Retired
    <3>2. chunks[c].ns \in Namespace
      BY <2>1, ChunkNamed DEF DeletionInv
    <3>3. chunks[c].isLatest
      BY <2>1 DEF DeletionInv, DeletionStaysScheduled, LiveChunks
    <3> QED BY <3>1, <3>2, <3>3
  <2>3. CASE chunks[c].ns = ns
    <3>1. c \in LiveChunks(ns)
      BY <2>1, <2>2, <2>3 DEF LiveChunks
    <3>2. FullBatch(rows)
      BY <2>1, <3>1, LiveChunksFinite, BatchIsFull DEF DeletionInv, FullBatch
    <3> QED BY <1>1, <2>2, <2>3, <3>2 DEF DeletionInv, DocumentsShaped
  <2>4. CASE chunks[c].ns # ns
    <3>1. c \in doomed
      BY <2>1, <2>4 DEF LiveChunks
    <3> QED BY <1>1, <2>2, <2>4, <3>1
            DEF DeletionInv, DeletionStaysScheduled, DocumentsShaped
  <2> QED BY <2>3, <2>4
<1> QED BY <1>3, <1>4 DEF DeletionInv, DeletionStaysScheduled

\* An ingest retires chunks, which no deletion need retire any more, and appends
\* others.
LEMMA IngestKeeps ==
  ASSUME DeletionInv,
         \/ \E ns \in Namespace, b \in Blob : StoreDocument(ns, b)
         \/ \E i \in ingests :
              \/ AssertStorageClaimedBy(i) \/ ListChunkIdsForDoc(i)
              \/ SupersedePriorChunks(i) \/ InsertChunk(i) \/ IngestDies(i)
  PROVE  DeletionInv'
<1>a. ingests \subseteq Ingest /\ begun \in 0 .. MaxIngests /\ chunks \in Seq(Chunk)
  BY DEF DeletionInv, DocumentsShaped
<1>b. UNCHANGED continuations
  BY DEF StoreDocument, AssertStorageClaimedBy, ListChunkIdsForDoc, SupersedePriorChunks,
         InsertChunk, IngestDies
<1>c. ASSUME ingests' \subseteq Ingest, begun' \in 0 .. MaxIngests, UNCHANGED <<chunks, doomed>>
      PROVE  DeletionInv'
  BY <1>b, <1>c DEF DeletionInv, DocumentsShaped, DeletionStaysScheduled
<1>1. ASSUME NEW ns \in Namespace, NEW b \in Blob, StoreDocument(ns, b)
      PROVE  DeletionInv'
  <2>1. /\ begun' = begun + 1 /\ UNCHANGED <<chunks, doomed>>
        /\ begun + 1 \in 1 .. MaxIngests
    BY <1>1, <1>a DEF StoreDocument
  <2> DEFINE alone == continuations[ns] = 0 /\ \A i \in ingests : i.ns # ns
             fresh == [id |-> begun + 1, ns |-> ns, blob |-> b, pc |-> "claim", prior |-> {},
                       next |-> 1, alone |-> alone]
  <2>2. ingests' = Disturbed(ns) \cup {fresh}
    BY <1>1 DEF StoreDocument
  <2>3. Disturbed(ns) \subseteq Ingest
    BY <1>a, DisturbedKeeps DEF DeletionInv
  <2>4. alone \in BOOLEAN
    OBVIOUS
  <2>5. fresh \in Ingest
    <3> HIDE DEF alone
    <3>1. {} \in SUBSET Nat /\ 1 \in Nat
      OBVIOUS
    <3> DEFINE id == begun + 1
    <3>2. id \in 1 .. MaxIngests
      BY <2>1
    <3> HIDE DEF id
    <3>3. fresh = [id |-> id, ns |-> ns, blob |-> b, pc |-> "claim", prior |-> {},
                   next |-> 1, alone |-> alone]
      BY DEF id
    <3> QED BY <2>4, <3>1, <3>2, <3>3
  <2>6. ingests' \subseteq Ingest
    BY <2>2, <2>3, <2>5
  <2>7. begun' \in 0 .. MaxIngests
    BY <2>1
  <2> QED BY <1>c, <2>1, <2>6, <2>7
<1>2. ASSUME NEW i \in ingests, AssertStorageClaimedBy(i)
      PROVE  DeletionInv'
  <2>1. [i EXCEPT !.pc = "list"] \in Ingest
    BY <1>a, IngestMoves
  <2>2. /\ ingests' \subseteq ingests \cup {[i EXCEPT !.pc = "list"]}
        /\ UNCHANGED <<begun, chunks, doomed>>
    BY <1>2 DEF AssertStorageClaimedBy, Step
  <2> QED BY <1>a, <1>c, <2>1, <2>2
<1>3. ASSUME NEW i \in ingests, ListChunkIdsForDoc(i)
      PROVE  DeletionInv'
  <2>1. ChunkIdsForDoc(i.ns) \in SUBSET Nat
    BY LiveChunksFinite DEF ChunkIdsForDoc, DeletionInv
  <2>2. ingests' \subseteq Ingest
    BY <1>3, <1>a, <2>1 DEF ListChunkIdsForDoc, Step
  <2> QED BY <1>3, <1>a, <1>c, <2>2 DEF ListChunkIdsForDoc
<1>4. ASSUME NEW i \in ingests, SupersedePriorChunks(i)
      PROVE  DeletionInv'
  <2>1. /\ chunks' = Retired(i.prior) /\ doomed' = doomed \ i.prior /\ UNCHANGED begun
        /\ ingests' = (ingests \ {i}) \cup {[i EXCEPT !.pc = "insert", !.prior = {}]}
    BY <1>4 DEF SupersedePriorChunks, Step
  <2>2. ingests' \subseteq Ingest
    BY <1>a, <2>1
  <2>3. DocumentsShaped'
    BY <1>b, <2>1, <2>2, RetiredKeeps DEF DeletionInv, DocumentsShaped
  <2>4. \A c \in doomed' : c \in doomed /\ chunks'[c] = chunks[c]
    <3>1. \A c \in DOMAIN chunks : c \notin i.prior => Retired(i.prior)[c] = chunks[c]
      BY DEF Retired
    <3> QED BY <2>1, <3>1 DEF DeletionInv, DocumentsShaped
  <2> QED BY <1>b, <2>3, <2>4 DEF DeletionInv, DeletionStaysScheduled
<1>5. ASSUME NEW i \in ingests, InsertChunk(i)
      PROVE  DeletionInv'
  <2> DEFINE chunk == [ns |-> i.ns, blob |-> i.blob, part |-> i.next, by |-> i.id, isLatest |-> TRUE]
  <2>1. chunks' = Append(chunks, chunk) /\ UNCHANGED <<doomed, begun>>
    BY <1>5 DEF InsertChunk
  <2>2. ingests' \subseteq Ingest
    <3>1. ingests' \subseteq ingests \cup {[i EXCEPT !.next = i.next + 1]}
      BY <1>5 DEF InsertChunk, Step
    <3>2. [i EXCEPT !.next = i.next + 1] \in Ingest
      BY <1>a, IngestMoves
    <3> QED BY <1>a, <3>1, <3>2
  <2>3. chunk \in Chunk
    BY <1>a
  <2>4. chunks' \in Seq(Chunk) /\ Len(chunks') = Len(chunks) + 1
        /\ \A c \in 1 .. Len(chunks) : chunks'[c] = chunks[c]
    <3> HIDE DEF chunk, Chunk
    <3> QED BY <1>a, <2>1, <2>3, AppendProperties
  <2>5. DOMAIN chunks = 1 .. Len(chunks) /\ DOMAIN chunks' = 1 .. Len(chunks') /\ Len(chunks) \in Nat
    BY <1>a, <2>4, LenProperties
  <2>6. DocumentsShaped'
    BY <1>a, <1>b, <2>1, <2>2, <2>4, <2>5 DEF DeletionInv, DocumentsShaped
  <2>7. \A c \in doomed' : c \in doomed /\ chunks'[c] = chunks[c]
    BY <2>1, <2>4, <2>5 DEF DeletionInv, DocumentsShaped
  <2> QED BY <1>b, <2>6, <2>7 DEF DeletionInv, DeletionStaysScheduled
<1>6. ASSUME NEW i \in ingests, IngestDies(i)
      PROVE  DeletionInv'
  BY <1>6, <1>a, <1>c DEF IngestDies
<1> QED BY <1>1, <1>2, <1>3, <1>4, <1>5, <1>6

\* DeletionInv is inductive.
LEMMA InitDeletionInv == KnowledgeInit => DeletionInv
<1>1. ASSUME KnowledgeInit
      PROVE  DocumentsShaped /\ doomed = {}
  BY <1>1, EmptySeq DEF KnowledgeInit, DocumentsShaped
<1> QED BY <1>1 DEF DeletionInv, DeletionStaysScheduled

LEMMA DeletionInductive == DeletionInv /\ [UploadNext \/ DocumentNext]_kbVars => DeletionInv'
<1>1. ASSUME DeletionInv, UNCHANGED documentVars
      PROVE  DeletionInv'
  BY <1>1 DEF documentVars, DeletionInv, DocumentsShaped, DeletionStaysScheduled
<1>2. ASSUME UploadNext \/ UNCHANGED kbVars
      PROVE  UNCHANGED documentVars
  BY <1>2 DEF UploadNext, kbVars, documentVars, GenerateUploadUrlWithTicket, Upload, ClaimUpload,
              PurgeUploadTickets, StoreBundle, BindBundle, DeleteBundle, ExportDies, Later
<1>3. ASSUME DeletionInv, NEW ns \in Namespace, SoftDeleteDocument(ns)
      PROVE  DeletionInv'
  BY <1>3, BatchKeeps DEF SoftDeleteDocument, DeletionInv, DocumentsShaped
<1>4. ASSUME DeletionInv, NEW ns \in Namespace, ContinueDeletion(ns)
      PROVE  DeletionInv'
  <2>1. continuations[ns] - 1 \in Nat
    BY <1>4 DEF ContinueDeletion, DeletionInv, DocumentsShaped
  <2> QED BY <1>4, <2>1, BatchKeeps DEF ContinueDeletion
<1> QED BY <1>1, <1>2, <1>3, <1>4, IngestKeeps DEF DocumentNext

\* A chunk that a deletion set out to retire is retired, or a continuation of the
\* deletion is scheduled: the last batch is never one too early, whatever is ingested
\* and deleted between two batches (markDocSoftDeleted).
THEOREM DeletionNeverStopsShort == KnowledgeSpec => []DeletionStaysScheduled
<1>1. DeletionInv => DeletionStaysScheduled
  BY DEF DeletionInv
<1> QED BY <1>1, InitDeletionInv, DeletionInductive, PTL DEF KnowledgeSpec

HIDE DEF Ingest, Chunk


-----------------------------------------------------------------------------
(* What an organisation has claimed.                                       *)

\* The types of the columns of tickets, files and bundles.
UploadsTyped ==
  /\ clock \in 0 .. MaxClock
  /\ storage \in [Blob -> File \cup {Nothing}]
  /\ uploadTickets \in Seq(Ticket) /\ kbUploads \in [Blob -> Tenant \cup {Nothing}]
  /\ exports \subseteq Export /\ exported \in [Blob -> Tenant \cup {Nothing}]
  /\ \A b \in Blob : kbUploads[b] # Nothing => storage[b] # Nothing

\* A bundle under way is marked with the organisation that exports it.
BundlesMarked == \A e \in exports : exported[e.blob] = e.org /\ storage[e.blob] # Nothing

\* The first part of OnlyProvenContent, for one organisation and content.
Paid(o, x) ==
  /\ IsFiniteSet(OfContent(o, x))
  /\ Cardinality(OfContent(o, x)) <= Cardinality(Spent(o, x))
  /\ \A b \in OfContent(o, x) :
       \E k \in Spent(o, x) : uploadTickets[k].createdAt <= storage[b].createdAt

UploadsPaid == \A o \in Tenant, x \in Content : Paid(o, x)

UploadsInv == UploadsTyped /\ BundlesMarked /\ UploadsPaid

\* Who has a blob keeps it, and nobody has an absent one.
LEMMA BoundIsStored ==
  ASSUME UploadsTyped, NEW b \in Blob, kbUploads[b] # Nothing
  PROVE  storage[b] \in File /\ storage[b] # Nothing
  BY DEF UploadsTyped

\* The columns of a ticket that is spent.
LEMMA TicketsWritten ==
  ASSUME UploadsTyped, NEW S, NEW st \in {"used", "purged"},
         uploadTickets' = [k \in DOMAIN uploadTickets |->
           IF k \in S THEN [uploadTickets[k] EXCEPT !.state = st] ELSE uploadTickets[k]]
  PROVE  /\ uploadTickets' \in Seq(Ticket)
         /\ DOMAIN uploadTickets' = DOMAIN uploadTickets
         /\ \A k \in DOMAIN uploadTickets :
              /\ uploadTickets'[k].org = uploadTickets[k].org
              /\ uploadTickets'[k].content = uploadTickets[k].content
              /\ uploadTickets'[k].createdAt = uploadTickets[k].createdAt
              /\ uploadTickets'[k].state = IF k \in S THEN st ELSE uploadTickets[k].state
<1>1. /\ Len(uploadTickets) \in Nat /\ DOMAIN uploadTickets = 1 .. Len(uploadTickets)
      /\ \A k \in 1 .. Len(uploadTickets) : uploadTickets[k] \in Ticket
  BY LenProperties, ElementOfSeq DEF UploadsTyped
<1> DEFINE e(k) == IF k \in S THEN [uploadTickets[k] EXCEPT !.state = st] ELSE uploadTickets[k]
<1>2. ASSUME NEW k \in 1 .. Len(uploadTickets)
      PROVE  /\ e(k) \in Ticket
             /\ e(k).org = uploadTickets[k].org /\ e(k).content = uploadTickets[k].content
             /\ e(k).createdAt = uploadTickets[k].createdAt
             /\ e(k).state = IF k \in S THEN st ELSE uploadTickets[k].state
  <2> DEFINE times == 0 .. MaxClock
  <2>1. uploadTickets[k] \in [org : Tenant, content : Content, createdAt : times,
                              state : {"issued", "used", "purged"}]
    BY <1>1 DEF Ticket
  <2> HIDE DEF times
  <2>2. Ticket = [org : Tenant, content : Content, createdAt : times,
                  state : {"issued", "used", "purged"}]
    BY DEF Ticket, times
  <2> QED BY <2>1, <2>2
<1>3. uploadTickets' = [k \in 1 .. Len(uploadTickets) |-> e(k)]
  BY <1>1
<1> HIDE DEF e
<1>4. uploadTickets' \in Seq(Ticket)
  BY <1>1, <1>2, <1>3, IsASeq
<1>5. DOMAIN uploadTickets' = DOMAIN uploadTickets
  BY <1>1, <1>3
<1>6. \A k \in DOMAIN uploadTickets : uploadTickets'[k] = e(k)
  BY <1>1, <1>3
<1> QED BY <1>1, <1>2, <1>4, <1>5, <1>6

\* Spent tickets are rows of a table.
LEMMA SpentFinite ==
  ASSUME uploadTickets \in Seq(Ticket), NEW o, NEW x
  PROVE  IsFiniteSet(Spent(o, x)) /\ Spent(o, x) \subseteq DOMAIN uploadTickets
<1>1. Len(uploadTickets) \in Nat /\ DOMAIN uploadTickets = 1 .. Len(uploadTickets)
  BY LenProperties
<1>2. Spent(o, x) \in SUBSET (1 .. Len(uploadTickets))
  BY <1>1 DEF Spent
<1>3. IsFiniteSet(1 .. Len(uploadTickets))
  BY <1>1, FS_Interval
<1> QED BY <1>1, <1>2, <1>3, FS_Subset

\* Tickets stay spent, and files keep their age.
TicketsKept ==
  \A k \in DOMAIN uploadTickets :
    /\ k \in DOMAIN uploadTickets'
    /\ uploadTickets'[k].org = uploadTickets[k].org
    /\ uploadTickets'[k].content = uploadTickets[k].content
    /\ uploadTickets'[k].createdAt = uploadTickets[k].createdAt
    /\ uploadTickets[k].state # "issued" => uploadTickets'[k].state # "issued"

FilesKept ==
  \A b \in Blob : storage[b] # Nothing =>
    /\ storage'[b] # Nothing
    /\ storage'[b].content = storage[b].content
    /\ storage'[b].createdAt = storage[b].createdAt

LEMMA SpentGrows ==
  ASSUME TicketsKept, NEW o, NEW x
  PROVE  Spent(o, x) \subseteq Spent(o, x)'
  BY DEF TicketsKept, Spent

\* Where an organisation has no more uploads than before, they stay paid for.
LEMMA PaidStays ==
  ASSUME UploadsTyped, UploadsTyped', TicketsKept, FilesKept,
         NEW o \in Tenant, NEW x \in Content, Paid(o, x),
         \A b \in Blob : b \in OfContent(o, x)' => b \in OfContent(o, x)
  PROVE  Paid(o, x)'
<1> DEFINE A == OfContent(o, x)
           B == OfContent(o, x)'
           S == Spent(o, x)
           T == Spent(o, x)'
<1>1. B \in SUBSET A /\ A \subseteq Blob /\ S \subseteq T
  BY SpentGrows DEF OfContent, Claims
<1>2. IsFiniteSet(A) /\ Cardinality(A) <= Cardinality(S)
  BY DEF Paid
<1>3. IsFiniteSet(S) /\ IsFiniteSet(T)
  <2>1. IsFiniteSet(S)
    BY SpentFinite DEF UploadsTyped
  <2>2. (uploadTickets \in Seq(Ticket) => IsFiniteSet(Spent(o, x)))'
    BY SpentFinite, PTL
  <2> QED BY <2>1, <2>2 DEF UploadsTyped
<1>4. /\ IsFiniteSet(B) /\ Cardinality(B) <= Cardinality(A)
  BY <1>1, <1>2, FS_Subset
<1>5. Cardinality(S) <= Cardinality(T)
  BY <1>1, <1>3, FS_Subset
<1>6. Cardinality(A) \in Nat /\ Cardinality(B) \in Nat /\ Cardinality(S) \in Nat /\ Cardinality(T) \in Nat
  BY <1>2, <1>3, <1>4, FS_CardinalityType
<1>7. ASSUME NEW b \in B
      PROVE  \E k \in T : uploadTickets'[k].createdAt <= storage'[b].createdAt
  <2>1. b \in A /\ b \in Blob
    BY <1>1
  <2>2. PICK k \in S : uploadTickets[k].createdAt <= storage[b].createdAt
    BY <2>1 DEF Paid
  <2>3. k \in DOMAIN uploadTickets /\ k \in T
    BY <1>1, <2>2 DEF Spent
  <2>4. storage[b] # Nothing
    BY <2>1, BoundIsStored, KnowledgeAssumption DEF OfContent, Claims
  <2> QED BY <2>1, <2>2, <2>3, <2>4 DEF TicketsKept, FilesKept
<1> QED BY <1>2, <1>4, <1>5, <1>6, <1>7 DEF Paid

\* A step that binds no upload keeps the invariant, if the tables stay typed.
LEMMA NothingClaimed ==
  ASSUME UploadsInv, UploadsTyped', BundlesMarked', TicketsKept, FilesKept,
         \A b \in Blob, o \in Tenant :
           kbUploads'[b] = o /\ exported'[b] # o => kbUploads[b] = o /\ exported[b] # o
  PROVE  UploadsInv'
<1>1. ASSUME NEW o \in Tenant, NEW x \in Content
      PROVE  Paid(o, x)'
  <2>1. ASSUME NEW b \in Blob, b \in OfContent(o, x)'
        PROVE  b \in OfContent(o, x)
    <3>1. kbUploads'[b] = o /\ exported'[b] # o /\ storage'[b].content = x
      BY <2>1 DEF OfContent, Claims
    <3>2. kbUploads[b] = o /\ exported[b] # o /\ storage[b] # Nothing
      BY <3>1, BoundIsStored, KnowledgeAssumption DEF UploadsInv
    <3> QED BY <3>1, <3>2 DEF OfContent, Claims, FilesKept
  <2>2. UploadsTyped /\ Paid(o, x)
    BY DEF UploadsInv, UploadsPaid
  <2> QED BY <2>1, <2>2, PaidStays
<1> QED BY <1>1 DEF UploadsInv, UploadsPaid

\* Every operation on tickets, files and bundles.
LEMMA TicketIssued ==
  ASSUME UploadsInv, NEW o \in Tenant, NEW x \in Content, GenerateUploadUrlWithTicket(o, x)
  PROVE  UploadsInv'
<1> DEFINE t == [org |-> o, content |-> x, createdAt |-> clock, state |-> "issued"]
<1>1. uploadTickets' = Append(uploadTickets, t) /\ UNCHANGED <<clock, storage, kbUploads, exports, exported>>
  BY DEF GenerateUploadUrlWithTicket
<1>2. uploadTickets \in Seq(Ticket) /\ t \in Ticket
  BY DEF UploadsInv, UploadsTyped, Ticket
<1> HIDE DEF t
<1>3. /\ uploadTickets' \in Seq(Ticket) /\ Len(uploadTickets') = Len(uploadTickets) + 1
      /\ \A k \in 1 .. Len(uploadTickets) : uploadTickets'[k] = uploadTickets[k]
  BY <1>1, <1>2, AppendProperties
<1>4. DOMAIN uploadTickets = 1 .. Len(uploadTickets) /\ DOMAIN uploadTickets' = 1 .. Len(uploadTickets')
      /\ Len(uploadTickets) \in Nat
  BY <1>2, <1>3, LenProperties
<1>5. TicketsKept
  BY <1>3, <1>4 DEF TicketsKept
<1>6. FilesKept /\ BundlesMarked' /\ UploadsTyped'
  BY <1>1, <1>3 DEF FilesKept, UploadsInv, BundlesMarked, UploadsTyped
<1> QED BY <1>1, <1>5, <1>6, NothingClaimed

\* A blob that was not there is stored.
LEMMA BlobStored ==
  ASSUME UploadsInv, NEW b \in Blob, NEW x \in Content, storage[b] = Nothing,
         storage' = [storage EXCEPT ![b] = [content |-> x, createdAt |-> clock, held |-> TRUE]],
         UNCHANGED <<clock, uploadTickets, kbUploads>>
  PROVE  /\ TicketsKept /\ FilesKept
         /\ storage' \in [Blob -> File \cup {Nothing}]
         /\ storage'[b] # Nothing
         /\ \A a \in Blob : kbUploads'[a] # Nothing => storage'[a] # Nothing
         /\ kbUploads[b] = Nothing
<1>1. storage \in [Blob -> File \cup {Nothing}]
  BY DEF UploadsInv, UploadsTyped
<1> DEFINE f == [content |-> x, createdAt |-> clock, held |-> TRUE]
<1>2. f \in File /\ f # Nothing
  <2>1. clock \in 0 .. MaxClock
    BY DEF UploadsInv, UploadsTyped
  <2> DEFINE times == 0 .. MaxClock
  <2>2. clock \in times /\ File = [content : Content, createdAt : times, held : BOOLEAN]
    BY <2>1 DEF File
  <2> HIDE DEF times
  <2>3. f \in File
    BY <2>2
  <2> HIDE DEF f
  <2> QED BY <2>3, KnowledgeAssumption
<1> HIDE DEF f
<1>3. storage' = [storage EXCEPT ![b] = f]
  BY DEF f
<1>4. /\ storage' \in [Blob -> File \cup {Nothing}] /\ storage'[b] = f
      /\ \A a \in Blob : a # b => storage'[a] = storage[a]
  BY <1>1, <1>2, <1>3
<1>5. kbUploads[b] = Nothing
  BY BoundIsStored DEF UploadsInv
<1>6. FilesKept
  BY <1>4 DEF FilesKept
<1>7. \A a \in Blob : kbUploads'[a] # Nothing => storage'[a] # Nothing
  BY <1>2, <1>4 DEF UploadsInv, UploadsTyped
<1> QED BY <1>2, <1>4, <1>5, <1>6, <1>7 DEF TicketsKept

LEMMA UploadDone ==
  ASSUME UploadsInv, NEW b \in Blob, NEW x \in Content, Upload(b, x)
  PROVE  UploadsInv'
<1>1. /\ TicketsKept /\ FilesKept
      /\ storage' \in [Blob -> File \cup {Nothing}]
      /\ \A a \in Blob : kbUploads'[a] # Nothing => storage'[a] # Nothing
  BY BlobStored DEF Upload
<1>2. UNCHANGED <<clock, uploadTickets, kbUploads, exports, exported>>
  BY DEF Upload
<1>3. BundlesMarked'
  <2>1. \A e \in exports : e.blob \in Blob
    BY DEF UploadsInv, UploadsTyped, Export
  <2> QED BY <1>1, <1>2, <2>1 DEF UploadsInv, BundlesMarked, FilesKept
<1>4. UploadsTyped'
  BY <1>1, <1>2 DEF UploadsInv, UploadsTyped
<1> QED BY <1>1, <1>2, <1>3, <1>4, NothingClaimed

LEMMA BundleStored ==
  ASSUME UploadsInv, NEW o \in Tenant, NEW b \in Blob, NEW x \in Content, StoreBundle(o, b, x)
  PROVE  UploadsInv'
<1> DEFINE bundle == [org |-> o, blob |-> b, bound |-> FALSE]
<1>1. /\ TicketsKept /\ FilesKept
      /\ storage' \in [Blob -> File \cup {Nothing}] /\ storage'[b] # Nothing
      /\ \A a \in Blob : kbUploads'[a] # Nothing => storage'[a] # Nothing
      /\ kbUploads[b] = Nothing
  BY BlobStored DEF StoreBundle
<1>2. /\ UNCHANGED <<clock, uploadTickets, kbUploads>> /\ exports' = exports \cup {bundle}
      /\ exported' = [exported EXCEPT ![b] = o] /\ storage[b] = Nothing
  BY DEF StoreBundle
<1>3. exports \subseteq Export /\ exported \in [Blob -> Tenant \cup {Nothing}]
  BY DEF UploadsInv, UploadsTyped
<1>4. bundle \in Export /\ bundle.blob = b /\ bundle.org = o
  BY DEF Export
<1> HIDE DEF bundle
<1>5. \A e \in exports : e.blob \in Blob /\ e.blob # b /\ exported[e.blob] = e.org /\ storage[e.blob] # Nothing
  BY <1>2, <1>3 DEF UploadsInv, BundlesMarked, Export
<1>6. BundlesMarked'
  BY <1>1, <1>2, <1>3, <1>4, <1>5 DEF BundlesMarked, FilesKept
<1>7. UploadsTyped'
  BY <1>1, <1>2, <1>3, <1>4 DEF UploadsInv, UploadsTyped
<1>8. \A a \in Blob, p \in Tenant :
        kbUploads'[a] = p /\ exported'[a] # p => kbUploads[a] = p /\ exported[a] # p
  BY <1>1, <1>2, <1>3, KnowledgeAssumption
<1> QED BY <1>1, <1>6, <1>7, <1>8, NothingClaimed

LEMMA BundleBound ==
  ASSUME UploadsInv, NEW e \in exports, BindBundle(e)
  PROVE  UploadsInv'
<1>1. exports \subseteq Export /\ e \in Export /\ e.blob \in Blob /\ e.org \in Tenant
  BY DEF UploadsInv, UploadsTyped, Export
<1>2. exported[e.blob] = e.org /\ storage[e.blob] # Nothing
  BY DEF UploadsInv, BundlesMarked
<1> DEFINE f == [e EXCEPT !.bound = TRUE]
<1>3. f \in Export /\ f.blob = e.blob /\ f.org = e.org
  BY <1>1 DEF Export
<1>4. /\ UNCHANGED <<clock, storage, uploadTickets, exported>> /\ exports' \subseteq exports \cup {f}
      /\ \/ kbUploads' = kbUploads
         \/ kbUploads' = [kbUploads EXCEPT ![e.blob] = e.org]
  BY DEF BindBundle
<1> HIDE DEF f
<1>5. TicketsKept /\ FilesKept
  BY <1>4 DEF TicketsKept, FilesKept
<1>6. BundlesMarked'
  BY <1>1, <1>2, <1>3, <1>4 DEF UploadsInv, BundlesMarked
<1>7. UploadsTyped'
  BY <1>1, <1>2, <1>3, <1>4 DEF UploadsInv, UploadsTyped
<1>8. \A a \in Blob, p \in Tenant :
        kbUploads'[a] = p /\ exported'[a] # p => kbUploads[a] = p /\ exported[a] # p
  BY <1>1, <1>2, <1>4 DEF UploadsInv, UploadsTyped
<1> QED BY <1>4, <1>5, <1>6, <1>7, <1>8, NothingClaimed

LEMMA BundleDropped ==
  ASSUME UploadsInv, NEW e \in exports, DeleteBundle(e) \/ ExportDies(e)
  PROVE  UploadsInv'
<1>1. exports \subseteq Export /\ e.blob \in Blob /\ storage \in [Blob -> File \cup {Nothing}]
  BY DEF UploadsInv, UploadsTyped, Export
<1>2. storage[e.blob] # Nothing /\ storage[e.blob] \in File
  BY <1>1 DEF UploadsInv, BundlesMarked
<1> DEFINE f == [storage[e.blob] EXCEPT !.held = FALSE]
<1>3. f \in File /\ f.content = storage[e.blob].content /\ f.createdAt = storage[e.blob].createdAt
  <2> DEFINE times == 0 .. MaxClock
  <2>1. storage[e.blob] \in [content : Content, createdAt : times, held : BOOLEAN]
    BY <1>2 DEF File
  <2> HIDE DEF times
  <2>2. File = [content : Content, createdAt : times, held : BOOLEAN]
    BY DEF File, times
  <2> QED BY <2>1, <2>2
<1>4. f # Nothing
  BY <1>3, KnowledgeAssumption
<1>5. /\ UNCHANGED <<clock, uploadTickets, kbUploads, exported>> /\ exports' \subseteq exports
      /\ \/ storage' = storage
         \/ storage' = [storage EXCEPT ![e.blob] = f]
  BY DEF DeleteBundle, ExportDies
<1> HIDE DEF f
<1>6. storage' \in [Blob -> File \cup {Nothing}] /\ FilesKept /\ TicketsKept
  BY <1>1, <1>3, <1>4, <1>5 DEF FilesKept, TicketsKept
<1>7. BundlesMarked'
  <2>1. \A g \in exports : g.blob \in Blob
    BY <1>1 DEF Export
  <2> QED BY <1>5, <1>6, <2>1 DEF UploadsInv, BundlesMarked, FilesKept
<1>8. UploadsTyped'
  BY <1>5, <1>6 DEF UploadsInv, UploadsTyped, FilesKept
<1> QED BY <1>5, <1>6, <1>7, <1>8, NothingClaimed

LEMMA TicketsPurged ==
  ASSUME UploadsInv, PurgeUploadTickets
  PROVE  UploadsInv'
<1>1. PICK S : uploadTickets' = [k \in DOMAIN uploadTickets |->
         IF k \in S THEN [uploadTickets[k] EXCEPT !.state = "purged"] ELSE uploadTickets[k]]
  BY DEF PurgeUploadTickets
<1>2. /\ uploadTickets' \in Seq(Ticket) /\ TicketsKept
  <2>1. /\ uploadTickets' \in Seq(Ticket) /\ DOMAIN uploadTickets' = DOMAIN uploadTickets
        /\ \A k \in DOMAIN uploadTickets :
             /\ uploadTickets'[k].org = uploadTickets[k].org
             /\ uploadTickets'[k].content = uploadTickets[k].content
             /\ uploadTickets'[k].createdAt = uploadTickets[k].createdAt
             /\ uploadTickets'[k].state = IF k \in S THEN "purged" ELSE uploadTickets[k].state
    BY <1>1, TicketsWritten DEF UploadsInv
  <2> QED BY <2>1 DEF TicketsKept
<1>3. UNCHANGED <<clock, storage, kbUploads, exports, exported>>
  BY DEF PurgeUploadTickets
<1>4. FilesKept /\ BundlesMarked' /\ UploadsTyped'
  BY <1>2, <1>3 DEF FilesKept, UploadsInv, BundlesMarked, UploadsTyped
<1> QED BY <1>2, <1>3, <1>4, NothingClaimed

LEMMA UploadsUntouched ==
  ASSUME UploadsInv, Later \/ UNCHANGED uploadVars
  PROVE  UploadsInv'
<1>1. /\ UNCHANGED <<storage, uploadTickets, kbUploads, exports, exported>>
      /\ clock' \in 0 .. MaxClock
  BY KnowledgeAssumption DEF Later, uploadVars, UploadsInv, UploadsTyped
<1>2. FilesKept /\ TicketsKept /\ BundlesMarked' /\ UploadsTyped'
  BY <1>1 DEF FilesKept, TicketsKept, UploadsInv, BundlesMarked, UploadsTyped
<1> QED BY <1>1, <1>2, NothingClaimed

\* A claim spends a ticket for the blob that it binds.
LEMMA UploadClaimed ==
  ASSUME UploadsInv, NEW who, NEW b \in Blob, NEW k \in DOMAIN uploadTickets, ClaimUpload(who, b, k)
  PROVE  UploadsInv'
<1>1. /\ uploadTickets \in Seq(Ticket) /\ uploadTickets[k] \in Ticket /\ k \in 1 .. Len(uploadTickets)
      /\ kbUploads \in [Blob -> Tenant \cup {Nothing}]
  <2>1. uploadTickets \in Seq(Ticket) /\ k \in 1 .. Len(uploadTickets)
    BY LenProperties DEF UploadsInv, UploadsTyped
  <2> QED BY <2>1, ElementOfSeq DEF UploadsInv, UploadsTyped
<1>3. PICK p \in Tenant, y \in Content : p = uploadTickets[k].org /\ y = uploadTickets[k].content
  BY <1>1 DEF Ticket
<1>2. /\ uploadTickets[k].state = "issued" /\ storage[b] # Nothing
      /\ uploadTickets[k].createdAt <= storage[b].createdAt /\ y = storage[b].content
      /\ kbUploads[b] \in {Nothing, p}
      /\ kbUploads' = [kbUploads EXCEPT ![b] = p]
      /\ UNCHANGED <<clock, storage, exports, exported>>
  <2>1. /\ uploadTickets[k].state = "issued" /\ storage[b] # Nothing
        /\ storage[b].createdAt >= uploadTickets[k].createdAt /\ storage[b].content = y
        /\ kbUploads[b] \in {Nothing, p}
        /\ kbUploads' = [kbUploads EXCEPT ![b] = p]
        /\ UNCHANGED <<clock, storage, exports, exported>>
    BY <1>3 DEF ClaimUpload, Usable, Covers
  <2>2. storage[b].createdAt \in Int /\ uploadTickets[k].createdAt \in Int
    <3>1. storage[b] \in File
      BY <2>1 DEF UploadsInv, UploadsTyped
    <3> QED BY <1>1, <3>1 DEF File, Ticket
  <2> QED BY <2>1, <2>2
<1>4. uploadTickets' = [j \in DOMAIN uploadTickets |->
         IF j \in {k} THEN [uploadTickets[j] EXCEPT !.state = "used"] ELSE uploadTickets[j]]
  <2>1. uploadTickets' = [uploadTickets EXCEPT ![k] = [uploadTickets[k] EXCEPT !.state = "used"]]
    BY DEF ClaimUpload
  <2> QED BY <2>1
<1>5. /\ uploadTickets' \in Seq(Ticket) /\ DOMAIN uploadTickets' = DOMAIN uploadTickets
      /\ \A j \in DOMAIN uploadTickets :
           /\ uploadTickets'[j].org = uploadTickets[j].org
           /\ uploadTickets'[j].content = uploadTickets[j].content
           /\ uploadTickets'[j].createdAt = uploadTickets[j].createdAt
           /\ uploadTickets'[j].state = IF j \in {k} THEN "used" ELSE uploadTickets[j].state
  BY <1>4, TicketsWritten DEF UploadsInv
<1>6. TicketsKept /\ FilesKept
  BY <1>2, <1>5 DEF TicketsKept, FilesKept
<1>7. BundlesMarked'
  BY <1>2 DEF UploadsInv, BundlesMarked
<1>8. UploadsTyped'
  BY <1>1, <1>2, <1>3, <1>5 DEF UploadsInv, UploadsTyped
<1>9. \A a \in Blob : kbUploads'[a] = IF a = b THEN p ELSE kbUploads[a]
  BY <1>1, <1>2
<1>10. Spent(p, y)' = Spent(p, y) \cup {k} /\ k \notin Spent(p, y)
  BY <1>2, <1>3, <1>5 DEF Spent
<1>11. ASSUME NEW o \in Tenant, NEW x \in Content, ~(o = p /\ x = y)
       PROVE  Paid(o, x)'
  <2>1. \A a \in Blob : a \in OfContent(o, x)' => a \in OfContent(o, x)
    BY <1>2, <1>9, <1>11 DEF OfContent, Claims
  <2>2. Paid(o, x)
    BY DEF UploadsInv, UploadsPaid
  <2> QED BY <1>6, <1>8, <2>1, <2>2, PaidStays DEF UploadsInv
<1>12. Paid(p, y)'
  <2> DEFINE A == OfContent(p, y)
             B == OfContent(p, y)'
             S == Spent(p, y)
             T == Spent(p, y)'
  <2>1. B \in SUBSET (A \cup {b}) /\ T = S \cup {k} /\ k \notin S
    BY <1>2, <1>9, <1>10 DEF OfContent, Claims
  <2>2. /\ IsFiniteSet(A) /\ Cardinality(A) <= Cardinality(S) /\ IsFiniteSet(S)
        /\ \A a \in A : \E j \in S : uploadTickets[j].createdAt <= storage[a].createdAt
        /\ S \subseteq DOMAIN uploadTickets
    BY <1>1, <1>3, SpentFinite DEF UploadsInv, UploadsPaid, Paid
  <2>3. /\ IsFiniteSet(A \cup {b}) /\ Cardinality(A \cup {b}) <= Cardinality(A) + 1
        /\ Cardinality(S \cup {k}) = Cardinality(S) + 1
    <3> HIDE DEF A, S
    <3>1. Cardinality(A) \in Nat /\ Cardinality(S) \in Nat
      BY <2>2, FS_CardinalityType
    <3>2. IsFiniteSet(A \cup {b}) /\ Cardinality(A \cup {b}) <= Cardinality(A) + 1
      <4>1. CASE b \in A
        <5>1. A \cup {b} = A
          BY <4>1
        <5>2. IsFiniteSet(A \cup {b}) /\ Cardinality(A \cup {b}) = Cardinality(A)
          BY <2>2, <5>1, Zenon
        <5> QED BY <3>1, <5>2
      <4>2. CASE b \notin A
        <5>1. IsFiniteSet(A \cup {b}) /\ Cardinality(A \cup {b}) = Cardinality(A) + 1
          BY <2>2, <4>2, FS_AddElement
        <5> QED BY <3>1, <5>1
      <4> QED BY <4>1, <4>2
    <3>3. Cardinality(S \cup {k}) = Cardinality(S) + 1
      BY <2>1, <2>2, FS_AddElement
    <3> QED BY <3>2, <3>3
  <2>4. IsFiniteSet(B) /\ Cardinality(B) <= Cardinality(A \cup {b})
    BY <2>1, <2>3, FS_Subset
  <2>5. /\ Cardinality(A) \in Nat /\ Cardinality(S) \in Nat /\ Cardinality(B) \in Nat
        /\ Cardinality(A \cup {b}) \in Nat
    BY <2>2, <2>3, <2>4, FS_CardinalityType
  <2>6. Cardinality(B) <= Cardinality(T)
    <3> HIDE DEF A, B, S, T
    <3> QED BY <2>1, <2>2, <2>3, <2>4, <2>5
  <2>7. ASSUME NEW a \in B
        PROVE  \E j \in T : uploadTickets'[j].createdAt <= storage'[a].createdAt
    <3>1. CASE a = b
      <4>1. k \in T /\ uploadTickets'[k].createdAt <= storage'[b].createdAt
        BY <1>2, <1>5, <2>1
      <4> QED BY <3>1, <4>1
    <3>2. CASE a # b
      <4>1. PICK j \in S : uploadTickets[j].createdAt <= storage[a].createdAt
        BY <2>1, <2>2, <3>2
      <4>2. j \in T /\ j \in DOMAIN uploadTickets
        BY <2>1, <2>2
      <4> QED BY <1>2, <1>5, <4>1, <4>2
    <3> QED BY <3>1, <3>2
  <2> QED BY <2>4, <2>6, <2>7 DEF Paid
<1>13. \A o \in Tenant, x \in Content : Paid(o, x)'
  BY <1>11, <1>12
<1> QED BY <1>7, <1>8, <1>13 DEF UploadsInv, UploadsPaid

\* All of them.
LEMMA UploadsInductive == UploadsInv /\ [UploadNext \/ DocumentNext]_kbVars => UploadsInv'
<1>1. ASSUME UNCHANGED kbVars \/ DocumentNext
      PROVE  UNCHANGED uploadVars
  BY <1>1 DEF kbVars, uploadVars, DocumentNext, StoreDocument, AssertStorageClaimedBy,
              ListChunkIdsForDoc, SupersedePriorChunks, InsertChunk, IngestDies,
              SoftDeleteDocument, ContinueDeletion
<1> QED BY <1>1, TicketIssued, UploadDone, BundleStored, BundleBound, BundleDropped, TicketsPurged,
           UploadsUntouched, UploadClaimed DEF UploadNext

-----------------------------------------------------------------------------
(* Whose the chunks are.                                                   *)

\* An ingest that has looked reads a blob that its organisation has, and so does
\* every chunk.
ReadsOwn ==
  /\ \A i \in ingests : i.pc # "claim" => kbUploads[i.blob] = i.ns[1]
  /\ \A c \in DOMAIN chunks : kbUploads[chunks[c].blob] = chunks[c].ns[1]

\* Who has a blob keeps it.
LEMMA BoundForGood ==
  ASSUME UploadsInv, [UploadNext \/ DocumentNext]_kbVars, NEW b \in Blob, kbUploads[b] # Nothing
  PROVE  kbUploads'[b] = kbUploads[b]
<1>1. kbUploads \in [Blob -> Tenant \cup {Nothing}]
  BY DEF UploadsInv, UploadsTyped
<1>2. ASSUME NEW a \in Blob, NEW o, kbUploads[a] \in {Nothing, o},
             kbUploads' = [kbUploads EXCEPT ![a] = o]
      PROVE  kbUploads'[b] = kbUploads[b]
  BY <1>1, <1>2
<1>3. ASSUME NEW who, NEW a \in Blob, NEW k \in DOMAIN uploadTickets, ClaimUpload(who, a, k)
      PROVE  kbUploads'[b] = kbUploads[b]
  BY <1>2, <1>3 DEF ClaimUpload
<1>4. ASSUME NEW e \in exports, BindBundle(e)
      PROVE  kbUploads'[b] = kbUploads[b]
  <2>1. e.blob \in Blob
    BY DEF UploadsInv, UploadsTyped, Export
  <2> QED BY <1>2, <1>4, <2>1 DEF BindBundle
<1>5. \/ UNCHANGED kbUploads
      \/ \E who \in Tenant \cup {Master}, a \in Blob, k \in DOMAIN uploadTickets : ClaimUpload(who, a, k)
      \/ \E e \in exports : BindBundle(e)
  BY DEF kbVars, uploadVars, UploadNext, GenerateUploadUrlWithTicket, StoreBundle, Upload, DeleteBundle,
         ExportDies, PurgeUploadTickets, Later, DocumentNext, StoreDocument, AssertStorageClaimedBy,
         ListChunkIdsForDoc, SupersedePriorChunks, InsertChunk, IngestDies,
         SoftDeleteDocument, ContinueDeletion
<1> QED BY <1>3, <1>4, <1>5

\* All of it.
LibraryInv == UploadsInv /\ DeletionInv /\ ReadsOwn

\* Retiring leaves whose a chunk is.
LEMMA RetiredSame ==
  ASSUME DocumentsShaped, NEW R
  PROVE  /\ DOMAIN Retired(R) = DOMAIN chunks
         /\ \A c \in DOMAIN chunks :
              /\ Retired(R)[c].ns = chunks[c].ns /\ Retired(R)[c].blob = chunks[c].blob
              /\ Retired(R)[c].part = chunks[c].part /\ Retired(R)[c].by = chunks[c].by
              /\ Retired(R)[c].isLatest <=> chunks[c].isLatest /\ c \notin R
<1>1. \A c \in DOMAIN chunks : chunks[c] \in Chunk
  BY LenProperties, ElementOfSeq DEF DocumentsShaped
<1>2. ASSUME NEW c \in DOMAIN chunks, NEW e, e = [chunks[c] EXCEPT !.isLatest = FALSE]
      PROVE  /\ e.ns = chunks[c].ns /\ e.blob = chunks[c].blob /\ e.part = chunks[c].part
             /\ e.by = chunks[c].by /\ ~e.isLatest
  <2> DEFINE ids == 1 .. MaxIngests
  <2>1. chunks[c] \in [ns : Namespace, blob : Blob, part : Nat, by : ids, isLatest : BOOLEAN]
    BY <1>1 DEF Chunk
  <2> HIDE DEF ids
  <2> QED BY <1>2, <2>1
<1> QED BY <1>2 DEF Retired

\* What reads its own blob, of the blobs as they are bound before the step.
StillOwn ==
  /\ \A i \in ingests' : i.pc # "claim" => kbUploads[i.blob] = i.ns[1]
  /\ \A c \in DOMAIN chunks' : kbUploads[chunks'[c].blob] = chunks'[c].ns[1]

\* What is theirs stays theirs.
LEMMA ReadsOwnStays ==
  ASSUME LibraryInv, [UploadNext \/ DocumentNext]_kbVars, DeletionInv', StillOwn
  PROVE  ReadsOwn'
<1>1. ASSUME NEW b \in Blob, NEW ns \in Namespace, kbUploads[b] = ns[1]
      PROVE  kbUploads'[b] = ns[1]
  <2>1. ns[1] \in Tenant
    BY DEF Namespace
  <2> QED BY <1>1, <2>1, BoundForGood, KnowledgeAssumption DEF LibraryInv
<1>2. \A i \in ingests' : i.blob \in Blob /\ i.ns \in Namespace
  BY DEF DeletionInv, DocumentsShaped, Ingest
<1>3. \A c \in DOMAIN chunks' : chunks'[c].blob \in Blob /\ chunks'[c].ns \in Namespace
  <2>1. \A c \in DOMAIN chunks' : chunks'[c] \in Chunk
    BY LenProperties, ElementOfSeq DEF DeletionInv, DocumentsShaped
  <2> QED BY <2>1 DEF Chunk
<1> QED BY <1>1, <1>2, <1>3 DEF StillOwn, ReadsOwn

\* A batch of a deletion disturbs ingests and retires chunks.
LEMMA BatchOwn ==
  ASSUME DocumentsShaped, ReadsOwn, NEW ns, NEW pending, MarkDocSoftDeleted(ns, pending)
  PROVE  StillOwn
<1>1. ingests' = Disturbed(ns)
  BY DEF MarkDocSoftDeleted
<1>3. PICK R : chunks' = Retired(R)
  BY DEF MarkDocSoftDeleted
<1>4. /\ DOMAIN chunks' = DOMAIN chunks
      /\ \A c \in DOMAIN chunks : chunks'[c].ns = chunks[c].ns /\ chunks'[c].blob = chunks[c].blob
  <2>1. /\ DOMAIN Retired(R) = DOMAIN chunks
        /\ \A c \in DOMAIN chunks :
             Retired(R)[c].ns = chunks[c].ns /\ Retired(R)[c].blob = chunks[c].blob
    BY RetiredSame
  <2> QED BY <1>3, <2>1
<1>2. \A i \in Disturbed(ns) : \E j \in ingests : i.pc = j.pc /\ i.blob = j.blob /\ i.ns = j.ns
  <2>1. ASSUME NEW j \in ingests, NEW i, i = [j EXCEPT !.alone = FALSE]
        PROVE  i.pc = j.pc /\ i.blob = j.blob /\ i.ns = j.ns
    BY <2>1 DEF DocumentsShaped, Ingest
  <2> QED BY <2>1 DEF Disturbed
<1> QED BY <1>1, <1>2, <1>4 DEF StillOwn, ReadsOwn

\* Every operation on a document.
LEMMA DocumentsOwn ==
  ASSUME LibraryInv, DocumentNext
  PROVE  StillOwn
<1>a. /\ ingests \subseteq Ingest /\ DocumentsShaped /\ ReadsOwn
      /\ chunks \in Seq(Chunk)
  BY DEF LibraryInv, DeletionInv, DocumentsShaped
<1>b. ASSUME NEW S, NEW i \in ingests, NEW j, ingests' \subseteq ingests \cup {j},
             j.pc # "claim" => kbUploads[j.blob] = j.ns[1], UNCHANGED chunks
      PROVE  StillOwn
  BY <1>a, <1>b DEF StillOwn, ReadsOwn
<1>1. ASSUME NEW ns \in Namespace, NEW b \in Blob, StoreDocument(ns, b)
      PROVE  StillOwn
  <2>1. UNCHANGED chunks /\ \E j : ingests' = Disturbed(ns) \cup {j} /\ j.pc = "claim"
    <3> DEFINE j == [id |-> begun + 1, ns |-> ns, blob |-> b, pc |-> "claim", prior |-> {}, next |-> 1,
                     alone |-> continuations[ns] = 0 /\ \A i \in ingests : i.ns # ns]
    <3>1. ingests' = Disturbed(ns) \cup {j} /\ UNCHANGED chunks
      BY <1>1 DEF StoreDocument
    <3>2. j.pc = "claim"
      OBVIOUS
    <3> HIDE DEF j
    <3> QED BY <3>1, <3>2
  <2>2. \A i \in Disturbed(ns) : \E j \in ingests : i.pc = j.pc /\ i.blob = j.blob /\ i.ns = j.ns
    <3>1. ASSUME NEW j \in ingests, NEW i, i = [j EXCEPT !.alone = FALSE]
          PROVE  i.pc = j.pc /\ i.blob = j.blob /\ i.ns = j.ns
      BY <1>a, <3>1 DEF Ingest
    <3> QED BY <3>1 DEF Disturbed
  <2> QED BY <1>a, <2>1, <2>2 DEF StillOwn, ReadsOwn
<1>2. ASSUME NEW i \in ingests, AssertStorageClaimedBy(i)
      PROVE  StillOwn
  <2> DEFINE j == [i EXCEPT !.pc = "list"]
  <2>1. j.blob = i.blob /\ j.ns = i.ns
    BY <1>a DEF Ingest
  <2>2. /\ UNCHANGED chunks
        /\ \/ ingests' \subseteq ingests
           \/ ingests' \subseteq ingests \cup {j} /\ kbUploads[i.blob] = i.ns[1]
    BY <1>2 DEF AssertStorageClaimedBy, Step, ClaimedByOwn
  <2> HIDE DEF j
  <2> QED BY <1>a, <2>1, <2>2 DEF StillOwn, ReadsOwn
<1>3. ASSUME NEW i \in ingests, ListChunkIdsForDoc(i)
      PROVE  StillOwn
  <2>1. PICK S, p : ingests' = (ingests \ {i}) \cup {[i EXCEPT !.prior = S, !.pc = p]}
    BY <1>3 DEF ListChunkIdsForDoc, Step
  <2> DEFINE j == [i EXCEPT !.prior = S, !.pc = p]
  <2>2. j.blob = i.blob /\ j.ns = i.ns /\ i.pc = "list" /\ UNCHANGED chunks
    BY <1>a, <1>3 DEF Ingest, ListChunkIdsForDoc
  <2> HIDE DEF j
  <2> QED BY <1>a, <2>1, <2>2 DEF StillOwn, ReadsOwn, j
<1>4. ASSUME NEW i \in ingests, SupersedePriorChunks(i)
      PROVE  StillOwn
  <2> DEFINE j == [i EXCEPT !.pc = "insert", !.prior = {}]
  <2>1. j.blob = i.blob /\ j.ns = i.ns
    BY <1>a DEF Ingest
  <2>2. /\ chunks' = Retired(i.prior) /\ ingests' = (ingests \ {i}) \cup {j} /\ i.pc = "supersede"
    BY <1>4 DEF SupersedePriorChunks, Step
  <2> HIDE DEF j
  <2>3. /\ DOMAIN chunks' = DOMAIN chunks
        /\ \A c \in DOMAIN chunks : chunks'[c].ns = chunks[c].ns /\ chunks'[c].blob = chunks[c].blob
    <3>1. /\ DOMAIN Retired(i.prior) = DOMAIN chunks
          /\ \A c \in DOMAIN chunks :
               /\ Retired(i.prior)[c].ns = chunks[c].ns
               /\ Retired(i.prior)[c].blob = chunks[c].blob
      BY <1>a, RetiredSame
    <3> QED BY <2>2, <3>1
  <2> QED BY <1>a, <2>1, <2>2, <2>3 DEF StillOwn, ReadsOwn
<1>5. ASSUME NEW i \in ingests, InsertChunk(i)
      PROVE  StillOwn
  <2> DEFINE j == [i EXCEPT !.next = i.next + 1]
             chunk == [ns |-> i.ns, blob |-> i.blob, part |-> i.next, by |-> i.id, isLatest |-> TRUE]
  <2>1. j.blob = i.blob /\ j.ns = i.ns /\ chunk.blob = i.blob /\ chunk.ns = i.ns
    BY <1>a DEF Ingest
  <2>2. /\ i.pc = "insert" /\ ingests' \subseteq ingests \cup {j} /\ chunks' = Append(chunks, chunk)
    BY <1>5 DEF InsertChunk, Step
  <2>3. chunk \in Chunk
    BY <1>a DEF Ingest, Chunk
  <2> HIDE DEF j, chunk
  <2>4. /\ DOMAIN chunks' = DOMAIN chunks \cup {Len(chunks) + 1}
        /\ chunks'[Len(chunks) + 1] = chunk
        /\ \A c \in DOMAIN chunks : chunks'[c] = chunks[c]
    <3>1. /\ chunks' \in Seq(Chunk) /\ Len(chunks') = Len(chunks) + 1
          /\ \A c \in 1 .. Len(chunks) : chunks'[c] = chunks[c]
          /\ chunks'[Len(chunks) + 1] = chunk
      BY <1>a, <2>2, <2>3, AppendProperties
    <3>2. /\ DOMAIN chunks = 1 .. Len(chunks) /\ DOMAIN chunks' = 1 .. Len(chunks')
          /\ Len(chunks) \in Nat
      BY <1>a, <3>1, LenProperties
    <3> QED BY <3>1, <3>2
  <2> QED BY <1>a, <2>1, <2>2, <2>4 DEF StillOwn, ReadsOwn
<1>6. ASSUME NEW i \in ingests, IngestDies(i)
      PROVE  StillOwn
  BY <1>a, <1>6 DEF IngestDies, StillOwn, ReadsOwn
<1>7. ASSUME NEW ns \in Namespace, SoftDeleteDocument(ns) \/ ContinueDeletion(ns)
      PROVE  StillOwn
  BY <1>a, <1>7, BatchOwn DEF SoftDeleteDocument, ContinueDeletion
<1> QED BY <1>1, <1>2, <1>3, <1>4, <1>5, <1>6, <1>7 DEF DocumentNext

\* The tables keep their types; an organisation has claimed no more files than it
\* spent tickets on, each issued before the upload; and every chunk is of a file
\* its organisation has (claimUpload, bindOrAssertStorageOwnership,
\* assertStorageClaimedBy).
THEOREM LibraryIsSound == KnowledgeSpec => []LibrarySound
<1>1. KnowledgeInit => LibraryInv
  <2> SUFFICES ASSUME KnowledgeInit PROVE LibraryInv
    OBVIOUS
  <2>1. UploadsTyped /\ BundlesMarked
    <3>1. uploadTickets \in Seq(Ticket)
      BY EmptySeq DEF KnowledgeInit
    <3>2. 0 \in 0 .. MaxClock
      BY KnowledgeAssumption
    <3> QED BY <3>1, <3>2 DEF KnowledgeInit, UploadsTyped, BundlesMarked
  <2>2. ASSUME NEW o \in Tenant, NEW x \in Content
        PROVE  Paid(o, x)
    <3>1. OfContent(o, x) = {} /\ Spent(o, x) = {}
      BY DEF KnowledgeInit, OfContent, Claims, Spent
    <3>2. IsFiniteSet({}) /\ Cardinality({}) = 0
      BY FS_EmptySet
    <3> QED BY <3>1, <3>2 DEF Paid
  <2>3. ReadsOwn
    BY DEF KnowledgeInit, ReadsOwn
  <2> QED BY <2>1, <2>2, <2>3, InitDeletionInv DEF LibraryInv, UploadsInv, UploadsPaid
<1>2. LibraryInv /\ [UploadNext \/ DocumentNext]_kbVars => LibraryInv'
  <2> SUFFICES ASSUME LibraryInv, [UploadNext \/ DocumentNext]_kbVars PROVE LibraryInv'
    OBVIOUS
  <2>1. UploadsInv' /\ DeletionInv'
    BY UploadsInductive, DeletionInductive DEF LibraryInv
  <2>2. ASSUME UploadNext \/ UNCHANGED kbVars
        PROVE  UNCHANGED documentVars
    BY <2>2 DEF UploadNext, kbVars, documentVars, GenerateUploadUrlWithTicket, Upload, ClaimUpload,
                PurgeUploadTickets, StoreBundle, BindBundle, DeleteBundle, ExportDies, Later
  <2>3. StillOwn
    BY <2>2, DocumentsOwn DEF documentVars, LibraryInv, ReadsOwn, StillOwn
  <2> QED BY <2>1, <2>3, ReadsOwnStays DEF LibraryInv
<1>3. LibraryInv => LibrarySound
  <2> SUFFICES ASSUME LibraryInv PROVE LibrarySound
    OBVIOUS
  <2>1. KnowledgeTyped
    BY DEF LibraryInv, UploadsInv, UploadsTyped, DeletionInv, DocumentsShaped, KnowledgeTyped
  <2>2. OnlyProvenContent
    BY DEF LibraryInv, UploadsInv, UploadsPaid, Paid, ReadsOwn, OnlyProvenContent
  <2> QED BY <2>1, <2>2 DEF LibrarySound
<1> QED BY <1>1, <1>2, <1>3, PTL DEF KnowledgeSpec

-----------------------------------------------------------------------------
(* An ingest that nobody disturbs.                                         *)

\* Nobody else is at the document of an ingest.
Unshared(i) == continuations[i.ns] = 0 /\ \A j \in ingests : j.ns = i.ns => j = i

\* How far an ingest that nobody has disturbed has got with its document.
GotSoFar(i) ==
  /\ i.pc # "insert" => i.next = 1
  /\ i.pc = "supersede" => i.prior = LiveChunks(i.ns)
  /\ i.pc = "insert" =>
       /\ i.next >= 1
       /\ \A c \in LiveChunks(i.ns) : chunks[c].by = i.id
       /\ \A p \in Nat : p \in 1 .. i.next - 1 <=> \E c \in LiveChunks(i.ns) : chunks[c].part = p

\* What an ingest has listed.
OfItsDocument(i) == \A c \in i.prior : c \in DOMAIN chunks /\ chunks[c].ns = i.ns

IngestsInv ==
  /\ DeletionInv
  /\ \A i \in ingests : OfItsDocument(i) /\ (i.alone => Unshared(i) /\ GotSoFar(i))

\* A step that leaves one document, and its ingests, alone.
SameDoc(ns) ==
  /\ \A c \in DOMAIN chunks : c \in DOMAIN chunks' /\ chunks'[c].ns = chunks[c].ns
  /\ \A c \in DOMAIN chunks' : chunks'[c].ns = ns => c \in DOMAIN chunks /\ chunks'[c] = chunks[c]
  /\ continuations'[ns] = continuations[ns]
  /\ \A j : j.ns = ns => (j \in ingests' <=> j \in ingests)

\* What is live of such a document stays.
LEMMA SameLive ==
  ASSUME NEW ns, SameDoc(ns)
  PROVE  /\ LiveChunks(ns)' = LiveChunks(ns)
         /\ \A c \in LiveChunks(ns) : chunks'[c] = chunks[c]
<1>1. \A c : c \in LiveChunks(ns)' <=> c \in LiveChunks(ns)
  <2> TAKE c
  <2>1. ASSUME c \in LiveChunks(ns)' PROVE c \in LiveChunks(ns)
    BY <2>1 DEF LiveChunks, SameDoc
  <2>2. ASSUME c \in LiveChunks(ns) PROVE c \in LiveChunks(ns)'
    <3>1. c \in DOMAIN chunks' /\ chunks'[c].ns = ns
      BY <2>2 DEF LiveChunks, SameDoc
    <3>2. chunks'[c] = chunks[c]
      BY <3>1 DEF SameDoc
    <3> QED BY <2>2, <3>1, <3>2 DEF LiveChunks
  <2> QED BY <2>1, <2>2
<1>2. \A c \in LiveChunks(ns) : chunks'[c] = chunks[c]
  BY DEF LiveChunks, SameDoc
<1> QED BY <1>1, <1>2

LEMMA SameDocKeeps ==
  ASSUME IngestsInv, NEW i \in ingests, SameDoc(i.ns)
  PROVE  OfItsDocument(i)' /\ (i.alone => Unshared(i)' /\ GotSoFar(i)')
<1>1. OfItsDocument(i)'
  BY DEF IngestsInv, OfItsDocument, SameDoc
<1>2. ASSUME i.alone PROVE Unshared(i)' /\ GotSoFar(i)'
  <2> DEFINE live == LiveChunks(i.ns)
  <2>1. LiveChunks(i.ns)' = live /\ \A c \in live : chunks'[c] = chunks[c]
    BY SameLive
  <2>2. Unshared(i) /\ GotSoFar(i)
    BY <1>2 DEF IngestsInv
  <2>3. continuations'[i.ns] = 0 /\ \A j \in ingests' : j.ns = i.ns => j = i
    BY <2>2 DEF Unshared, SameDoc
  <2> QED BY <2>1, <2>2, <2>3 DEF Unshared, GotSoFar
<1> QED BY <1>1, <1>2

\* A step on one document.
LEMMA OthersKept ==
  ASSUME IngestsInv, DeletionInv', NEW ns,
         \A i \in ingests' : i.ns # ns => i \in ingests /\ SameDoc(i.ns),
         \A i \in ingests' : i.ns = ns =>
           OfItsDocument(i)' /\ (i.alone => Unshared(i)' /\ GotSoFar(i)')
  PROVE  IngestsInv'
<1>1. ASSUME NEW i \in ingests'
      PROVE  OfItsDocument(i)' /\ (i.alone => Unshared(i)' /\ GotSoFar(i)')
  BY <1>1, SameDocKeeps
<1> QED BY <1>1 DEF IngestsInv

\* The chunks that a step on one document may change.
ChunksOnly(ns) ==
  /\ \A c \in DOMAIN chunks : c \in DOMAIN chunks' /\ chunks'[c].ns = chunks[c].ns
  /\ \A c \in DOMAIN chunks' : chunks'[c].ns # ns => c \in DOMAIN chunks /\ chunks'[c] = chunks[c]

\* A step of one ingest.
LEMMA OneIngest ==
  ASSUME IngestsInv, DeletionInv', NEW i \in ingests, NEW j,
         ingests' \subseteq (ingests \ {i}) \cup {j}, ingests \ {i} \subseteq ingests',
         j.ns = i.ns, j.alone => i.alone,
         UNCHANGED continuations, ChunksOnly(i.ns),
         j \in ingests' => OfItsDocument(j)' /\ (j.alone => GotSoFar(j)')
  PROVE  IngestsInv'
<1>1. ASSUME NEW k \in ingests', k.ns # i.ns
      PROVE  k \in ingests /\ SameDoc(k.ns)
  BY <1>1 DEF SameDoc, ChunksOnly
<1>2. ASSUME NEW k \in ingests', k.ns = i.ns
      PROVE  OfItsDocument(k)' /\ (k.alone => Unshared(k)' /\ GotSoFar(k)')
  <2>1. CASE k # j
    <3>1. k \in ingests /\ k # i
      BY <2>1
    <3>2. ~k.alone
      BY <1>2, <3>1 DEF IngestsInv, Unshared
    <3>3. OfItsDocument(k)'
      BY <3>1 DEF IngestsInv, OfItsDocument, ChunksOnly
    <3> QED BY <3>2, <3>3
  <2>2. CASE k = j
    <3>1. ASSUME j.alone PROVE Unshared(j)'
      BY <3>1 DEF IngestsInv, Unshared
    <3> QED BY <2>2, <3>1
  <2> QED BY <2>1, <2>2
<1> DEFINE ns == i.ns
<1>3. PICK n : n = ns
  OBVIOUS
<1>4. /\ \A k \in ingests' : k.ns # n => k \in ingests /\ SameDoc(k.ns)
      /\ \A k \in ingests' : k.ns = n =>
           OfItsDocument(k)' /\ (k.alone => Unshared(k)' /\ GotSoFar(k)')
  BY <1>1, <1>2, <1>3
<1> QED BY <1>4, OthersKept

\* The types, as the steps need them.
LEMMA Shaped ==
  ASSUME IngestsInv
  PROVE  /\ ingests \subseteq Ingest /\ chunks \in Seq(Chunk) /\ DocumentsShaped
         /\ \A c \in DOMAIN chunks : chunks[c] \in Chunk
<1>1. chunks \in Seq(Chunk)
  BY DEF IngestsInv, DeletionInv, DocumentsShaped
<1>2. \A c \in DOMAIN chunks : chunks[c] \in Chunk
  BY <1>1, LenProperties, ElementOfSeq
<1> QED BY <1>1, <1>2 DEF IngestsInv, DeletionInv, DocumentsShaped

\* Retiring chunks of one document.
LEMMA RetiredOnly ==
  ASSUME DocumentsShaped, NEW ns, NEW R, \A c \in R : c \in DOMAIN chunks => chunks[c].ns = ns,
         chunks' = Retired(R)
  PROVE  ChunksOnly(ns)
<1>1. DOMAIN Retired(R) = DOMAIN chunks /\ \A c \in DOMAIN chunks : Retired(R)[c].ns = chunks[c].ns
  BY RetiredSame
<1>2. \A c \in DOMAIN chunks : c \notin R => Retired(R)[c] = chunks[c]
  BY DEF Retired
<1> QED BY <1>1, <1>2 DEF ChunksOnly

\* The ingests of a document are disturbed, and no other.
LEMMA DisturbedOnly ==
  ASSUME IngestsInv, NEW ns
  PROVE  /\ \A i \in Disturbed(ns) : i.ns # ns => i \in ingests
         /\ \A i \in ingests : i.ns # ns => i \in Disturbed(ns)
         /\ \A i \in Disturbed(ns) : i.ns = ns =>
              ~i.alone /\ \E j \in ingests : j.ns = ns /\ i.prior = j.prior
<1>1. ASSUME NEW j \in ingests, NEW i, i = [j EXCEPT !.alone = FALSE]
      PROVE  i.ns = j.ns /\ i.prior = j.prior /\ ~i.alone
  <2> DEFINE ids == 1 .. MaxIngests
             pcs == {"claim", "list", "supersede", "insert"}
  <2>1. j \in [id : ids, ns : Namespace, blob : Blob, pc : pcs, prior : SUBSET Nat, next : Nat,
               alone : BOOLEAN]
    BY Shaped DEF Ingest
  <2> HIDE DEF ids, pcs
  <2> QED BY <1>1, <2>1
<1> QED BY <1>1 DEF Disturbed

\* What is left of a document that is deleted, or ingested anew.
LEMMA DocumentDisturbed ==
  ASSUME IngestsInv, DeletionInv', NEW ns, NEW N,
         ingests' = Disturbed(ns) \cup N,
         \A m \in Namespace : m # ns => continuations'[m] = continuations[m],
         ChunksOnly(ns),
         \A i \in N : i.ns = ns /\ OfItsDocument(i)' /\ (i.alone => Unshared(i)' /\ GotSoFar(i)')
  PROVE  IngestsInv'
<1>1. ASSUME NEW i \in ingests', i.ns # ns
      PROVE  i \in ingests /\ SameDoc(i.ns)
  <2>1. i \in ingests /\ i.ns \in Namespace
    BY <1>1, DisturbedOnly, Shaped DEF Ingest
  <2>2. \A j : j.ns = i.ns => (j \in ingests' <=> j \in ingests)
    BY <1>1, DisturbedOnly
  <2> QED BY <1>1, <2>1, <2>2 DEF SameDoc, ChunksOnly
<1>2. ASSUME NEW i \in ingests', i.ns = ns
      PROVE  OfItsDocument(i)' /\ (i.alone => Unshared(i)' /\ GotSoFar(i)')
  <2>1. CASE i \in N
    BY <2>1
  <2>2. CASE i \in Disturbed(ns)
    <3>1. ~i.alone /\ \E j \in ingests : j.ns = ns /\ i.prior = j.prior
      BY <1>2, <2>2, DisturbedOnly
    <3>2. OfItsDocument(i)'
      BY <1>2, <3>1 DEF IngestsInv, OfItsDocument, ChunksOnly
    <3> QED BY <3>1, <3>2
  <2> QED BY <2>1, <2>2
<1> QED BY <1>1, <1>2, OthersKept

\* A batch of a deletion.
LEMMA DeletionDisturbs ==
  ASSUME IngestsInv, DeletionInv', NEW ns \in Namespace, NEW pending, MarkDocSoftDeleted(ns, pending)
  PROVE  IngestsInv'
<1>1. /\ chunks' = Retired(FirstRows(LiveChunks(ns), MARK_DOC_BATCH_SIZE))
      /\ ingests' = Disturbed(ns)
  BY DEF MarkDocSoftDeleted
<1>2. \A c \in FirstRows(LiveChunks(ns), MARK_DOC_BATCH_SIZE) : chunks[c].ns = ns
  BY DEF FirstRows, LiveChunks
<1>3. ChunksOnly(ns)
  BY <1>1, <1>2, RetiredOnly, Shaped
<1>4. \A m \in Namespace : m # ns => continuations'[m] = continuations[m]
  BY DEF MarkDocSoftDeleted, IngestsInv, DeletionInv, DocumentsShaped
<1>5. PICK N : N = {}
  OBVIOUS
<1>6. ingests' = Disturbed(ns) \cup N
  BY <1>1, <1>5
<1>7. \A i \in N : i.ns = ns /\ OfItsDocument(i)' /\ (i.alone => Unshared(i)' /\ GotSoFar(i)')
  BY <1>5
<1> QED BY <1>3, <1>4, <1>6, <1>7, DocumentDisturbed

\* A new ingest.
LEMMA IngestBegun ==
  ASSUME IngestsInv, DeletionInv', NEW ns \in Namespace, NEW b \in Blob, StoreDocument(ns, b)
  PROVE  IngestsInv'
<1> DEFINE alone == continuations[ns] = 0 /\ \A i \in ingests : i.ns # ns
<1>1. PICK i : /\ i = [id |-> begun + 1, ns |-> ns, blob |-> b, pc |-> "claim", prior |-> {}, next |-> 1,
                       alone |-> alone]
  OBVIOUS
<1>2. ingests' = Disturbed(ns) \cup {i} /\ UNCHANGED <<chunks, continuations>>
  BY <1>1 DEF StoreDocument
<1>3. i.ns = ns /\ i.pc = "claim" /\ i.prior = {} /\ i.next = 1 /\ (i.alone <=> alone)
  <2> HIDE DEF alone
  <2> QED BY <1>1
<1>4. OfItsDocument(i)' /\ GotSoFar(i)'
  BY <1>3 DEF OfItsDocument, GotSoFar
<1>5. ASSUME i.alone PROVE Unshared(i)'
  <2>1. Disturbed(ns) = ingests /\ continuations[ns] = 0 /\ \A j \in ingests : j.ns # ns
    BY <1>3, <1>5 DEF Disturbed
  <2> QED BY <1>2, <1>3, <2>1 DEF Unshared
<1>6. ChunksOnly(ns)
  BY <1>2 DEF ChunksOnly
<1>7. PICK N : N = {i}
  OBVIOUS
<1>8. ingests' = Disturbed(ns) \cup N
  BY <1>2, <1>7
<1>9. \A j \in N : j.ns = ns /\ OfItsDocument(j)' /\ (j.alone => Unshared(j)' /\ GotSoFar(j)')
  BY <1>3, <1>4, <1>5, <1>7
<1>10. \A m \in Namespace : m # ns => continuations'[m] = continuations[m]
  BY <1>2
<1> QED BY <1>6, <1>8, <1>9, <1>10, DocumentDisturbed

\* The columns of an ingest, its numbers opaque.
LEMMA IngestRecord ==
  ASSUME NEW i \in Ingest
  PROVE  \E ids, pcs : i \in [id : ids, ns : Namespace, blob : Blob, pc : pcs, prior : SUBSET Nat,
                              next : Nat, alone : BOOLEAN]
  BY DEF Ingest

\* The steps of one ingest.
LEMMA LooksInv ==
  ASSUME IngestsInv, DeletionInv', NEW i \in ingests, AssertStorageClaimedBy(i)
  PROVE  IngestsInv'
<1>1. PICK j : j = [i EXCEPT !.pc = "list"]
  OBVIOUS
<1>2. i \in Ingest
  BY Shaped
<1>3. /\ j.ns = i.ns /\ j.alone = i.alone /\ j.next = i.next
      /\ j.pc = "list" /\ j.prior = i.prior
  <2>1. PICK ids, pcs : i \in [id : ids, ns : Namespace, blob : Blob, pc : pcs, prior : SUBSET Nat,
                               next : Nat, alone : BOOLEAN]
    BY <1>2, IngestRecord
  <2> QED BY <1>1, <2>1
<1>4. /\ ingests' \subseteq (ingests \ {i}) \cup {j} /\ ingests \ {i} \subseteq ingests'
      /\ UNCHANGED <<chunks, continuations>> /\ i.pc = "claim"
  BY <1>1 DEF AssertStorageClaimedBy, Step
<1>5. OfItsDocument(j)' /\ (j.alone => GotSoFar(j)')
  BY <1>3, <1>4 DEF IngestsInv, OfItsDocument, GotSoFar
<1>6. ChunksOnly(i.ns)
  BY <1>4 DEF ChunksOnly
<1> QED BY <1>3, <1>4, <1>5, <1>6, OneIngest

LEMMA ListsInv ==
  ASSUME IngestsInv, DeletionInv', NEW i \in ingests, ListChunkIdsForDoc(i)
  PROVE  IngestsInv'
<1>1. PICK S, p : S = LiveChunks(i.ns) /\ p = IF S = {} THEN "insert" ELSE "supersede"
  OBVIOUS
<1>2. PICK j : j = [i EXCEPT !.prior = S, !.pc = p]
  OBVIOUS
<1>3. i \in Ingest /\ S \in SUBSET Nat
  BY <1>1, Shaped, LiveChunksFinite
<1>4. /\ j.ns = i.ns /\ j.alone = i.alone /\ j.next = i.next
      /\ j.pc = p /\ j.prior = S
  <2>1. PICK ids, pcs : i \in [id : ids, ns : Namespace, blob : Blob, pc : pcs, prior : SUBSET Nat,
                               next : Nat, alone : BOOLEAN]
    BY <1>3, IngestRecord
  <2> QED BY <1>2, <2>1
<1>5. /\ ingests' = (ingests \ {i}) \cup {j} /\ i.pc = "list"
      /\ UNCHANGED <<chunks, continuations>>
  BY <1>1, <1>2 DEF ListChunkIdsForDoc, Step, ChunkIdsForDoc
<1>6. LiveChunks(i.ns)' = S
  BY <1>1, <1>5 DEF LiveChunks
<1>7. OfItsDocument(j)'
  BY <1>4, <1>6 DEF OfItsDocument, LiveChunks
<1>8. ASSUME j.alone PROVE GotSoFar(j)'
  <2>1. i.next = 1
    BY <1>4, <1>5, <1>8 DEF IngestsInv, GotSoFar
  <2>2. \A q \in Nat : ~(q \in 1 .. 1 - 1)
    OBVIOUS
  <2> QED BY <1>1, <1>4, <1>6, <2>1, <2>2 DEF GotSoFar
<1>9. ChunksOnly(i.ns)
  BY <1>5 DEF ChunksOnly
<1> QED BY <1>4, <1>5, <1>7, <1>8, <1>9, OneIngest

LEMMA SupersedesInv ==
  ASSUME IngestsInv, DeletionInv', NEW i \in ingests, SupersedePriorChunks(i)
  PROVE  IngestsInv'
<1>1. PICK j : j = [i EXCEPT !.pc = "insert", !.prior = {}]
  OBVIOUS
<1>2. i \in Ingest
  BY Shaped
<1>3. /\ j.ns = i.ns /\ j.alone = i.alone /\ j.next = i.next
      /\ j.pc = "insert" /\ j.prior = {}
  <2>1. PICK ids, pcs : i \in [id : ids, ns : Namespace, blob : Blob, pc : pcs, prior : SUBSET Nat,
                               next : Nat, alone : BOOLEAN]
    BY <1>2, IngestRecord
  <2> QED BY <1>1, <2>1
<1>4. /\ ingests' = (ingests \ {i}) \cup {j} /\ i.pc = "supersede" /\ chunks' = Retired(i.prior)
      /\ UNCHANGED continuations
  BY <1>1 DEF SupersedePriorChunks, Step
<1>5. ChunksOnly(i.ns)
  <2>1. \A c \in i.prior : chunks[c].ns = i.ns
    BY DEF IngestsInv, OfItsDocument
  <2> QED BY <1>4, <2>1, RetiredOnly, Shaped
<1>6. OfItsDocument(j)'
  BY <1>3 DEF OfItsDocument
<1>7. ASSUME j.alone PROVE GotSoFar(j)'
  <2>1. i.next = 1 /\ i.prior = LiveChunks(i.ns)
    BY <1>3, <1>4, <1>7 DEF IngestsInv, GotSoFar
  <2>2. LiveChunks(i.ns)' = {}
    <3>1. /\ DOMAIN Retired(i.prior) = DOMAIN chunks
          /\ \A c \in DOMAIN chunks :
               /\ Retired(i.prior)[c].ns = chunks[c].ns
               /\ Retired(i.prior)[c].isLatest <=> chunks[c].isLatest /\ c \notin i.prior
      BY RetiredSame, Shaped
    <3> QED BY <1>4, <2>1, <3>1 DEF LiveChunks
  <2>3. \A q \in Nat : ~(q \in 1 .. 1 - 1)
    OBVIOUS
  <2> QED BY <1>3, <2>1, <2>2, <2>3 DEF GotSoFar
<1> QED BY <1>3, <1>4, <1>5, <1>6, <1>7, OneIngest

\* What the insertion of a chunk does to the document.
LEMMA ChunkInserted ==
  ASSUME IngestsInv, NEW i \in ingests, InsertChunk(i)
  PROVE  /\ ChunksOnly(i.ns)
         /\ LiveChunks(i.ns)' = LiveChunks(i.ns) \cup {Len(chunks) + 1}
         /\ \A c \in LiveChunks(i.ns) : chunks'[c] = chunks[c]
         /\ chunks'[Len(chunks) + 1].by = i.id /\ chunks'[Len(chunks) + 1].part = i.next
<1>1. PICK chunk : chunk = [ns |-> i.ns, blob |-> i.blob, part |-> i.next, by |-> i.id, isLatest |-> TRUE]
  OBVIOUS
<1>2. /\ chunk.ns = i.ns /\ chunk.part = i.next /\ chunk.by = i.id /\ chunk.isLatest
      /\ chunks' = Append(chunks, chunk)
  BY <1>1 DEF InsertChunk
<1>3. chunk \in Chunk /\ chunks \in Seq(Chunk)
  BY <1>1, Shaped DEF Ingest, Chunk
<1>4. /\ chunks' \in Seq(Chunk) /\ Len(chunks') = Len(chunks) + 1
      /\ \A c \in 1 .. Len(chunks) : chunks'[c] = chunks[c]
      /\ chunks'[Len(chunks) + 1] = chunk
  BY <1>2, <1>3, AppendProperties
<1>5. /\ DOMAIN chunks = 1 .. Len(chunks) /\ DOMAIN chunks' = 1 .. Len(chunks')
      /\ Len(chunks) \in Nat
  BY <1>3, <1>4, LenProperties
<1>6. /\ DOMAIN chunks' = DOMAIN chunks \cup {Len(chunks) + 1}
      /\ Len(chunks) + 1 \notin DOMAIN chunks
      /\ \A c \in DOMAIN chunks : chunks'[c] = chunks[c]
  BY <1>4, <1>5
<1> QED BY <1>2, <1>4, <1>6 DEF ChunksOnly, LiveChunks

LEMMA InsertsInv ==
  ASSUME IngestsInv, DeletionInv', NEW i \in ingests, InsertChunk(i)
  PROVE  IngestsInv'
<1>1. PICK j : j = [i EXCEPT !.next = i.next + 1]
  OBVIOUS
<1>2. i \in Ingest /\ i.next \in Nat
  BY Shaped DEF Ingest
<1>3. /\ j.ns = i.ns /\ j.alone = i.alone /\ j.next = i.next + 1 /\ j.id = i.id
      /\ j.pc = i.pc /\ j.prior = i.prior
  <2>1. PICK ids, pcs : i \in [id : ids, ns : Namespace, blob : Blob, pc : pcs, prior : SUBSET Nat,
                               next : Nat, alone : BOOLEAN]
    BY <1>2, IngestRecord
  <2> QED BY <1>1, <2>1
<1>4. /\ ingests' \subseteq (ingests \ {i}) \cup {j} /\ ingests \ {i} \subseteq ingests'
      /\ i.pc = "insert" /\ UNCHANGED continuations
  BY <1>1 DEF InsertChunk, Step
<1>5. ChunksOnly(i.ns)
  BY ChunkInserted
<1>6. OfItsDocument(j)'
  BY <1>3, <1>5 DEF IngestsInv, OfItsDocument, ChunksOnly
<1>7. ASSUME j.alone PROVE GotSoFar(j)'
  <2> DEFINE n == Len(chunks) + 1
             live == LiveChunks(i.ns)
  <2>1. /\ i.next >= 1 /\ \A c \in live : chunks[c].by = i.id
        /\ \A p \in Nat : p \in 1 .. i.next - 1 <=> \E c \in live : chunks[c].part = p
    BY <1>3, <1>4, <1>7 DEF IngestsInv, GotSoFar
  <2>2. /\ LiveChunks(i.ns)' = live \cup {n} /\ \A c \in live : chunks'[c] = chunks[c]
        /\ chunks'[n].by = i.id /\ chunks'[n].part = i.next
    BY ChunkInserted
  <2> HIDE DEF n, live
  <2>3. ASSUME NEW p \in Nat
        PROVE  p \in 1 .. (i.next + 1) - 1 <=> \E c \in live \cup {n} : chunks'[c].part = p
    <3>1. p \in 1 .. (i.next + 1) - 1 <=> p \in 1 .. i.next - 1 \/ p = i.next
      BY <1>2, <2>1
    <3> QED BY <2>1, <2>2, <3>1
  <2>4. \A c \in live \cup {n} : chunks'[c].by = i.id
    BY <2>1, <2>2
  <2>5. i.next + 1 >= 1
    BY <1>2
  <2> QED BY <1>3, <1>4, <2>2, <2>3, <2>4, <2>5 DEF GotSoFar
<1> QED BY <1>3, <1>4, <1>5, <1>6, <1>7, OneIngest

LEMMA DiesInv ==
  ASSUME IngestsInv, DeletionInv', NEW i \in ingests, IngestDies(i)
  PROVE  IngestsInv'
<1>1. ingests' = ingests \ {i} /\ UNCHANGED <<chunks, continuations>>
  BY DEF IngestDies
<1>2. ChunksOnly(i.ns)
  BY <1>1 DEF ChunksOnly
<1>3. ingests' \subseteq (ingests \ {i}) \cup {i}
  BY <1>1
<1> QED BY <1>1, <1>2, <1>3, OneIngest

LEMMA IngestsInductive == IngestsInv /\ [UploadNext \/ DocumentNext]_kbVars => IngestsInv'
<1> SUFFICES ASSUME IngestsInv, [UploadNext \/ DocumentNext]_kbVars PROVE IngestsInv'
  OBVIOUS
<1>1. DeletionInv'
  BY DeletionInductive DEF IngestsInv
<1>2. CASE DocumentNext
  <2>1. ASSUME NEW ns \in Namespace, SoftDeleteDocument(ns) \/ ContinueDeletion(ns)
        PROVE  IngestsInv'
    BY <1>1, <2>1, DeletionDisturbs DEF SoftDeleteDocument, ContinueDeletion
  <2> QED BY <1>1, <1>2, <2>1, IngestBegun, LooksInv, ListsInv, SupersedesInv, InsertsInv, DiesInv
          DEF DocumentNext
<1>3. CASE UploadNext \/ UNCHANGED kbVars
  <2>1. UNCHANGED documentVars
    BY <1>3 DEF UploadNext, kbVars, documentVars, GenerateUploadUrlWithTicket, Upload, ClaimUpload,
                PurgeUploadTickets, StoreBundle, BindBundle, DeleteBundle, ExportDies, Later
  <2>2. \A ns : LiveChunks(ns)' = LiveChunks(ns)
    BY <2>1 DEF documentVars, LiveChunks
  <2> QED BY <1>1, <2>1, <2>2 DEF documentVars, IngestsInv, OfItsDocument, Unshared, GotSoFar
<1> QED BY <1>2, <1>3

\* An ingest that nobody disturbs leaves the document with its own chunks, all of
\* them and no others: until it has listed and retired what was there nothing of
\* its own is live, and from then on exactly what it has inserted
\* (storeDocumentChunked).
THEOREM ReingestsConverge == KnowledgeSpec => ReingestConverges
<1>1. KnowledgeInit => IngestsInv
  BY InitDeletionInv DEF KnowledgeInit, IngestsInv
<1>2. IngestsInv /\ [UploadNext \/ DocumentNext]_kbVars =>
        [\A i \in ingests : i.alone /\ i.next = Parts /\ InsertChunk(i) =>
           LET live == {c \in DOMAIN chunks' : chunks'[c].ns = i.ns /\ chunks'[c].isLatest} IN
           /\ \A c \in live : chunks'[c].by = i.id
           /\ {chunks'[c].part : c \in live} = 1 .. Parts]_kbVars
  <2> SUFFICES ASSUME IngestsInv, NEW i \in ingests, i.alone, i.next = Parts, InsertChunk(i)
               PROVE  LET live == {c \in DOMAIN chunks' : chunks'[c].ns = i.ns /\ chunks'[c].isLatest} IN
                      /\ \A c \in live : chunks'[c].by = i.id
                      /\ {chunks'[c].part : c \in live} = 1 .. Parts
    OBVIOUS
  <2> DEFINE live == {c \in DOMAIN chunks' : chunks'[c].ns = i.ns /\ chunks'[c].isLatest}
             old == LiveChunks(i.ns)
             n == Len(chunks) + 1
  <2>1. live = old \cup {n}
    BY ChunkInserted DEF LiveChunks
  <2>2. /\ \A c \in old : chunks'[c] = chunks[c]
        /\ chunks'[n].by = i.id /\ chunks'[n].part = i.next
    BY ChunkInserted
  <2>3. /\ i.pc = "insert" /\ i.next \in Nat
        /\ i.next >= 1 /\ \A c \in old : chunks[c].by = i.id
        /\ \A p \in Nat : p \in 1 .. i.next - 1 <=> \E c \in old : chunks[c].part = p
    BY Shaped DEF InsertChunk, IngestsInv, GotSoFar, Ingest
  <2>4. \A c \in old : chunks[c].part \in Nat
    BY Shaped DEF LiveChunks, Chunk
  <2> HIDE DEF live, old, n
  <2>5. \A c \in live : chunks'[c].by = i.id
    BY <2>1, <2>2, <2>3
  <2>6. {chunks'[c].part : c \in live} = 1 .. i.next
    <3>1. \A p : p \in 1 .. i.next <=> p \in Nat /\ (p \in 1 .. i.next - 1 \/ p = i.next)
      BY <2>3
    <3>2. \A p : (\E c \in live : chunks'[c].part = p) <=> p \in 1 .. i.next
      BY <2>1, <2>2, <2>3, <2>4, <3>1
    <3> QED BY <3>2
  <2> QED BY <2>5, <2>6 DEF live
<1> QED BY <1>1, <1>2, IngestsInductive, PTL DEF KnowledgeSpec, ReingestConverges
=============================================================================
