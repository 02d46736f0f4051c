------------------------ MODULE AutomationProofs ------------------------
(***************************************************************************)
(* The two crons that write tasks.                                         *)
(*                                                                         *)
(* Recurring tasks: for any agents, schedules and page of the cron, the    *)
(* tables keep their types and no step inserts an instance of a schedule   *)
(* whose last one is still open.  The page is a fold over its schedules,   *)
(* so the proof follows the state of the fold (PageInv): what it has read  *)
(* of the open tasks stays true while it inserts.                          *)
(*                                                                         *)
(* Deliverables: for any rows and artifacts, any number of overlapping     *)
(* resolutions and any bounds of the cron, the tables keep their types and *)
(* a task never shows as delivered an artifact the registry has never had. *)
(***************************************************************************)
EXTENDS RecurringTasks, Deliverables, FiniteSetTheorems, WellFoundedInduction, NaturalsInduction,
        TLAPS

-----------------------------------------------------------------------------
(* Numbers and sequences.                                                  *)

LEMMA Least ==
  ASSUME NEW T \in SUBSET Nat, T # {}
  PROVE  \E x \in T : \A y \in T : x <= y
<1> DEFINE R == OpToRel(<, Nat)
<1>1. IsWellFoundedOn(R, Nat)
  BY NatLessThanWellFounded
<1>2. PICK x \in T : \A y \in T : ~ (<<y, x>> \in R)
  <2> HIDE DEF R
  <2> QED BY <1>1, WFMin
<1>3. ASSUME NEW y \in T PROVE x <= y
  <2>1. x \in Nat /\ y \in Nat /\ <<y, x>> \notin R
    BY <1>2
  <2>2. ~(y < x)
    BY <2>1 DEF OpToRel
  <2>3. x \in Nat /\ y \in Nat
    OBVIOUS
  <2> HIDE DEF R
  <2> QED BY <2>2, <2>3
<1> QED BY <1>3

LEMMA Upwards ==
  ASSUME NEW P \in SUBSET Nat, 0 \in P, \A n \in P : n + 1 \in P
  PROVE  P = Nat
<1> SUFFICES ASSUME Nat \ P # {} PROVE FALSE
  OBVIOUS
<1>1. PICK x \in Nat \ P : \A y \in Nat \ P : x <= y
  BY Least
<1>2. x # 0 /\ x - 1 \in Nat
  BY <1>1
<1>3. x - 1 \in P
  BY <1>1, <1>2
<1>4. (x - 1) + 1 \in P /\ (x - 1) + 1 = x
  BY <1>2, <1>3
<1> QED BY <1>1, <1>4

LEMMA FourStatuses ==
  /\ Range(OpenInstanceStatuses) = {"todo", "in_progress", "review", "blocked"}
  /\ Len(OpenInstanceStatuses) = 4
  /\ OpenInstanceStatuses[1] = "todo" /\ OpenInstanceStatuses[2] = "in_progress"
  /\ OpenInstanceStatuses[3] = "review" /\ OpenInstanceStatuses[4] = "blocked"
<1>1. DOMAIN OpenInstanceStatuses = 1 .. 4 /\ Len(OpenInstanceStatuses) = 4
  BY DEF OpenInstanceStatuses
<1>2. /\ OpenInstanceStatuses[1] = "todo" /\ OpenInstanceStatuses[2] = "in_progress"
      /\ OpenInstanceStatuses[3] = "review" /\ OpenInstanceStatuses[4] = "blocked"
  BY DEF OpenInstanceStatuses
<1>3. \A i \in 1 .. 4 : i = 1 \/ i = 2 \/ i = 3 \/ i = 4
  OBVIOUS
<1>4. Range(OpenInstanceStatuses) = {OpenInstanceStatuses[i] : i \in 1 .. 4}
  BY <1>1 DEF Range
<1>5. Range(OpenInstanceStatuses) = {"todo", "in_progress", "review", "blocked"}
  <2> HIDE DEF OpenInstanceStatuses
  <2> QED BY <1>2, <1>3, <1>4
<1> QED BY <1>1, <1>2, <1>5

-----------------------------------------------------------------------------
(* The state of the fold.                                                  *)

Key == (Agent \cup {Nothing}) \X Range(OpenInstanceStatuses)

Buckets == UNION {[K -> [rows : SUBSET Nat, truncated : BOOLEAN]] : K \in SUBSET Key}

PageState == [tasks : Seq(TaskRow), routines : [Routine -> RoutineRow \cup {Nothing}],
              buckets : Buckets, scanned : Nat, found : Nat, unknown : BOOLEAN]

LEMMA TaskRows ==
  ASSUME NEW q \in Seq(TaskRow)
  PROVE  /\ Len(q) \in Nat /\ DOMAIN q = 1 .. Len(q) /\ DOMAIN q \subseteq Nat
         /\ \A t \in DOMAIN q : q[t] \in TaskRow /\ q[t].updatedAt \in Nat
<1>1. Len(q) \in Nat /\ DOMAIN q = 1 .. Len(q)
  OBVIOUS
<1>2. DOMAIN q \subseteq Nat
  BY <1>1
<1>3. \A t \in DOMAIN q : q[t] \in TaskRow
  OBVIOUS
<1>4. \A x \in TaskRow : x.updatedAt \in Nat
  BY DEF TaskRow
<1> QED BY <1>1, <1>2, <1>3, <1>4

\* Among any stored tasks there is an earliest one.
LEMMA EarliestExists ==
  ASSUME NEW s, s.tasks \in Seq(TaskRow), NEW key, NEW M \in SUBSET DOMAIN s.tasks, M # {}
  PROVE  \E t \in M : \A u \in M : t = u \/ Earlier(s, key, t, u)
<1>1. M \subseteq Nat /\ \A t \in M : s.tasks[t].updatedAt \in Nat
  BY TaskRows
<1>2. PICK first \in M : \A u \in M : first <= u
  BY <1>1, Least
<1>3. CASE key[1] = Nothing
  BY <1>1, <1>2, <1>3 DEF Earlier
<1>4. CASE key[1] # Nothing
  <2> DEFINE T == {s.tasks[t].updatedAt : t \in M}
  <2>1. T \in SUBSET Nat /\ T # {}
    BY <1>1
  <2>2. PICK at \in T : \A y \in T : at <= y
    BY <2>1, Least
  <2> DEFINE N == {t \in M : s.tasks[t].updatedAt = at}
  <2>3. N \in SUBSET Nat /\ N # {}
    BY <1>1, <2>2
  <2>4. PICK t \in N : \A u \in N : t <= u
    BY <2>3, Least
  <2>5. ASSUME NEW u \in M PROVE t = u \/ Earlier(s, key, t, u)
    <3>1. s.tasks[t].updatedAt = at /\ at <= s.tasks[u].updatedAt
          /\ at \in Nat /\ s.tasks[u].updatedAt \in Nat /\ t \in Nat /\ u \in Nat
      BY <1>1, <2>1, <2>2, <2>4
    <3>2. CASE s.tasks[u].updatedAt = at
      <4>1. t <= u
        BY <2>4, <3>2
      <4> QED BY <1>4, <3>1, <3>2, <4>1 DEF Earlier
    <3>3. CASE s.tasks[u].updatedAt # at
      BY <1>4, <3>1, <3>3 DEF Earlier
    <3> QED BY <3>2, <3>3
  <2> QED BY <2>4, <2>5
<1> QED BY <1>3, <1>4

\* A bucket with fewer rows than it might take has all of them.
LEMMA TakenWhole ==
  ASSUME NEW s, s.tasks \in Seq(TaskRow), NEW key, NEW n \in Int,
         Cardinality(Taken(s, key, n)) < n
  PROVE  Taken(s, key, n) = Stored(s, key)
<1> DEFINE S == Stored(s, key)
           T == Taken(s, key, n)
           Rank(t) == {u \in S : Earlier(s, key, u, t)}
<1>1. DOMAIN s.tasks = 1 .. Len(s.tasks) /\ Len(s.tasks) \in Nat
  BY TaskRows
<1>2. S \subseteq DOMAIN s.tasks /\ IsFiniteSet(S) /\ T \subseteq S
  <2>1. S \subseteq DOMAIN s.tasks /\ T \subseteq S
    BY DEF Stored, Taken
  <2>2. IsFiniteSet(DOMAIN s.tasks)
    <3>1. IsFiniteSet(1 .. Len(s.tasks))
      <4>1. 1 \in Int /\ Len(s.tasks) \in Int
        BY <1>1
      <4> QED BY <4>1, FS_Interval
    <3> QED BY <1>1, <3>1
  <2>3. IsFiniteSet(S)
    <3> HIDE DEF S
    <3> QED BY <2>1, <2>2, FS_Subset
  <2> QED BY <2>1, <2>3
<1>3. IsFiniteSet(T) /\ Cardinality(T) \in Nat
  BY <1>2, FS_Subset, FS_CardinalityType
<1> SUFFICES ASSUME S \ T # {} PROVE FALSE
  BY <1>2
<1>4. PICK t \in S \ T : \A u \in S \ T : t = u \/ Earlier(s, key, t, u)
  BY <1>2, EarliestExists
<1>5. ~(Cardinality(Rank(t)) < n)
  BY <1>4 DEF Taken
<1>6. ASSUME NEW u \in Rank(t) PROVE u \in T
  <2>1. SUFFICES ASSUME u \notin T PROVE FALSE
    OBVIOUS
  <2>2. t = u \/ Earlier(s, key, t, u)
    BY <1>4, <1>6, <2>1
  <2>3. Earlier(s, key, u, t)
    BY <1>6
  <2>4. t \in Nat /\ u \in Nat /\ s.tasks[t].updatedAt \in Nat /\ s.tasks[u].updatedAt \in Nat
    <3>1. t \in DOMAIN s.tasks /\ u \in DOMAIN s.tasks
      BY <1>2, <1>4
    <3> QED BY <3>1, TaskRows
  <2> QED BY <2>2, <2>3, <2>4 DEF Earlier
<1>7. Rank(t) \in SUBSET T
  BY <1>6
<1>8. Cardinality(Rank(t)) <= Cardinality(T) /\ Cardinality(Rank(t)) \in Nat
  <2> HIDE DEF Rank, T
  <2> QED BY <1>3, <1>7, FS_Subset, FS_CardinalityType
<1> QED BY <1>3, <1>5, <1>8

LEMMA MinOfTwo ==
  ASSUME NEW a \in Int, NEW b \in Int
  PROVE  Min({a, b}) = IF a <= b THEN a ELSE b
<1> DEFINE m == IF a <= b THEN a ELSE b
<1>1. m \in {a, b} /\ \A y \in {a, b} : m <= y
  OBVIOUS
<1>2. \A x \in {a, b} : (\A y \in {a, b} : x <= y) => x = m
  OBVIOUS
<1>3. Min({a, b}) = CHOOSE x \in {a, b} : \A y \in {a, b} : x <= y
  BY DEF Min
<1>4. PICK c : c = CHOOSE x \in {a, b} : \A y \in {a, b} : x <= y
  OBVIOUS
<1>5. c \in {a, b} /\ \A y \in {a, b} : c <= y
  BY <1>1, <1>4
<1>6. c = m
  BY <1>2, <1>5
<1> QED BY <1>3, <1>4, <1>6

-----------------------------------------------------------------------------
(* The invariant of the tables, and of the fold.                           *)

\* A schedule that inserted a task has a last one, and no other of them is open
\* unless it was reopened.
Linked(rows, q) ==
  \A r \in Routine : rows[r] # Nothing =>
    /\ rows[r].lastTaskId \in 0 .. Len(q)
    /\ \A t \in DOMAIN q : q[t].from = r =>
         /\ rows[r].lastTaskId # 0
         /\ q[t].status \in Range(OpenInstanceStatuses) /\ ~q[t].reopened
              => t = rows[r].lastTaskId

\* The fold only appends tasks of schedules.
Grown(q) ==
  /\ Len(tasks) <= Len(q)
  /\ \A u \in DOMAIN tasks : q[u] = tasks[u]
  /\ \A u \in DOMAIN q \ DOMAIN tasks : q[u].from \in Routine /\ q[u].status = "todo"

\* A bucket that was not cut short has every stored row that was there when
\* the page began, and those inserted since under its key.
BucketWhole(s, k) ==
  /\ s.buckets[k].rows \subseteq DOMAIN s.tasks
  /\ ~s.buckets[k].truncated =>
       \A u \in Stored(s, k) :
         u \in DOMAIN tasks \/ KeyOf(s.tasks[u], "todo") = k => u \in s.buckets[k].rows

BucketsTrue(s) == \A k \in DOMAIN s.buckets : BucketWhole(s, k)

\* What NoSecondInstance says of the task t of q.
NoOther(q, t) ==
  ~\E u \in 1 .. t - 1 :
     /\ q[u].status \in Range(OpenInstanceStatuses)
     /\ \/ q[u].from = q[t].from /\ ~q[u].reopened
        \/ /\ routines[q[t].from].lastTaskId = 0
           /\ q[u].title = q[t].title /\ q[u].to = q[t].to
           /\ u > Len(tasks) => q[u].byId = q[t].byId

Single(q) == \A t \in DOMAIN q \ DOMAIN tasks : NoOther(q, t)

PageInv(s) ==
  /\ s \in PageState /\ Linked(s.routines, s.tasks) /\ Grown(s.tasks)
  /\ BucketsTrue(s) /\ Single(s.tasks)

\* The buckets of s are buckets of l, which is s in all else.
Loaded(s, l) ==
  /\ l.tasks = s.tasks /\ l.routines = s.routines
  /\ \A k \in DOMAIN s.buckets : k \in DOMAIN l.buckets /\ l.buckets[k] = s.buckets[k]

\* Nothing of the schedule's title in status st.
Clear(s, r, st) ==
  LET key == KeyOf(s.routines[r], st) IN
  /\ key \in DOMAIN s.buckets /\ ~s.buckets[key].truncated
  /\ \A t \in s.buckets[key].rows : s.tasks[t].title # s.routines[r].title

Searches(s, r) ==
  s.routines[r].every # 0 /\ s.routines[r].lastTaskId = 0 /\ s.found = 0 /\ ~s.unknown

LEMMA BucketsGrow ==
  ASSUME NEW b \in Buckets, NEW k \in Key, NEW v \in [rows : SUBSET Nat, truncated : BOOLEAN],
         k \notin DOMAIN b
  PROVE  /\ WithBucket(b, k, v) \in Buckets
         /\ DOMAIN WithBucket(b, k, v) = DOMAIN b \cup {k}
         /\ WithBucket(b, k, v)[k] = v
         /\ \A j \in DOMAIN b : WithBucket(b, k, v)[j] = b[j]
<1>1. PICK K \in SUBSET Key : b \in [K -> [rows : SUBSET Nat, truncated : BOOLEAN]]
  BY DEF Buckets
<1>2. WithBucket(b, k, v) \in [K \cup {k} -> [rows : SUBSET Nat, truncated : BOOLEAN]]
  BY <1>1 DEF WithBucket
<1>3. K \cup {k} \in SUBSET Key
  BY <1>1
<1>4. WithBucket(b, k, v) \in Buckets
  BY <1>2, <1>3 DEF Buckets
<1>5. /\ DOMAIN WithBucket(b, k, v) = DOMAIN b \cup {k} /\ WithBucket(b, k, v)[k] = v
      /\ \A j \in DOMAIN b : WithBucket(b, k, v)[j] = b[j]
  BY DEF WithBucket
<1> QED BY <1>4, <1>5

\* A bucket that is loaded is whole, or known to be cut short.
LEMMA LoadKeeps ==
  ASSUME NEW s, PageInv(s), NEW key \in Key
  PROVE  /\ PageInv(LoadBucket(s, key)) /\ Loaded(s, LoadBucket(s, key))
         /\ LoadBucket(s, key).found = s.found /\ LoadBucket(s, key).unknown = s.unknown
<1> DEFINE l == LoadBucket(s, key)
           rows == Taken(s, key, RowsLeft(s))
           b == [rows |-> rows, truncated |-> Cardinality(rows) >= RowsLeft(s)]
<1>1. CASE key \in DOMAIN s.buckets \/ RowsLeft(s) <= 0
  <2>1. l = s
    BY <1>1 DEF LoadBucket
  <2> QED BY <2>1 DEF Loaded
<1>2. CASE ~(key \in DOMAIN s.buckets \/ RowsLeft(s) <= 0)
  <2>1. s \in PageState /\ s.tasks \in Seq(TaskRow) /\ s.buckets \in Buckets /\ s.scanned \in Nat
    BY DEF PageInv, PageState
  <2>2. l = [s EXCEPT !.scanned = @ + Cardinality(rows), !.buckets = WithBucket(@, key, b)]
    BY <1>2 DEF LoadBucket
  <2>3. RowsLeft(s) \in Int
    <3>1. LookupBound \in Int /\ ScanBudget - s.scanned \in Int
      BY <2>1, ScheduleAssumption
    <3> QED BY <3>1, MinOfTwo DEF RowsLeft
  <2>4. rows \subseteq DOMAIN s.tasks /\ DOMAIN s.tasks \subseteq Nat /\ Cardinality(rows) \in Nat
    <3>1. rows \subseteq DOMAIN s.tasks
      BY DEF Taken, Stored
    <3>2. DOMAIN s.tasks = 1 .. Len(s.tasks) /\ Len(s.tasks) \in Int /\ 1 \in Int
          /\ DOMAIN s.tasks \subseteq Nat
      BY <2>1, TaskRows
    <3>3. IsFiniteSet(1 .. Len(s.tasks))
      BY <3>2, FS_Interval
    <3>4. IsFiniteSet(rows)
      <4> HIDE DEF rows
      <4> QED BY <3>1, <3>2, <3>3, FS_Subset
    <3> QED BY <3>1, <3>2, <3>4, FS_CardinalityType
  <2>5. b \in [rows : SUBSET Nat, truncated : BOOLEAN]
    BY <2>4
  <2>6. /\ WithBucket(s.buckets, key, b) \in Buckets
        /\ DOMAIN (WithBucket(s.buckets, key, b)) = DOMAIN s.buckets \cup {key}
        /\ (WithBucket(s.buckets, key, b))[key] = b
        /\ \A j \in DOMAIN s.buckets : (WithBucket(s.buckets, key, b))[j] = s.buckets[j]
    <3> HIDE DEF b
    <3> QED BY <1>2, <2>1, <2>5, BucketsGrow
  <2>7. /\ l.buckets = WithBucket(s.buckets, key, b) /\ l.tasks = s.tasks /\ l.routines = s.routines
        /\ l.found = s.found /\ l.unknown = s.unknown /\ l \in PageState
    <3> DEFINE B == WithBucket(s.buckets, key, b)
               n == s.scanned + Cardinality(rows)
    <3>1. n \in Nat /\ B \in Buckets
      BY <2>1, <2>4, <2>6
    <3>2. l = [s EXCEPT !.scanned = n, !.buckets = B]
      BY <2>2
    <3> HIDE DEF B, n, b, rows, l
    <3>3. l \in PageState /\ l.buckets = B /\ l.tasks = s.tasks /\ l.routines = s.routines
          /\ l.found = s.found /\ l.unknown = s.unknown
      BY <2>1, <3>1, <3>2 DEF PageState
    <3> QED BY <3>3 DEF B
  <2>8. BucketWhole(l, key)
    <3>1. l.buckets[key] = b /\ l.tasks = s.tasks
      BY <2>6, <2>7
    <3>2. Stored(l, key) = Stored(s, key)
      BY <3>1 DEF Stored
    <3>3. ASSUME ~b.truncated PROVE Stored(s, key) = b.rows
      <4>1. Cardinality(rows) < RowsLeft(s)
        <5>1. ~(Cardinality(rows) >= RowsLeft(s))
          BY <3>3
        <5> HIDE DEF rows
        <5> QED BY <2>3, <2>4, <5>1
      <4> QED BY <2>1, <2>3, <4>1, TakenWhole
    <3> HIDE DEF b, l
    <3>4. b.rows \subseteq DOMAIN s.tasks
      BY <2>4 DEF b
    <3> QED BY <3>1, <3>2, <3>3, <3>4 DEF BucketWhole
  <2>9. ASSUME NEW k \in DOMAIN s.buckets PROVE BucketWhole(l, k)
    <3>1. l.buckets[k] = s.buckets[k] /\ l.tasks = s.tasks
      BY <2>6, <2>7
    <3>2. BucketWhole(s, k)
      BY DEF PageInv, BucketsTrue
    <3>3. Stored(l, k) = Stored(s, k)
      BY <3>1 DEF Stored
    <3> HIDE DEF l
    <3> QED BY <3>1, <3>2, <3>3 DEF BucketWhole
  <2> HIDE DEF b
  <2>10. Loaded(s, l)
    BY <2>6, <2>7 DEF Loaded
  <2>11. BucketsTrue(l)
    BY <2>6, <2>7, <2>8, <2>9 DEF BucketsTrue
  <2>12. PageInv(l)
    BY <2>7, <2>11 DEF PageInv
  <2> QED BY <2>7, <2>10, <2>12
<1> QED BY <1>1, <1>2

LEMMA ClearStays ==
  ASSUME NEW s, NEW l, Loaded(s, l), NEW r, NEW st, Clear(s, r, st)
  PROVE  Clear(l, r, st)
  BY DEF Loaded, Clear

LEMMA KeysTyped ==
  ASSUME NEW row, row \in RoutineRow \/ row \in TaskRow, NEW st \in Range(OpenInstanceStatuses)
  PROVE  /\ KeyOf(row, st) \in Key /\ KeyOf(row, st)[1] \in {Nothing, row.to}
         /\ KeyOf(row, st)[2] = st
  BY DEF KeyOf, Key, RoutineRow, TaskRow

\* A look finds a task, or does not know, or there is none in its status.
LEMMA LookKeeps ==
  ASSUME NEW s, PageInv(s), s.found \in 0 .. Len(s.tasks), NEW r \in Routine,
         s.routines[r] # Nothing, NEW st \in Range(OpenInstanceStatuses)
  PROVE  /\ PageInv(Look(s, r, st)) /\ Loaded(s, Look(s, r, st))
         /\ Look(s, r, st).found \in 0 .. Len(s.tasks)
         /\ Look(s, r, st).found # 0 => s.found # 0 \/ s.routines[r].lastTaskId = 0
         /\ Searches(Look(s, r, st), r) => Searches(s, r) /\ Clear(Look(s, r, st), r, st)
<1> DEFINE row == s.routines[r]
           key == KeyOf(row, st)
           m == LoadBucket(s, key)
           matches == {t \in Bucket(m, key).rows : s.tasks[t].title = row.title}
           l == Look(s, r, st)
<1>1. CASE row.every = 0 \/ row.lastTaskId # 0 \/ s.found # 0
  <2>1. l = s
    BY <1>1 DEF Look
  <2> QED BY <1>1, <2>1 DEF Loaded, Searches
<1>2. CASE ~(row.every = 0 \/ row.lastTaskId # 0 \/ s.found # 0)
  <2> DEFINE f == IF matches = {} THEN 0
                  ELSE CHOOSE t \in matches : \A u \in matches : t = u \/ Earlier(s, key, t, u)
             w == m.unknown \/ Bucket(m, key).truncated
  <2>1. s \in PageState /\ row \in RoutineRow /\ s.tasks \in Seq(TaskRow) /\ s.unknown \in BOOLEAN
    BY DEF PageInv, PageState
  <2>2. key \in Key
    BY <2>1, KeysTyped
  <2>3. PageInv(m) /\ Loaded(s, m) /\ m.found = s.found /\ m.unknown = s.unknown
    <3> HIDE DEF key
    <3> QED BY <2>2, LoadKeeps
  <2>4. l = [m EXCEPT !.found = f, !.unknown = w]
    <3>1. l = [m EXCEPT !.found = f, !.unknown = @ \/ Bucket(m, key).truncated]
      BY <1>2 DEF Look
    <3> QED BY <3>1
  <2>5. Bucket(m, key).rows \subseteq DOMAIN s.tasks /\ Bucket(m, key).truncated \in BOOLEAN
    <3> HIDE DEF key, m
    <3>1. CASE key \in DOMAIN m.buckets
      <4>1. PICK K \in SUBSET Key : m.buckets \in [K -> [rows : SUBSET Nat, truncated : BOOLEAN]]
        BY <2>3 DEF PageInv, PageState, Buckets
      <4>2. m.buckets[key] \in [rows : SUBSET Nat, truncated : BOOLEAN]
        BY <3>1, <4>1
      <4>3. m.buckets[key].rows \subseteq DOMAIN s.tasks
        BY <2>3, <3>1 DEF PageInv, BucketsTrue, BucketWhole, Loaded
      <4> QED BY <3>1, <4>2, <4>3 DEF Bucket
    <3>2. CASE key \notin DOMAIN m.buckets
      BY <3>2 DEF Bucket
    <3> QED BY <3>1, <3>2
  <2>6. matches \in SUBSET DOMAIN s.tasks
    BY <2>5
  <2>7. f \in 0 .. Len(s.tasks) /\ (f = 0 => matches = {})
    <3>1. ASSUME matches # {} PROVE f \in matches
      <4> HIDE DEF matches, key
      <4>1. \E t \in matches : \A u \in matches : t = u \/ Earlier(s, key, t, u)
        BY <2>1, <2>6, <3>1, EarliestExists
      <4> QED BY <3>1, <4>1
    <3>2. DOMAIN s.tasks = 1 .. Len(s.tasks) /\ Len(s.tasks) \in Nat
      BY <2>1, TaskRows
    <3>3. CASE matches = {}
      <4>1. f = 0
        BY <3>3
      <4> HIDE DEF f
      <4> QED BY <3>2, <3>3, <4>1
    <3>4. CASE matches # {}
      <4>1. f \in 1 .. Len(s.tasks)
        <5> HIDE DEF f, matches
        <5> QED BY <2>6, <3>1, <3>2, <3>4
      <4> HIDE DEF f, matches
      <4> QED BY <3>2, <4>1
    <3> QED BY <3>3, <3>4
  <2>8. w \in BOOLEAN
    BY <2>1, <2>3, <2>5
  <2> HIDE DEF f, w
  <2>9. /\ l \in PageState /\ l.tasks = m.tasks /\ l.routines = m.routines /\ l.buckets = m.buckets
        /\ l.found = f /\ (l.unknown <=> w)
    <3>1. m \in PageState /\ f \in Nat
      <4>1. f \in Nat
        BY <2>1, <2>7, TaskRows
      <4> QED BY <2>3, <4>1 DEF PageInv
    <3> HIDE DEF m, l
    <3> QED BY <2>4, <2>8, <3>1 DEF PageState
  <2>10. PageInv(l) /\ Loaded(s, l)
    <3>1. BucketsTrue(l)
      <4>1. \A k \in DOMAIN m.buckets : BucketWhole(m, k)
        BY <2>3 DEF PageInv, BucketsTrue
      <4>2. \A k : Stored(l, k) = Stored(m, k)
        BY <2>9 DEF Stored
      <4> HIDE DEF l, m
      <4> QED BY <2>9, <4>1, <4>2 DEF BucketsTrue, BucketWhole
    <3>2. PageInv(l)
      BY <2>3, <2>9, <3>1 DEF PageInv
    <3>3. Loaded(s, l)
      BY <2>3, <2>9 DEF Loaded
    <3> QED BY <3>2, <3>3
  <2>11. ASSUME Searches(l, r)
         PROVE  Searches(s, r) /\ Clear(l, r, st)
    <3>1. l.found = 0 /\ ~l.unknown /\ l.routines = s.routines /\ l.tasks = s.tasks
      BY <2>3, <2>9, <2>11 DEF Searches, Loaded
    <3>2. ~m.unknown /\ ~Bucket(m, key).truncated /\ matches = {}
      BY <2>7, <2>9, <3>1 DEF w
    <3>3. Searches(s, r)
      BY <1>2, <2>3, <3>2 DEF Searches
    <3>4. key \in DOMAIN m.buckets /\ Bucket(m, key) = m.buckets[key]
      <4> HIDE DEF m, key
      <4> QED BY <3>2 DEF Bucket
    <3>5. KeyOf(l.routines[r], st) = key
      BY <3>1
    <3>6. \A t \in m.buckets[key].rows : s.tasks[t].title # row.title
      BY <3>2, <3>4
    <3> HIDE DEF m, key, l
    <3>7. ~m.buckets[key].truncated
      BY <3>2, <3>4
    <3>8. Clear(l, r, st)
      BY <2>9, <3>1, <3>4, <3>5, <3>6, <3>7 DEF Clear
    <3> QED BY <3>3, <3>8
  <2> HIDE DEF l
  <2> QED BY <1>2, <2>7, <2>9, <2>10, <2>11 DEF l
<1> HIDE DEF l
<1> QED BY <1>1, <1>2 DEF l

\* What serving schedule r leaves of the others, and of what was found for it.
Leaves(s, d, r) ==
  /\ d.found = 0 /\ ~d.unknown
  /\ \A q \in Routine \ {r} : d.routines[q] = s.routines[q]

\* The end of Decide forgets what was found.
LEMMA ForgetKeeps ==
  ASSUME NEW s, PageInv(s)
  PROVE  LET d == [s EXCEPT !.found = 0, !.unknown = FALSE]
         IN  PageInv(d) /\ d.found = 0 /\ ~d.unknown /\ d.routines = s.routines
<1> DEFINE d == [s EXCEPT !.found = 0, !.unknown = FALSE]
<1>1. s \in PageState
  BY DEF PageInv
<1>2. /\ d \in PageState /\ d.tasks = s.tasks /\ d.routines = s.routines /\ d.buckets = s.buckets
      /\ d.found = 0 /\ ~d.unknown
  BY <1>1 DEF PageState
<1> HIDE DEF d
<1>3. BucketsTrue(d)
  <2>1. \A k \in DOMAIN s.buckets : BucketWhole(s, k)
    BY DEF PageInv, BucketsTrue
  <2>2. \A k : Stored(d, k) = Stored(s, k)
    BY <1>2 DEF Stored
  <2> QED BY <1>2, <2>1, <2>2 DEF BucketsTrue, BucketWhole
<1>4. PageInv(d)
  BY <1>2, <1>3 DEF PageInv
<1> QED BY <1>2, <1>4 DEF d

LEMMA SkipKeeps ==
  ASSUME NEW s, PageInv(s), now \in Nat, s.found \in 0 .. Len(s.tasks), NEW r \in Routine,
         s.routines[r] # Nothing, s.found # 0 => s.routines[r].lastTaskId = 0
  PROVE  /\ PageInv(Skip(s, r))
         /\ \A q \in Routine \ {r} : Skip(s, r).routines[q] = s.routines[q]
<1> DEFINE row == s.routines[r]
           last == IF s.found = 0 THEN row.lastTaskId ELSE s.found
           newRow == [row EXCEPT !.nextRunAt = now + row.every, !.lastTaskId = last]
           rows == [s.routines EXCEPT ![r] = newRow]
           d == Skip(s, r)
<1>1. s \in PageState /\ s.tasks \in Seq(TaskRow) /\ Len(s.tasks) \in Nat
      /\ s.routines \in [Routine -> RoutineRow \cup {Nothing}] /\ row \in RoutineRow
  BY TaskRows DEF PageInv, PageState
<1>2. row.every \in Nat /\ row.lastTaskId \in Nat /\ last \in 0 .. Len(s.tasks)
  BY <1>1 DEF RoutineRow, PageInv, Linked
<1>3. newRow \in RoutineRow /\ newRow.lastTaskId = last
  <2>1. now + row.every \in Nat /\ last \in Nat
    BY <1>1, <1>2
  <2> HIDE DEF row, last
  <2> QED BY <1>1, <2>1 DEF RoutineRow
<1>4. d = [s EXCEPT !.routines = rows]
  BY <1>1 DEF Skip, PageState
<1>5. rows \in [Routine -> RoutineRow \cup {Nothing}] /\ rows[r] = newRow
      /\ \A q \in Routine \ {r} : rows[q] = s.routines[q]
  <2> HIDE DEF newRow
  <2> QED BY <1>1, <1>3
<1>6. /\ d \in PageState /\ d.tasks = s.tasks /\ d.routines = rows /\ d.buckets = s.buckets
  <2> HIDE DEF rows, d
  <2> QED BY <1>1, <1>4, <1>5 DEF PageState
<1>7. Linked(rows, s.tasks)
  <2>1. ASSUME NEW q \in Routine, rows[q] # Nothing
        PROVE  /\ rows[q].lastTaskId \in 0 .. Len(s.tasks)
               /\ \A t \in DOMAIN s.tasks : s.tasks[t].from = q =>
                    /\ rows[q].lastTaskId # 0
                    /\ s.tasks[t].status \in Range(OpenInstanceStatuses) /\ ~s.tasks[t].reopened
                         => t = rows[q].lastTaskId
    <3>1. CASE q # r
      BY <1>5, <2>1, <3>1 DEF PageInv, Linked
    <3>2. CASE q = r
      <4>1. rows[q].lastTaskId = last
        BY <1>3, <1>5, <3>2
      <4>2. CASE s.found = 0
        BY <1>2, <3>2, <4>1, <4>2 DEF PageInv, Linked
      <4>3. CASE s.found # 0
        <5>1. \A t \in DOMAIN s.tasks : s.tasks[t].from # r
          BY <4>3 DEF PageInv, Linked
        <5> QED BY <1>2, <3>2, <4>1, <5>1
      <4> QED BY <4>2, <4>3
    <3> QED BY <3>1, <3>2
  <2> HIDE DEF rows
  <2> QED BY <2>1 DEF Linked
<1> HIDE DEF d, rows
<1>8. BucketsTrue(d)
  <2>1. \A k \in DOMAIN s.buckets : BucketWhole(s, k)
    BY DEF PageInv, BucketsTrue
  <2>2. \A k : Stored(d, k) = Stored(s, k)
    BY <1>6 DEF Stored
  <2> QED BY <1>6, <2>1, <2>2 DEF BucketsTrue, BucketWhole
<1>9. PageInv(d)
  BY <1>6, <1>7, <1>8 DEF PageInv
<1> QED BY <1>5, <1>6, <1>9 DEF d

\* An insertion is made where no open instance was found, and every bucket of its
\* key has it from then on.
LEMMA InsertKeeps ==
  ASSUME NEW s, PageInv(s), now \in Nat, tasks \in Seq(TaskRow), NEW r \in Routine,
         s.routines[r] # Nothing, s.routines[r] = routines[r],
         s.routines[r].every # 0, ~InstanceOpen(s, r),
         Searches(s, r) => \A st \in Range(OpenInstanceStatuses) : Clear(s, r, st)
  PROVE  /\ PageInv(Insert(s, r))
         /\ \A q \in Routine \ {r} : Insert(s, r).routines[q] = s.routines[q]
<1> DEFINE row == s.routines[r]
           t == Len(s.tasks) + 1
           task == [title |-> row.title, to |-> row.to, status |-> "todo", updatedAt |-> now,
                    from |-> r, byId |-> row.byId, reopened |-> FALSE]
           key == KeyOf(row, "todo")
           newRow == [row EXCEPT !.nextRunAt = now + row.every, !.lastTaskId = t]
           rows == [s.routines EXCEPT ![r] = newRow]
           bs == Remembered(s.buckets, key, t)
           q == Append(s.tasks, task)
           d == Insert(s, r)
<1>1. s \in PageState /\ s.tasks \in Seq(TaskRow) /\ Len(s.tasks) \in Nat
      /\ DOMAIN s.tasks = 1 .. Len(s.tasks)
      /\ s.routines \in [Routine -> RoutineRow \cup {Nothing}] /\ row \in RoutineRow
      /\ s.buckets \in Buckets
  BY TaskRows DEF PageInv, PageState
<1>2. row.every \in Nat /\ row.title \in Title /\ row.to \in Agent /\ row.byId \in BOOLEAN
  BY <1>1 DEF RoutineRow
<1>3. task \in TaskRow
  <2>1. "todo" \in Status
    BY FourStatuses DEF Status
  <2> QED BY <1>2, <2>1 DEF TaskRow
<1>4. newRow \in RoutineRow /\ newRow.lastTaskId = t
  <2>1. now + row.every \in Nat /\ t \in Nat
    BY <1>1, <1>2
  <2> HIDE DEF row, t
  <2> QED BY <1>1, <2>1 DEF RoutineRow
<1>5. rows \in [Routine -> RoutineRow \cup {Nothing}] /\ rows[r] = newRow
      /\ \A p \in Routine \ {r} : rows[p] = s.routines[p]
  <2> HIDE DEF newRow
  <2> QED BY <1>1, <1>4
<1>6. q \in Seq(TaskRow) /\ Len(q) = t /\ DOMAIN q = 1 .. t /\ q[t] = task
      /\ \A u \in DOMAIN s.tasks : q[u] = s.tasks[u]
  <2> HIDE DEF task
  <2> QED BY <1>1, <1>3
<1>7. /\ bs \in Buckets /\ DOMAIN bs = DOMAIN s.buckets
      /\ \A k \in DOMAIN bs : /\ bs[k].truncated = s.buckets[k].truncated
                              /\ bs[k].rows = s.buckets[k].rows \cup {x \in {t} : k = key}
  <2>1. PICK K \in SUBSET Key : s.buckets \in [K -> [rows : SUBSET Nat, truncated : BOOLEAN]]
    BY <1>1 DEF Buckets
  <2>2. t \in Nat
    BY <1>1
  <2> HIDE DEF t, key
  <2>3. bs = [k \in K |-> IF k = key THEN [s.buckets[k] EXCEPT !.rows = @ \cup {t}] ELSE s.buckets[k]]
    BY <2>1 DEF Remembered
  <2> HIDE DEF bs
  <2>4. ASSUME NEW k \in K
        PROVE  /\ bs[k] \in [rows : SUBSET Nat, truncated : BOOLEAN]
               /\ bs[k].truncated = s.buckets[k].truncated
               /\ bs[k].rows = s.buckets[k].rows \cup {x \in {t} : k = key}
    BY <2>1, <2>2, <2>3
  <2>5. bs \in [K -> [rows : SUBSET Nat, truncated : BOOLEAN]]
    BY <2>3, <2>4
  <2>6. bs \in Buckets
    BY <2>5 DEF Buckets
  <2> QED BY <2>1, <2>3, <2>4, <2>6
<1>8. d = [s EXCEPT !.tasks = q, !.buckets = bs, !.routines = rows]
  BY <1>1 DEF Insert, PageState
<1> HIDE DEF q, bs, rows
<1>9. d \in PageState /\ d.tasks = q /\ d.routines = rows /\ d.buckets = bs
  <2> HIDE DEF d
  <2> QED BY <1>1, <1>5, <1>6, <1>7, <1>8 DEF PageState
<1> HIDE DEF d
<1>10. row.lastTaskId \in 0 .. Len(s.tasks)
  BY DEF PageInv, Linked
<1>11. Linked(rows, q)
  <2>1. ASSUME NEW p \in Routine, rows[p] # Nothing
        PROVE  rows[p].lastTaskId \in 0 .. Len(q)
    <3>1. CASE p = r
      <4>1. rows[p].lastTaskId = t
        BY <1>4, <1>5, <3>1
      <4> QED BY <1>1, <1>6, <4>1
    <3>2. CASE p # r
      <4>1. rows[p].lastTaskId \in 0 .. Len(s.tasks)
        BY <1>5, <2>1, <3>2 DEF PageInv, Linked
      <4> QED BY <1>1, <1>6, <4>1
    <3> QED BY <3>1, <3>2
  <2>2. ASSUME NEW p \in Routine, rows[p] # Nothing, NEW u \in DOMAIN q, q[u].from = p
        PROVE  /\ rows[p].lastTaskId # 0
               /\ q[u].status \in Range(OpenInstanceStatuses) /\ ~q[u].reopened
                    => u = rows[p].lastTaskId
    <3>1. CASE p = r
      <4>1. rows[p].lastTaskId = t /\ t # 0
        <5>1. rows[p].lastTaskId = t
          BY <1>4, <1>5, <3>1
        <5>2. t # 0
          BY <1>1
        <5> QED BY <5>1, <5>2
      <4>2. ASSUME u # t, q[u].status \in Range(OpenInstanceStatuses), ~q[u].reopened
            PROVE  FALSE
        <5>1. u \in DOMAIN s.tasks /\ q[u] = s.tasks[u]
          BY <1>1, <1>6, <4>2
        <5>2. row.lastTaskId # 0 /\ u = row.lastTaskId
          BY <2>2, <3>1, <4>2, <5>1 DEF PageInv, Linked
        <5>3. s.tasks[row.lastTaskId].status \notin Range(OpenInstanceStatuses)
          BY <5>2 DEF InstanceOpen
        <5> QED BY <4>2, <5>1, <5>2, <5>3
      <4> QED BY <4>1, <4>2
    <3>2. CASE p # r
      <4>1. u \in DOMAIN s.tasks /\ q[u] = s.tasks[u]
        <5>1. u # t
          BY <1>6, <2>2, <3>2
        <5> QED BY <1>1, <1>6, <5>1
      <4> QED BY <1>5, <2>2, <3>2, <4>1 DEF PageInv, Linked
    <3> QED BY <3>1, <3>2
  <2> QED BY <2>1, <2>2 DEF Linked
<1>12. Grown(q)
  <2>1. Grown(s.tasks)
    BY DEF PageInv
  <2>2. task.from \in Routine /\ task.status = "todo"
    OBVIOUS
  <2>3. ASSUME NEW u \in DOMAIN q, u # t PROVE u \in DOMAIN s.tasks /\ q[u] = s.tasks[u]
    BY <1>1, <1>6, <2>3
  <2>4. Len(tasks) <= Len(q)
    BY <1>1, <1>6, <2>1 DEF Grown
  <2>5. ASSUME NEW u \in DOMAIN tasks PROVE q[u] = tasks[u]
    <3>1. u \in DOMAIN s.tasks /\ s.tasks[u] = tasks[u]
      <4>1. DOMAIN tasks = 1 .. Len(tasks) /\ Len(tasks) \in Nat
        BY TaskRows
      <4> QED BY <1>1, <2>1, <4>1 DEF Grown
    <3> QED BY <1>6, <3>1
  <2> HIDE DEF task, t
  <2> QED BY <1>6, <2>1, <2>2, <2>3, <2>4, <2>5 DEF Grown
<1>13. BucketsTrue(d)
  <2>1. ASSUME NEW k \in DOMAIN bs PROVE BucketWhole(d, k)
    <3>1. /\ bs[k].truncated = s.buckets[k].truncated
          /\ bs[k].rows = s.buckets[k].rows \cup {x \in {t} : k = key}
      BY <1>7
    <3>2. BucketWhole(s, k)
      BY <1>7 DEF PageInv, BucketsTrue
    <3>3. bs[k].rows \subseteq DOMAIN q
      <4>1. s.buckets[k].rows \subseteq DOMAIN s.tasks
        BY <3>2 DEF BucketWhole
      <4>2. DOMAIN s.tasks \subseteq DOMAIN q /\ t \in DOMAIN q
        BY <1>1, <1>6
      <4> HIDE DEF t, key
      <4> QED BY <3>1, <4>1, <4>2
    <3>4. ASSUME ~bs[k].truncated, NEW u \in Stored(d, k),
                 u \in DOMAIN tasks \/ KeyOf(q[u], "todo") = k
          PROVE  u \in bs[k].rows
      <4>1. u \in DOMAIN q /\ q[u].status = k[2] /\ k[1] \in {Nothing, q[u].to}
        BY <1>9, <3>4 DEF Stored
      <4>2. CASE u = t
        <5>1. u \notin DOMAIN tasks
          <6>1. DOMAIN tasks = 1 .. Len(tasks) /\ Len(tasks) \in Nat /\ Len(tasks) <= Len(s.tasks)
            BY TaskRows DEF PageInv, Grown
          <6> QED BY <1>1, <4>2, <6>1
        <5>2. KeyOf(task, "todo") = key
          BY DEF KeyOf
        <5>3. k = key
          BY <1>6, <3>4, <4>2, <5>1, <5>2
        <5> HIDE DEF t, key
        <5> QED BY <3>1, <4>2, <5>3
      <4>3. CASE u # t
        <5>1. u \in DOMAIN s.tasks /\ q[u] = s.tasks[u]
          BY <1>1, <1>6, <4>1, <4>3
        <5>2. u \in Stored(s, k)
          BY <4>1, <5>1 DEF Stored
        <5>3. u \in s.buckets[k].rows
          BY <3>1, <3>2, <3>4, <5>1, <5>2 DEF BucketWhole
        <5> QED BY <3>1, <5>3
      <4> QED BY <4>2, <4>3
    <3> QED BY <1>9, <3>3, <3>4 DEF BucketWhole
  <2> QED BY <1>9, <2>1 DEF BucketsTrue
<1>14. NoOther(q, t)
  <2> SUFFICES ASSUME NEW u \in 1 .. t - 1, q[u].status \in Range(OpenInstanceStatuses),
                      \/ q[u].from = q[t].from /\ ~q[u].reopened
                      \/ /\ routines[q[t].from].lastTaskId = 0
                         /\ q[u].title = q[t].title /\ q[u].to = q[t].to
                         /\ u > Len(tasks) => q[u].byId = q[t].byId
               PROVE  FALSE
    BY DEF NoOther
  <2>1. u \in DOMAIN s.tasks /\ q[u] = s.tasks[u] /\ s.tasks[u] \in TaskRow
    BY <1>1, <1>6, TaskRows
  <2>2. q[t].from = r /\ q[t].title = row.title /\ q[t].to = row.to /\ q[t].byId = row.byId
    BY <1>6
  <2> HIDE DEF t, task
  <2>3. CASE q[u].from = q[t].from /\ ~q[u].reopened
    <3>1. row.lastTaskId # 0 /\ u = row.lastTaskId
      BY <2>1, <2>2, <2>3 DEF PageInv, Linked
    <3>2. s.tasks[row.lastTaskId].status \notin Range(OpenInstanceStatuses)
      BY <3>1 DEF InstanceOpen
    <3> QED BY <2>1, <3>1, <3>2
  <2>4. CASE /\ routines[q[t].from].lastTaskId = 0
             /\ q[u].title = q[t].title /\ q[u].to = q[t].to
             /\ u > Len(tasks) => q[u].byId = q[t].byId
    <3> DEFINE st == s.tasks[u].status
               k == KeyOf(row, st)
    <3>1. st \in Range(OpenInstanceStatuses)
      BY <2>1
    <3>2. Searches(s, r)
      <4>1. row.lastTaskId = 0
        BY <2>2, <2>4
      <4> QED BY <4>1 DEF InstanceOpen, Searches
    <3>3. Clear(s, r, st)
      BY <3>1, <3>2
    <3>4. k \in DOMAIN s.buckets /\ ~s.buckets[k].truncated
          /\ \A x \in s.buckets[k].rows : s.tasks[x].title # row.title
      BY <3>3 DEF Clear
    <3>5. k[1] \in {Nothing, row.to} /\ k[2] = st
      BY <1>1, <3>1, KeysTyped
    <3>6. u \in Stored(s, k)
      BY <2>1, <2>2, <2>4, <3>5 DEF Stored
    <3>7. u \in DOMAIN tasks \/ KeyOf(s.tasks[u], "todo") = k
      <4>1. CASE u \in DOMAIN tasks
        BY <4>1
      <4>2. CASE u \notin DOMAIN tasks
        <5>1. st = "todo"
          BY <2>1, <4>2 DEF PageInv, Grown
        <5>2. u > Len(tasks)
          <6>1. DOMAIN tasks = 1 .. Len(tasks) /\ Len(tasks) \in Nat
            BY TaskRows
          <6> QED BY <1>1, <2>1, <4>2, <6>1
        <5>3. s.tasks[u].byId = row.byId /\ s.tasks[u].to = row.to
          BY <2>1, <2>2, <2>4, <5>2
        <5> QED BY <5>1, <5>3 DEF KeyOf
      <4> QED BY <4>1, <4>2
    <3>8. u \in s.buckets[k].rows
      <4>1. BucketWhole(s, k)
        BY <3>4 DEF PageInv, BucketsTrue
      <4> HIDE DEF k
      <4> QED BY <3>4, <3>6, <3>7, <4>1 DEF BucketWhole
    <3>9. s.tasks[u].title # row.title
      <4> HIDE DEF k
      <4> QED BY <3>4, <3>8
    <3> QED BY <2>1, <2>2, <2>4, <3>9
  <2> QED BY <2>3, <2>4
<1>15. Single(q)
  <2>1. ASSUME NEW x \in DOMAIN q \ DOMAIN tasks, x # t PROVE NoOther(q, x)
    <3>1. x \in DOMAIN s.tasks /\ x \in Nat /\ NoOther(s.tasks, x)
      BY <1>1, <1>6, <2>1 DEF PageInv, Single
    <3>2. \A u \in 1 .. x - 1 : u \in DOMAIN s.tasks
      BY <1>1, <3>1
    <3>3. \A u \in 1 .. x - 1 : q[u] = s.tasks[u]
      BY <1>6, <3>2
    <3>4. q[x] = s.tasks[x]
      BY <1>6, <3>1
    <3> QED BY <3>1, <3>3, <3>4 DEF NoOther
  <2> QED BY <1>14, <2>1 DEF Single
<1>16. PageInv(d)
  BY <1>9, <1>11, <1>12, <1>13, <1>15 DEF PageInv
<1> QED BY <1>5, <1>9, <1>16 DEF d

LEMMA DecideKeeps ==
  ASSUME NEW s, PageInv(s), now \in Nat, tasks \in Seq(TaskRow), s.found \in 0 .. Len(s.tasks),
         NEW r \in Routine, s.routines[r] # Nothing, s.routines[r] = routines[r],
         s.found # 0 => s.routines[r].lastTaskId = 0,
         Searches(s, r) => \A st \in Range(OpenInstanceStatuses) : Clear(s, r, st)
  PROVE  PageInv(Decide(s, r)) /\ Leaves(s, Decide(s, r), r)
<1> DEFINE served == IF s.routines[r].every = 0 THEN s
                     ELSE IF InstanceOpen(s, r) THEN Skip(s, r) ELSE Insert(s, r)
<1>1. PageInv(served) /\ \A q \in Routine \ {r} : served.routines[q] = s.routines[q]
  <2>1. CASE s.routines[r].every = 0
    BY <2>1
  <2>2. CASE s.routines[r].every # 0 /\ InstanceOpen(s, r)
    BY <2>2, SkipKeeps
  <2>3. CASE s.routines[r].every # 0 /\ ~InstanceOpen(s, r)
    BY <2>3, InsertKeeps
  <2> QED BY <2>1, <2>2, <2>3
<1>2. Decide(s, r) = [served EXCEPT !.found = 0, !.unknown = FALSE]
  BY DEF Decide
<1> HIDE DEF served
<1> QED BY <1>1, <1>2, ForgetKeeps DEF Leaves

\* The statuses of one schedule, one after the other.
LEMMA ServeOneIs ==
  ASSUME NEW s, NEW r
  PROVE  \E s1, s2, s3, s4 :
           /\ s1 = Look(s, r, "todo") /\ s2 = Look(s1, r, "in_progress")
           /\ s3 = Look(s2, r, "review") /\ s4 = Look(s3, r, "blocked")
           /\ ServeOne(s, r) = Decide(s4, r)
<1> DEFINE O == OpenInstanceStatuses
           step(f, j) == IF j = 0 THEN s
                         ELSE CHOOSE u \in {Look(t, r, O[j]) : t \in {f[j - 1]}} : TRUE
           looked == CHOOSE f : f = [j \in 0 .. Len(O) |-> step(f, j)]
           s1 == Look(s, r, O[1])
           s2 == Look(s1, r, O[2])
           s3 == Look(s2, r, O[3])
           s4 == Look(s3, r, O[4])
           g == [j \in 0 .. 4 |-> IF j = 0 THEN s ELSE IF j = 1 THEN s1 ELSE IF j = 2 THEN s2
                                  ELSE IF j = 3 THEN s3 ELSE s4]
<1>1. Len(O) = 4
  BY FourStatuses
<1>2. ASSUME NEW f, NEW j \in 1 .. 4 PROVE step(f, j) = Look(f[j - 1], r, O[j])
  <2>1. {Look(t, r, O[j]) : t \in {f[j - 1]}} = {Look(f[j - 1], r, O[j])}
    OBVIOUS
  <2>2. (CHOOSE u \in {Look(f[j - 1], r, O[j])} : TRUE) = Look(f[j - 1], r, O[j])
    OBVIOUS
  <2>3. j # 0
    OBVIOUS
  <2> QED BY <2>1, <2>2, <2>3
<1>3. \A f : step(f, 0) = s
  OBVIOUS
<1>4. g[0] = s /\ g[1] = s1 /\ g[2] = s2 /\ g[3] = s3 /\ g[4] = s4
  <2> HIDE DEF s1, s2, s3, s4
  <2> QED OBVIOUS
<1> HIDE DEF step
<1>5. g = [j \in 0 .. Len(O) |-> step(g, j)]
  <2>1. /\ step(g, 0) = s /\ step(g, 1) = Look(g[0], r, O[1]) /\ step(g, 2) = Look(g[1], r, O[2])
        /\ step(g, 3) = Look(g[2], r, O[3]) /\ step(g, 4) = Look(g[3], r, O[4])
    <3> HIDE DEF g, O
    <3>1. 1 \in 1 .. 4 /\ 2 \in 1 .. 4 /\ 3 \in 1 .. 4 /\ 4 \in 1 .. 4
          /\ 1 - 1 = 0 /\ 2 - 1 = 1 /\ 3 - 1 = 2 /\ 4 - 1 = 3
      OBVIOUS
    <3> QED BY <1>2, <1>3, <3>1
  <2>2. \A j \in 0 .. 4 : g[j] = step(g, j)
    <3> HIDE DEF g
    <3>1. g[0] = step(g, 0) /\ g[1] = step(g, 1) /\ g[2] = step(g, 2) /\ g[3] = step(g, 3)
          /\ g[4] = step(g, 4)
      BY <1>4, <2>1
    <3>2. \A j \in 0 .. 4 : j = 0 \/ j = 1 \/ j = 2 \/ j = 3 \/ j = 4
      OBVIOUS
    <3> QED BY <3>1, <3>2
  <2>3. g = [j \in 0 .. 4 |-> g[j]]
    OBVIOUS
  <2> HIDE DEF g
  <2> QED BY <1>1, <2>2, <2>3
<1>6. looked = [j \in 0 .. Len(O) |-> step(looked, j)]
  <2> HIDE DEF g
  <2>1. \E f : f = [j \in 0 .. Len(O) |-> step(f, j)]
    BY <1>5
  <2> QED BY <2>1
<1>7. ServeOne(s, r) = CHOOSE u \in {Decide(t, r) : t \in {looked[Len(O)]}} : TRUE
  BY DEF ServeOne, step
<1> HIDE DEF looked
<1>8. looked[0] = s /\ looked[1] = s1 /\ looked[2] = s2 /\ looked[3] = s3 /\ looked[4] = s4
  <2>0. \A j \in 0 .. 4 : looked[j] = step(looked, j)
    BY <1>1, <1>6
  <2>1. looked[0] = s
    BY <1>3, <2>0
  <2>2. \A j \in 1 .. 4 : looked[j] = Look(looked[j - 1], r, O[j])
    BY <1>2, <2>0
  <2>3. looked[1] = Look(looked[0], r, O[1]) /\ looked[2] = Look(looked[1], r, O[2])
        /\ looked[3] = Look(looked[2], r, O[3]) /\ looked[4] = Look(looked[3], r, O[4])
    <3> HIDE DEF O
    <3>1. 1 \in 1 .. 4 /\ 2 \in 1 .. 4 /\ 3 \in 1 .. 4 /\ 4 \in 1 .. 4
          /\ 1 - 1 = 0 /\ 2 - 1 = 1 /\ 3 - 1 = 2 /\ 4 - 1 = 3
      OBVIOUS
    <3> QED BY <2>2, <3>1
  <2> QED BY <2>1, <2>3
<1>9. ServeOne(s, r) = Decide(s4, r)
  <2>1. ServeOne(s, r) = CHOOSE u \in {Decide(t, r) : t \in {looked[4]}} : TRUE
    BY <1>1, <1>7
  <2> HIDE DEF s4
  <2>2. {Decide(t, r) : t \in {looked[4]}} = {Decide(s4, r)}
    BY <1>8
  <2> QED BY <2>1, <2>2
<1> QED BY <1>9, FourStatuses

LEMMA ServeOneKeeps ==
  ASSUME NEW s, PageInv(s), now \in Nat, tasks \in Seq(TaskRow), s.found = 0, ~s.unknown,
         NEW r \in Routine, s.routines[r] # Nothing, s.routines[r] = routines[r]
  PROVE  PageInv(ServeOne(s, r)) /\ Leaves(s, ServeOne(s, r), r)
<1> DEFINE Known(l) ==
             /\ PageInv(l) /\ Loaded(s, l) /\ l.found \in 0 .. Len(l.tasks)
             /\ l.found # 0 => s.routines[r].lastTaskId = 0
<1>0. Known(s)
  BY TaskRows DEF Loaded, PageInv, PageState
<1>1. PICK s1, s2, s3, s4 :
        /\ s1 = Look(s, r, "todo") /\ s2 = Look(s1, r, "in_progress")
        /\ s3 = Look(s2, r, "review") /\ s4 = Look(s3, r, "blocked")
        /\ ServeOne(s, r) = Decide(s4, r)
  BY ServeOneIs
<1>2. ASSUME NEW l, Known(l), NEW st \in Range(OpenInstanceStatuses), NEW m, m = Look(l, r, st)
      PROVE  /\ Known(m) /\ Loaded(l, m)
             /\ Searches(m, r) => Searches(l, r) /\ Clear(m, r, st)
  <2>1. l.routines = s.routines /\ l.routines[r] # Nothing
    BY <1>2 DEF Loaded
  <2>2. /\ PageInv(m) /\ Loaded(l, m) /\ m.found \in 0 .. Len(l.tasks)
        /\ m.found # 0 => l.found # 0 \/ l.routines[r].lastTaskId = 0
        /\ Searches(m, r) => Searches(l, r) /\ Clear(m, r, st)
    BY <1>2, <2>1, LookKeeps
  <2> QED BY <1>2, <2>1, <2>2 DEF Loaded
<1> HIDE DEF Known
<1>3. /\ "todo" \in Range(OpenInstanceStatuses) /\ "in_progress" \in Range(OpenInstanceStatuses)
      /\ "review" \in Range(OpenInstanceStatuses) /\ "blocked" \in Range(OpenInstanceStatuses)
  BY FourStatuses
<1>4. /\ Known(s1) /\ Loaded(s, s1)
      /\ Searches(s1, r) => Searches(s, r) /\ Clear(s1, r, "todo")
  BY <1>0, <1>1, <1>2, <1>3
<1>5. /\ Known(s2) /\ Loaded(s1, s2)
      /\ Searches(s2, r) => Searches(s1, r) /\ Clear(s2, r, "in_progress")
  BY <1>1, <1>2, <1>3, <1>4
<1>6. /\ Known(s3) /\ Loaded(s2, s3)
      /\ Searches(s3, r) => Searches(s2, r) /\ Clear(s3, r, "review")
  BY <1>1, <1>2, <1>3, <1>5
<1>7. /\ Known(s4) /\ Loaded(s3, s4)
      /\ Searches(s4, r) => Searches(s3, r) /\ Clear(s4, r, "blocked")
  BY <1>1, <1>2, <1>3, <1>6
<1>8. ASSUME Searches(s4, r) PROVE \A st \in Range(OpenInstanceStatuses) : Clear(s4, r, st)
  <2>1. Clear(s4, r, "blocked")
    BY <1>7, <1>8
  <2>2. Clear(s4, r, "review")
    BY <1>6, <1>7, <1>8, ClearStays
  <2>3. Clear(s4, r, "in_progress")
    <3>1. Clear(s3, r, "in_progress")
      BY <1>5, <1>6, <1>7, <1>8, ClearStays
    <3> QED BY <1>7, <3>1, ClearStays
  <2>4. Clear(s4, r, "todo")
    <3>1. Clear(s2, r, "todo")
      BY <1>4, <1>5, <1>6, <1>7, <1>8, ClearStays
    <3>2. Clear(s3, r, "todo")
      BY <1>6, <3>1, ClearStays
    <3> QED BY <1>7, <3>2, ClearStays
  <2> QED BY <2>1, <2>2, <2>3, <2>4, FourStatuses
<1>9. PageInv(s4) /\ s4.routines = s.routines /\ s4.found \in 0 .. Len(s4.tasks)
      /\ (s4.found # 0 => s4.routines[r].lastTaskId = 0)
  BY <1>7 DEF Known, Loaded
<1>10. PageInv(Decide(s4, r)) /\ Leaves(s4, Decide(s4, r), r)
  BY <1>8, <1>9, DecideKeeps
<1> QED BY <1>1, <1>9, <1>10 DEF Leaves

\* The schedules of a page, one after the other.
Serving(f, begun, page, n) ==
  /\ DOMAIN f = 0 .. n /\ f[0] = begun
  /\ \A i \in 1 .. n : f[i] = ServeOne(f[i - 1], page[i])

LEMMA ServingExists ==
  ASSUME NEW begun, NEW page, NEW len \in Nat
  PROVE  \E f : Serving(f, begun, page, len)
<1> DEFINE P == {n \in Nat : \E f : Serving(f, begun, page, n)}
<1>1. 0 \in P
  <2>1. Serving([i \in 0 .. 0 |-> begun], begun, page, 0)
    BY DEF Serving
  <2> QED BY <2>1
<1>2. ASSUME NEW n \in P PROVE n + 1 \in P
  <2>1. PICK f : Serving(f, begun, page, n)
    OBVIOUS
  <2>2. n \in Nat
    OBVIOUS
  <2> DEFINE g == [i \in 0 .. n + 1 |-> IF i \in 0 .. n THEN f[i] ELSE ServeOne(f[n], page[n + 1])]
  <2>3. DOMAIN g = 0 .. n + 1 /\ g[0] = begun
    BY <2>1, <2>2 DEF Serving
  <2>4. ASSUME NEW i \in 1 .. n + 1 PROVE g[i] = ServeOne(g[i - 1], page[i])
    <3>1. CASE i = n + 1
      <4>1. g[i] = ServeOne(f[n], page[n + 1]) /\ g[i - 1] = f[n]
        BY <2>2, <3>1
      <4> QED BY <3>1, <4>1
    <3>2. CASE i # n + 1
      <4>1. i \in 1 .. n /\ i - 1 \in 0 .. n /\ i \in 0 .. n
        BY <2>2, <3>2
      <4>2. g[i] = f[i] /\ g[i - 1] = f[i - 1]
        BY <2>2, <4>1
      <4> QED BY <2>1, <4>1, <4>2 DEF Serving
    <3> QED BY <3>1, <3>2
  <2> HIDE DEF g
  <2>5. Serving(g, begun, page, n + 1)
    BY <2>3, <2>4 DEF Serving
  <2> QED BY <2>2, <2>5
<1>3. P = Nat
  <2>1. P \in SUBSET Nat
    OBVIOUS
  <2> HIDE DEF P
  <2> QED BY <1>1, <1>2, <2>1, Upwards
<1> QED BY <1>3

LEMMA ServeIs ==
  ASSUME NEW begun, NEW page, Len(page) \in Nat
  PROVE  \E f : Serving(f, begun, page, Len(page)) /\ Serve(begun, page) = f[Len(page)]
<1> DEFINE len == Len(page)
           step(f, i) == IF i = 0 THEN begun
                         ELSE CHOOSE u \in {ServeOne(t, page[i]) : t \in {f[i - 1]}} : TRUE
           served == CHOOSE f : f = [i \in 0 .. len |-> step(f, i)]
<1>1. PICK g : Serving(g, begun, page, len)
  BY ServingExists
<1>2. ASSUME NEW f, NEW i \in 1 .. len PROVE step(f, i) = ServeOne(f[i - 1], page[i])
  <2>1. {ServeOne(t, page[i]) : t \in {f[i - 1]}} = {ServeOne(f[i - 1], page[i])}
    OBVIOUS
  <2>2. (CHOOSE u \in {ServeOne(f[i - 1], page[i])} : TRUE) = ServeOne(f[i - 1], page[i])
    OBVIOUS
  <2>3. i # 0
    OBVIOUS
  <2> QED BY <2>1, <2>2, <2>3
<1>3. \A f : step(f, 0) = begun
  OBVIOUS
<1>4. Serve(begun, page) = served[len]
  BY DEF Serve
<1> HIDE DEF step
<1>5. DEFINE h == [i \in 0 .. len |-> g[i]]
<1>6. h = [i \in 0 .. len |-> step(h, i)]
  <2>1. ASSUME NEW i \in 0 .. len PROVE g[i] = step(h, i)
    <3>1. CASE i = 0
      BY <1>1, <1>3, <3>1 DEF Serving
    <3>2. CASE i # 0
      <4>1. i \in 1 .. len /\ i - 1 \in 0 .. len
        BY <3>2
      <4>2. h[i - 1] = g[i - 1]
        BY <4>1
      <4> HIDE DEF h
      <4> QED BY <1>1, <1>2, <4>1, <4>2 DEF Serving
    <3> QED BY <3>1, <3>2
  <2> QED BY <2>1
<1>7. served = [i \in 0 .. len |-> step(served, i)]
  <2> HIDE DEF h
  <2>1. \E f : f = [i \in 0 .. len |-> step(f, i)]
    BY <1>6
  <2> QED BY <2>1
<1> HIDE DEF served
<1>8. Serving(served, begun, page, len)
  <2>1. DOMAIN served = 0 .. len /\ \A i \in 0 .. len : served[i] = step(served, i)
    BY <1>7
  <2>2. served[0] = begun
    BY <1>3, <2>1
  <2>3. ASSUME NEW i \in 1 .. len PROVE served[i] = ServeOne(served[i - 1], page[i])
    BY <1>2, <2>1
  <2> QED BY <2>1, <2>2, <2>3 DEF Serving
<1> QED BY <1>4, <1>8

LEMMA ServeKeeps ==
  ASSUME NEW begun, PageInv(begun), now \in Nat, tasks \in Seq(TaskRow),
         begun.found = 0, ~begun.unknown, begun.routines = routines,
         NEW n \in Nat, NEW page \in [1 .. n -> Routine],
         \A i \in 1 .. n : routines[page[i]] # Nothing,
         \A i, j \in 1 .. n : page[i] = page[j] => i = j
  PROVE  PageInv(Serve(begun, page))
<1>1. Len(page) = n
  OBVIOUS
<1>2. PICK f : Serving(f, begun, page, n) /\ Serve(begun, page) = f[n]
  BY <1>1, ServeIs
<1> DEFINE Good(s, k) ==
             /\ PageInv(s) /\ s.found = 0 /\ ~s.unknown
             /\ \A i \in 1 .. n : i > k => s.routines[page[i]] = routines[page[i]]
           P == {k \in Nat : k <= n => Good(f[k], k)}
<1>3. 0 \in P
  BY <1>2 DEF Serving
<1>4. ASSUME NEW k \in P PROVE k + 1 \in P
  <2>1. k \in Nat /\ k + 1 \in Nat
    OBVIOUS
  <2> SUFFICES ASSUME k + 1 <= n PROVE Good(f[k + 1], k + 1)
    BY <2>1
  <2>2. Good(f[k], k) /\ k + 1 \in 1 .. n /\ (k + 1) - 1 = k
    BY <2>1
  <2> DEFINE r == page[k + 1]
             s == f[k]
  <2>3. f[k + 1] = ServeOne(s, r)
    BY <1>2, <2>2 DEF Serving
  <2>4. r \in Routine /\ s.routines[r] = routines[r] /\ s.routines[r] # Nothing
    BY <2>1, <2>2
  <2>5. PageInv(ServeOne(s, r)) /\ Leaves(s, ServeOne(s, r), r)
    BY <2>2, <2>4, ServeOneKeeps
  <2>6. ASSUME NEW i \in 1 .. n, i > k + 1
        PROVE  f[k + 1].routines[page[i]] = routines[page[i]]
    <3>1. page[i] # r /\ i > k
      BY <2>1, <2>2, <2>6
    <3>2. s.routines[page[i]] = routines[page[i]]
      BY <2>2, <3>1
    <3> QED BY <2>3, <2>5, <3>1, <3>2 DEF Leaves
  <2> QED BY <2>3, <2>5, <2>6 DEF Leaves
<1>5. P = Nat
  <2>1. P \in SUBSET Nat
    OBVIOUS
  <2> HIDE DEF P
  <2> QED BY <1>3, <1>4, <2>1, Upwards
<1>6. Good(f[n], n)
  BY <1>5
<1> QED BY <1>2, <1>6

-----------------------------------------------------------------------------
(* The invariant of the tables, action by action.                          *)

RoutineInv == TypeOK /\ Linked(routines, tasks)

LEMMA RoutineStarts == Init => RoutineInv
<1> SUFFICES ASSUME Init PROVE RoutineInv
  OBVIOUS
<1>1. now = 0 /\ tasks = <<>> /\ pages = {}
  BY DEF Init
<1>2. \A r \in Routine : routines[r] # Nothing =>
        routines[r] \in RoutineRow /\ routines[r].lastTaskId = 0
  <2> SUFFICES ASSUME NEW r \in Routine, routines[r] # Nothing
               PROVE  routines[r] \in RoutineRow /\ routines[r].lastTaskId = 0
    OBVIOUS
  <2>1. PICK s \in Title, a \in Agent, b \in BOOLEAN, e \in {0, 1} :
          routines[r] = [title |-> s, to |-> a, byId |-> b, every |-> e, nextRunAt |-> 0,
                         active |-> TRUE, lastTaskId |-> 0]
    BY DEF Init
  <2> QED BY <2>1 DEF RoutineRow
<1>3. routines \in [Routine -> RoutineRow \cup {Nothing}]
  BY <1>2 DEF Init
<1>4. tasks \in Seq(TaskRow) /\ Len(tasks) = 0 /\ DOMAIN tasks = {}
  BY <1>1
<1>5. TypeOK
  BY <1>1, <1>2, <1>3, <1>4, ScheduleAssumption DEF TypeOK
<1>6. Linked(routines, tasks)
  BY <1>2, <1>4 DEF Linked
<1> QED BY <1>5, <1>6 DEF RoutineInv

\* A page.
LEMMA PageKeeps ==
  ASSUME RoutineInv, NEW cursor, NEW rest, rest \subseteq pages, ServePage(cursor, rest)
  PROVE  RoutineInv' /\ Single(tasks')
<1> DEFINE due == {r \in Routine : Due(r) /\ Before(cursor, PositionOf(r))}
           n == Min({Cardinality(due), Page})
           begun == [tasks |-> tasks, routines |-> routines, buckets |-> <<>>, scanned |-> 0,
                     found |-> 0, unknown |-> FALSE]
<1>1. PICK page \in [1 .. n -> due] :
        /\ FirstInOrder(due, page)
        /\ tasks' = Serve(begun, page).tasks /\ routines' = Serve(begun, page).routines
        /\ pages' = rest \cup (IF Cardinality(due) > Page THEN {ContinueCursor(page)} ELSE {})
  BY DEF ServePage
<1>2. now' = now /\ now \in 0 .. MaxNow /\ now \in Nat /\ tasks \in Seq(TaskRow)
      /\ routines \in [Routine -> RoutineRow \cup {Nothing}] /\ Len(tasks) \in Nat
  <2>1. now' = now
    BY DEF ServePage
  <2> QED BY <2>1, ScheduleAssumption, TaskRows DEF RoutineInv, TypeOK
<1>3. due \subseteq Routine /\ Cardinality(due) \in Nat /\ n \in Nat
      /\ (Cardinality(due) > Page => n = Page)
  <2>1. IsFiniteSet(due) /\ due \subseteq Routine
    BY ScheduleAssumption, FS_Subset
  <2>2. Cardinality(due) \in Nat
    <3> HIDE DEF due
    <3> QED BY <2>1, FS_CardinalityType
  <2>3. Page \in Nat
    BY ScheduleAssumption
  <2> HIDE DEF due
  <2>4. n = IF Cardinality(due) <= Page THEN Cardinality(due) ELSE Page
    BY <2>2, <2>3, MinOfTwo
  <2> QED BY <2>1, <2>2, <2>3, <2>4
<1>4. PageInv(begun)
  <2>1. begun \in PageState
    <3>1. <<>> \in Buckets
      <4>1. <<>> \in [{} -> [rows : SUBSET Nat, truncated : BOOLEAN]]
        OBVIOUS
      <4> QED BY <4>1 DEF Buckets
    <3> QED BY <1>2, <3>1 DEF PageState
  <2>2. Grown(tasks) /\ Single(tasks)
    BY <1>2 DEF Grown, Single
  <2>3. BucketsTrue(begun)
    <3>1. begun.buckets = <<>> /\ DOMAIN <<>> = {}
      OBVIOUS
    <3> HIDE DEF begun
    <3> QED BY <3>1 DEF BucketsTrue
  <2> QED BY <2>1, <2>2, <2>3 DEF PageInv, RoutineInv
<1>5. /\ page \in [1 .. n -> Routine]
      /\ \A i \in 1 .. n : routines[page[i]] # Nothing
      /\ \A i, j \in 1 .. n : page[i] = page[j] => i = j
  <2>1. page \in [1 .. n -> Routine] /\ \A i \in 1 .. n : routines[page[i]] # Nothing
    BY <1>1, <1>3 DEF Due
  <2>2. ASSUME NEW i \in 1 .. n, NEW j \in 1 .. n, i < j PROVE page[i] # page[j]
    <3>1. DOMAIN page = 1 .. n
      BY <1>1
    <3>2. {q \in due : Before(PositionOf(q), PositionOf(page[j]))} = {page[k] : k \in 1 .. j - 1}
      BY <1>1, <3>1 DEF FirstInOrder
    <3>3. i \in 1 .. j - 1
      BY <1>3, <2>2
    <3>4. Before(PositionOf(page[i]), PositionOf(page[j]))
      BY <3>2, <3>3
    <3>5. ~Before(PositionOf(page[j]), PositionOf(page[j]))
      <4>1. routines[page[j]] \in RoutineRow /\ page[j] \in Nat
        BY <1>2, <2>1, ScheduleAssumption
      <4>2. PositionOf(page[j]).at \in Nat /\ PositionOf(page[j]).row \in Nat
        BY <4>1 DEF PositionOf, RoutineRow
      <4> QED BY <4>2 DEF Before
    <3> QED BY <3>4, <3>5
  <2>3. ASSUME NEW i \in 1 .. n, NEW j \in 1 .. n, page[i] = page[j] PROVE i = j
    <3>1. ~(i < j) /\ ~(j < i)
      BY <2>2, <2>3
    <3> QED BY <1>3, <3>1
  <2> QED BY <2>1, <2>3
<1>6. PageInv(Serve(begun, page))
  <2>1. begun.found = 0 /\ ~begun.unknown /\ begun.routines = routines
    OBVIOUS
  <2> HIDE DEF begun, n
  <2> QED BY <1>2, <1>3, <1>4, <1>5, <2>1, ServeKeeps
<1>7. /\ tasks' \in Seq(TaskRow) /\ routines' \in [Routine -> RoutineRow \cup {Nothing}]
      /\ Linked(routines', tasks') /\ Single(tasks')
  BY <1>1, <1>6 DEF PageInv, PageState
<1>8. pages' \subseteq Cursor /\ \A c \in pages' : c.at <= now'
  <2>1. pages \subseteq Cursor /\ \A c \in pages : c.at <= now
    BY DEF RoutineInv, TypeOK
  <2>2. ASSUME Cardinality(due) > Page
        PROVE  ContinueCursor(page) \in Cursor /\ ContinueCursor(page).at <= now
    <3>1. Page \in Nat \ {0} /\ n = Page /\ Len(page) = n
      BY <1>1, <1>3, <2>2, ScheduleAssumption
    <3>2. Last(page) = page[n] /\ n \in 1 .. n
      <4> HIDE DEF n
      <4> QED BY <3>1 DEF Last
    <3>3. Last(page) \in due /\ Last(page) \in Routine
      BY <1>1, <1>3, <3>2
    <3>4. routines[Last(page)] \in RoutineRow /\ routines[Last(page)].nextRunAt <= now
      BY <1>2, <3>3 DEF Due
    <3>5. Last(page) \in Nat /\ routines[Last(page)].nextRunAt \in Nat
      BY <3>3, <3>4, ScheduleAssumption DEF RoutineRow
    <3> QED BY <3>4, <3>5 DEF ContinueCursor, PositionOf, Cursor
  <2> HIDE DEF due
  <2> QED BY <1>1, <1>2, <2>1, <2>2
<1>9. TypeOK'
  <2>1. \A r \in Routine : routines'[r] # Nothing => routines'[r].lastTaskId \in 0 .. Len(tasks')
    BY <1>7 DEF Linked
  <2> QED BY <1>2, <1>7, <1>8, <2>1 DEF TypeOK
<1> QED BY <1>7, <1>9 DEF RoutineInv

\* The doors of a schedule change its row and no task.
LEMMA RowDoorsKeep ==
  ASSUME RoutineInv, NEW r \in Routine, NEW row, UNCHANGED <<now, tasks, pages>>,
         routines' = [routines EXCEPT ![r] = row],
         \/ row = Nothing
         \/ row \in RoutineRow /\ routines[r] # Nothing /\ row.lastTaskId = routines[r].lastTaskId
         \/ row \in RoutineRow /\ row.lastTaskId = 0 /\ \A t \in DOMAIN tasks : tasks[t].from # r
  PROVE  RoutineInv'
<1>1. routines \in [Routine -> RoutineRow \cup {Nothing}] /\ tasks \in Seq(TaskRow)
      /\ Len(tasks) \in Nat
  BY TaskRows DEF RoutineInv, TypeOK
<1>2. routines' \in [Routine -> RoutineRow \cup {Nothing}] /\ routines'[r] = row
      /\ \A q \in Routine \ {r} : routines'[q] = routines[q]
  BY <1>1
<1>3. Linked(routines', tasks)
  <2>1. ASSUME NEW q \in Routine, routines'[q] # Nothing
        PROVE  /\ routines'[q].lastTaskId \in 0 .. Len(tasks)
               /\ \A t \in DOMAIN tasks : tasks[t].from = q =>
                    /\ routines'[q].lastTaskId # 0
                    /\ tasks[t].status \in Range(OpenInstanceStatuses) /\ ~tasks[t].reopened
                         => t = routines'[q].lastTaskId
    <3>1. CASE q # r
      BY <1>2, <2>1, <3>1 DEF RoutineInv, Linked
    <3>2. CASE q = r /\ routines[r] # Nothing /\ row.lastTaskId = routines[r].lastTaskId
      BY <1>2, <3>2 DEF RoutineInv, Linked
    <3>3. CASE q = r /\ row.lastTaskId = 0 /\ \A t \in DOMAIN tasks : tasks[t].from # r
      BY <1>1, <1>2, <3>3
    <3> QED BY <1>2, <2>1, <3>1, <3>2, <3>3
  <2> QED BY <2>1 DEF Linked
<1>4. TypeOK'
  BY <1>2, <1>3 DEF RoutineInv, TypeOK, Linked
<1> QED BY <1>3, <1>4 DEF RoutineInv

LEMMA RowsKeepInv ==
  ASSUME RoutineInv, NEW r \in Routine,
         \/ \E s \in Title : Retitle(r, s) \/ \E a \in Agent, e \in 1 .. 2 : Create(r, s, a, e)
         \/ \E a \in Agent : Reassign(r, a)
         \/ \E e \in 1 .. 2 : Reschedule(r, e)
         \/ Pause(r) \/ Resume(r) \/ Delete(r)
  PROVE  RoutineInv' /\ tasks' = tasks
<1>1. routines \in [Routine -> RoutineRow \cup {Nothing}] /\ now \in Nat
  BY ScheduleAssumption DEF RoutineInv, TypeOK
<1>2. UNCHANGED <<now, tasks, pages>>
  BY DEF Retitle, Create, Reassign, Reschedule, Pause, Resume, Delete
<1>3. ASSUME NEW row, routines' = [routines EXCEPT ![r] = row],
             \/ row = Nothing
             \/ row \in RoutineRow /\ routines[r] # Nothing /\ row.lastTaskId = routines[r].lastTaskId
             \/ row \in RoutineRow /\ row.lastTaskId = 0 /\ \A t \in DOMAIN tasks : tasks[t].from # r
      PROVE  RoutineInv'
  BY <1>2, <1>3, RowDoorsKeep
<1>4. ASSUME NEW s \in Title, Retitle(r, s) PROVE RoutineInv'
  <2>1. routines[r] \in RoutineRow /\ routines' = [routines EXCEPT ![r] = [@ EXCEPT !.title = s]]
    BY <1>1, <1>4 DEF Retitle
  <2>2. LET row == [routines[r] EXCEPT !.title = s]
        IN row \in RoutineRow /\ row.lastTaskId = routines[r].lastTaskId
    BY <2>1 DEF RoutineRow
  <2> QED BY <1>3, <1>4, <2>1, <2>2 DEF Retitle
<1>5. ASSUME NEW s \in Title, NEW a \in Agent, NEW e \in 1 .. 2, Create(r, s, a, e) PROVE RoutineInv'
  <2> DEFINE row == [title |-> s, to |-> a, byId |-> TRUE, every |-> e, nextRunAt |-> now + e,
                     active |-> TRUE, lastTaskId |-> 0]
  <2>1. row \in RoutineRow /\ row.lastTaskId = 0
    BY <1>1 DEF RoutineRow
  <2>2. routines' = [routines EXCEPT ![r] = row] /\ \A t \in DOMAIN tasks : tasks[t].from # r
    BY <1>5 DEF Create
  <2> HIDE DEF row
  <2> QED BY <1>3, <2>1, <2>2
<1>6. ASSUME NEW a \in Agent, Reassign(r, a) PROVE RoutineInv'
  <2> DEFINE row == [routines[r] EXCEPT !.to = a, !.byId = TRUE]
  <2>1. routines[r] \in RoutineRow /\ routines[r] # Nothing /\ routines' = [routines EXCEPT ![r] = row]
    BY <1>1, <1>6 DEF Reassign
  <2>2. row \in RoutineRow /\ row.lastTaskId = routines[r].lastTaskId
    BY <2>1 DEF RoutineRow
  <2> HIDE DEF row
  <2> QED BY <1>3, <2>1, <2>2
<1>7. ASSUME NEW e \in 1 .. 2, Reschedule(r, e) PROVE RoutineInv'
  <2> DEFINE row == [routines[r] EXCEPT !.every = e, !.nextRunAt = now + e]
  <2>1. routines[r] \in RoutineRow /\ routines[r] # Nothing /\ routines' = [routines EXCEPT ![r] = row]
    BY <1>1, <1>7 DEF Reschedule
  <2>2. row \in RoutineRow /\ row.lastTaskId = routines[r].lastTaskId
    <3>1. now + e \in Nat /\ e \in Nat
      BY <1>1
    <3> QED BY <2>1, <3>1 DEF RoutineRow
  <2> HIDE DEF row
  <2> QED BY <1>3, <2>1, <2>2
<1>8. CASE Pause(r)
  <2> DEFINE row == [routines[r] EXCEPT !.active = FALSE]
  <2>1. routines[r] \in RoutineRow /\ routines[r] # Nothing /\ routines' = [routines EXCEPT ![r] = row]
    BY <1>1, <1>8 DEF Pause
  <2>2. row \in RoutineRow /\ row.lastTaskId = routines[r].lastTaskId
    BY <2>1 DEF RoutineRow
  <2> HIDE DEF row
  <2> QED BY <1>2, <1>3, <2>1, <2>2
<1>9. CASE Resume(r)
  <2> DEFINE row == [routines[r] EXCEPT !.active = TRUE, !.nextRunAt = now + routines[r].every]
  <2>1. routines[r] \in RoutineRow /\ routines[r] # Nothing /\ routines' = [routines EXCEPT ![r] = row]
    BY <1>1, <1>9 DEF Resume
  <2>2. row \in RoutineRow /\ row.lastTaskId = routines[r].lastTaskId
    <3>1. now + routines[r].every \in Nat
      BY <1>1, <2>1 DEF RoutineRow
    <3> QED BY <2>1, <3>1 DEF RoutineRow
  <2> HIDE DEF row
  <2> QED BY <1>2, <1>3, <2>1, <2>2
<1>10. CASE Delete(r)
  BY <1>2, <1>3, <1>10 DEF Delete
<1> QED BY <1>2, <1>4, <1>5, <1>6, <1>7, <1>8, <1>9, <1>10

\* Callers add and move tasks; one that was closed is open again as a reopened one.
LEMMA CallersKeep ==
  ASSUME RoutineInv,
         \/ \E s \in Title, a \in Agent : AddTask(s, a)
         \/ \E t \in DOMAIN tasks, st \in Status : MoveTask(t, st)
  PROVE  RoutineInv' /\ \A t \in DOMAIN tasks' \ DOMAIN tasks : tasks'[t].from = 0
<1>1. routines \in [Routine -> RoutineRow \cup {Nothing}] /\ now \in Nat
      /\ tasks \in Seq(TaskRow) /\ Len(tasks) \in Nat /\ DOMAIN tasks = 1 .. Len(tasks)
  BY ScheduleAssumption, TaskRows DEF RoutineInv, TypeOK
<1>2. UNCHANGED <<now, routines, pages>>
  BY DEF AddTask, MoveTask
<1>3. ASSUME tasks' \in Seq(TaskRow), Len(tasks) <= Len(tasks'), Linked(routines, tasks')
      PROVE  RoutineInv'
  <2>1. TypeOK'
    BY <1>2, <1>3 DEF RoutineInv, TypeOK, Linked
  <2> QED BY <1>2, <1>3, <2>1 DEF RoutineInv
<1>4. ASSUME NEW s \in Title, NEW a \in Agent, AddTask(s, a)
      PROVE  RoutineInv' /\ \A t \in DOMAIN tasks' \ DOMAIN tasks : tasks'[t].from = 0
  <2> DEFINE task == [title |-> s, to |-> a, status |-> "todo", updatedAt |-> now,
                      from |-> 0, byId |-> TRUE, reopened |-> FALSE]
  <2>1. task \in TaskRow /\ task.from = 0
    <3>1. "todo" \in Status
      BY FourStatuses DEF Status
    <3> QED BY <1>1, <3>1 DEF TaskRow
  <2>2. tasks' = Append(tasks, task)
    BY <1>4 DEF AddTask
  <2> HIDE DEF task
  <2>3. /\ tasks' \in Seq(TaskRow) /\ Len(tasks') = Len(tasks) + 1
        /\ DOMAIN tasks' = 1 .. Len(tasks) + 1 /\ tasks'[Len(tasks) + 1] = task
        /\ \A u \in DOMAIN tasks : tasks'[u] = tasks[u]
    BY <1>1, <2>1, <2>2
  <2>4. \A t \in DOMAIN tasks' : t \notin DOMAIN tasks => tasks'[t].from = 0
    BY <1>1, <2>1, <2>3
  <2>5. Linked(routines, tasks')
    <3>1. ASSUME NEW r \in Routine, routines[r] # Nothing
          PROVE  routines[r].lastTaskId \in 0 .. Len(tasks')
      BY <1>1, <2>3, <3>1 DEF RoutineInv, Linked
    <3>2. ASSUME NEW r \in Routine, routines[r] # Nothing, NEW t \in DOMAIN tasks', tasks'[t].from = r
          PROVE  t \in DOMAIN tasks /\ tasks'[t] = tasks[t]
      <4>1. r # 0
        BY ScheduleAssumption
      <4> QED BY <2>3, <2>4, <3>2, <4>1
    <3> QED BY <3>1, <3>2 DEF RoutineInv, Linked
  <2>6. Len(tasks) <= Len(tasks')
    BY <1>1, <2>3
  <2> QED BY <1>3, <2>3, <2>4, <2>5, <2>6
<1>5. ASSUME NEW t \in DOMAIN tasks, NEW st \in Status, MoveTask(t, st)
      PROVE  RoutineInv' /\ \A u \in DOMAIN tasks' \ DOMAIN tasks : tasks'[u].from = 0
  <2> DEFINE again == tasks[t].reopened \/ (tasks[t].status = "done" /\ st \in Range(OpenInstanceStatuses))
             task == [tasks[t] EXCEPT !.status = st, !.updatedAt = now, !.reopened = again]
  <2>1. tasks[t] \in TaskRow
    BY <1>1, TaskRows
  <2>2. tasks' = [tasks EXCEPT ![t] = task]
    BY <1>5 DEF MoveTask
  <2>3. /\ task \in TaskRow /\ task.from = tasks[t].from /\ task.status = st
        /\ (task.reopened <=> again)
    <3>1. again \in BOOLEAN
      BY <2>1 DEF TaskRow
    <3> HIDE DEF again
    <3> QED BY <1>1, <2>1, <3>1 DEF TaskRow
  <2> HIDE DEF task
  <2>4. /\ tasks' \in Seq(TaskRow) /\ Len(tasks') = Len(tasks) /\ DOMAIN tasks' = DOMAIN tasks
        /\ tasks'[t] = task /\ \A u \in DOMAIN tasks : u # t => tasks'[u] = tasks[u]
    BY <1>1, <2>2, <2>3
  <2>5. task.status \in Range(OpenInstanceStatuses) /\ ~task.reopened
          => tasks[t].status \in Range(OpenInstanceStatuses) /\ ~tasks[t].reopened
    <3>1. tasks[t].status \in Range(OpenInstanceStatuses) \cup {"done", "deleted"}
      BY <2>1 DEF TaskRow, Status
    <3>2. tasks[t].status # "deleted"
      BY <1>5 DEF MoveTask
    <3> QED BY <2>3, <3>1, <3>2
  <2>6. Linked(routines, tasks')
    <3>1. ASSUME NEW r \in Routine, routines[r] # Nothing, NEW u \in DOMAIN tasks', tasks'[u].from = r
          PROVE  /\ routines[r].lastTaskId # 0
                 /\ tasks'[u].status \in Range(OpenInstanceStatuses) /\ ~tasks'[u].reopened
                      => u = routines[r].lastTaskId
      <4>1. CASE u = t
        BY <2>3, <2>4, <2>5, <3>1, <4>1 DEF RoutineInv, Linked
      <4>2. CASE u # t
        BY <2>4, <3>1, <4>2 DEF RoutineInv, Linked
      <4> QED BY <4>1, <4>2
    <3> QED BY <2>4, <3>1 DEF RoutineInv, Linked
  <2> QED BY <1>1, <1>3, <2>4, <2>6
<1> QED BY <1>4, <1>5

LEMMA RoutineStep ==
  ASSUME RoutineInv, Next
  PROVE  /\ RoutineInv'
         /\ \/ Single(tasks')
            \/ \A t \in DOMAIN tasks' \ DOMAIN tasks : tasks'[t].from = 0
<1>1. ASSUME NEW r \in Routine,
             \/ \E s \in Title : Retitle(r, s) \/ \E a \in Agent, e \in 1 .. 2 : Create(r, s, a, e)
             \/ \E a \in Agent : Reassign(r, a)
             \/ \E e \in 1 .. 2 : Reschedule(r, e)
             \/ Pause(r) \/ Resume(r) \/ Delete(r)
      PROVE  RoutineInv' /\ Single(tasks')
  <2>1. RoutineInv' /\ tasks' = tasks
    BY <1>1, RowsKeepInv
  <2> QED BY <2>1 DEF Single
<1>2. CASE \/ \E s \in Title, a \in Agent : AddTask(s, a)
           \/ \E t \in DOMAIN tasks, st \in Status : MoveTask(t, st)
  BY <1>2, CallersKeep
<1>3. CASE CronTick
  BY <1>3, PageKeeps DEF CronTick
<1>4. ASSUME NEW cursor \in pages, NextPage(cursor)
      PROVE  RoutineInv' /\ Single(tasks')
  BY <1>4, PageKeeps DEF NextPage
<1>5. CASE Tick
  <2>1. UNCHANGED <<routines, tasks, pages>> /\ now' = now + 1 /\ now < MaxNow
    BY <1>5 DEF Tick
  <2>2. now' \in 0 .. MaxNow /\ \A c \in pages : c.at <= now'
    <3>1. now \in 0 .. MaxNow /\ MaxNow \in Nat /\ \A c \in pages : c.at \in Nat /\ c.at <= now
      BY ScheduleAssumption DEF RoutineInv, TypeOK, Cursor
    <3> QED BY <2>1, <3>1
  <2>3. TypeOK'
    BY <2>1, <2>2 DEF RoutineInv, TypeOK
  <2> QED BY <2>1, <2>3 DEF RoutineInv, Single
<1> QED BY <1>1, <1>2, <1>3, <1>4, <1>5 DEF Next

\* The tables keep their types: a schedule's last task is one there is, and a cursor
\* left for the next page is never past the clock (processDueTasks).
THEOREM SchedulesTyped == Spec => []TypeOK
<1>1. Init => RoutineInv
  BY RoutineStarts
<1>2. RoutineInv /\ [Next]_vars => RoutineInv'
  <2>1. ASSUME RoutineInv, UNCHANGED vars PROVE RoutineInv'
    BY <2>1 DEF vars, RoutineInv, TypeOK, Linked
  <2> QED BY <2>1, RoutineStep
<1>3. RoutineInv => TypeOK
  BY DEF RoutineInv
<1> QED BY <1>1, <1>2, <1>3, PTL DEF Spec

\* The task a page inserts stands beside no open task its schedule inserted before,
\* nor, where it is the schedule's first, beside one of its title and assignee,
\* however many schedules share the page and wherever its budget ends
\* (processDueTasks, findOpenInstance).
THEOREM OneOpenInstance == Spec => NoSecondInstance
<1> DEFINE Claim == \A t \in DOMAIN tasks' : Inserted(t) =>
              LET r == tasks'[t].from IN
              ~\E u \in 1 .. t - 1 :
                 /\ tasks'[u].status \in Range(OpenInstanceStatuses)
                 /\ \/ tasks'[u].from = r /\ ~tasks'[u].reopened
                    \/ /\ routines[r].lastTaskId = 0
                       /\ tasks'[u].title = tasks'[t].title /\ tasks'[u].to = tasks'[t].to
                       /\ u > Len(tasks) => tasks'[u].byId = tasks'[t].byId
<1>1. Init => RoutineInv
  BY RoutineStarts
<1>2. RoutineInv /\ [Next]_vars => RoutineInv'
  <2>1. ASSUME RoutineInv, UNCHANGED vars PROVE RoutineInv'
    BY <2>1 DEF vars, RoutineInv, TypeOK, Linked
  <2> QED BY <2>1, RoutineStep
<1>3. RoutineInv /\ [Next]_vars => [Claim]_vars
  <2> SUFFICES ASSUME RoutineInv, Next, NEW t \in DOMAIN tasks', Inserted(t)
               PROVE  NoOther(tasks', t)
    BY DEF NoOther
  <2>1. t \notin DOMAIN tasks
    <3>1. DOMAIN tasks = 1 .. Len(tasks) /\ Len(tasks) \in Nat
      BY TaskRows DEF RoutineInv, TypeOK
    <3> QED BY <3>1 DEF Inserted
  <2>2. tasks'[t].from # 0
    BY DEF Inserted
  <2> QED BY <2>1, <2>2, RoutineStep DEF Single
<1> QED BY <1>1, <1>2, <1>3, PTL DEF Spec, NoSecondInstance

-----------------------------------------------------------------------------
(* Deliverables.  Every reading under way is of an artifact its row or the *)
(* cron named, and says delivered of a published one only: a reading is    *)
(* recorded on a row that still names what was read.                       *)

Published(d, s) == s = "delivered" => d \in everPublished

RegistryRemembered == \A d \in Artifact : Published(d, registry[d])

ReadingsTrue ==
  \A j \in 1 .. MaxJobs : jobs[j] # Nothing => Published(jobs[j].deliverable, jobs[j].read)

DeliveryInv == DeliverablesTyped /\ RegistryRemembered /\ ReadingsTrue /\ DeliveredWasPublished

\* What DeliveredWasPublished and DeliverablesTyped say of one row.
RowTrue(row) ==
  row # Nothing /\ row.deliverableState # Nothing =>
    row.deliverable # Nothing /\ Published(row.deliverable, row.deliverableState.state)

BoardTrue == board \in [Task -> BoardRow \cup {Nothing}] /\ \A t \in Task : RowTrue(board[t])

JobsTrue == jobs \in [1 .. MaxJobs -> Job \cup {Nothing}] /\ ReadingsTrue

LEMMA InvParts ==
  DeliveryInv <=>
    /\ registry \in [Artifact -> State] /\ everPublished \subseteq Artifact
    /\ inserted \in 0 .. Cardinality(Task)
    /\ recheck \in Recheck \cup {Nothing} /\ sinceRecheck \in 0 .. Interval
    /\ RegistryRemembered /\ BoardTrue /\ JobsTrue
  BY DEF DeliveryInv, DeliverablesTyped, DeliveredWasPublished, BoardTrue, RowTrue, Published,
         JobsTrue

\* The same of the state a step reaches.
LEMMA InvPartsAfter ==
  ASSUME registry' \in [Artifact -> State], everPublished' \subseteq Artifact,
         inserted' \in 0 .. Cardinality(Task),
         recheck' \in Recheck \cup {Nothing}, sinceRecheck' \in 0 .. Interval,
         RegistryRemembered', BoardTrue', JobsTrue'
  PROVE  DeliveryInv'
  BY DEF DeliveryInv, DeliverablesTyped, DeliveredWasPublished, BoardTrue, RowTrue, Published,
         JobsTrue

\* Scheduling a resolution of an artifact keeps what is known of the jobs.
LEMMA ScheduleKeeps ==
  ASSUME JobsTrue, NEW t \in Task, NEW d \in Artifact, Schedule(t, d), UNCHANGED everPublished
  PROVE  JobsTrue'
<1>1. PICK j \in FreeSlots :
        jobs' = [jobs EXCEPT ![j] = [task |-> t, deliverable |-> d, read |-> Nothing]]
  BY DEF Schedule
<1>2. j \in 1 .. MaxJobs
  BY DEF FreeSlots, JobsTrue
<1>3. [task |-> t, deliverable |-> d, read |-> Nothing] \in Job /\ Nothing # "delivered"
  BY DeliverablesAssumption DEF Job, State
<1>4. jobs' \in [1 .. MaxJobs -> Job \cup {Nothing}]
  BY <1>1, <1>2, <1>3 DEF JobsTrue
<1>5. ReadingsTrue'
  BY <1>1, <1>2, <1>3 DEF JobsTrue, ReadingsTrue, Published
<1> QED BY <1>4, <1>5 DEF JobsTrue

\* What the cron lists are rows and the artifacts they name.
LEMMA ListsNames ==
  ASSUME BoardTrue
  PROVE  Candidates \subseteq Candidate
<1> SUFFICES ASSUME NEW c \in Candidates PROVE c \in Candidate
  OBVIOUS
<1>1. PICK t \in OpenDeliverables : c = Listed(t)
  BY DEF Candidates
<1>2. t \in Task /\ board[t] # Nothing /\ board[t].deliverable # Nothing
  BY DEF OpenDeliverables, Scanned, StillOpen
<1>3. board[t].deliverable \in Artifact
      /\ (board[t].deliverableState = Nothing \/ board[t].deliverableState.age \in 0 .. Cooldown)
  BY <1>2 DEF BoardTrue, BoardRow, Reading
<1>4. Cardinality({q \in OpenDeliverables : ListedBefore(q, t)}) \in Nat
  <2>1. IsFiniteSet({q \in OpenDeliverables : ListedBefore(q, t)})
    <3>1. {q \in OpenDeliverables : ListedBefore(q, t)} \in SUBSET Task
      BY DEF OpenDeliverables
    <3> QED BY <3>1, DeliverablesAssumption, FS_Subset
  <2> QED BY <2>1, FS_CardinalityType
<1>5. c = [place |-> Cardinality({q \in OpenDeliverables : ListedBefore(q, t)}), task |-> t,
           deliverable |-> board[t].deliverable,
           age |-> IF board[t].deliverableState = Nothing THEN Nothing
                   ELSE board[t].deliverableState.age]
  BY <1>1 DEF Listed
<1> QED BY <1>2, <1>3, <1>4, <1>5 DEF Candidate

\* The initial state: nothing was published, named or read.
LEMMA DeliveryStarts == DeliverablesInit => DeliveryInv
<1> SUFFICES ASSUME DeliverablesInit PROVE DeliveryInv
  OBVIOUS
<1>1. registry \in [Artifact -> State] /\ everPublished = {} /\ RegistryRemembered
  BY DEF DeliverablesInit, State, RegistryRemembered, Published
<1>2. inserted \in 0 .. Cardinality(Task)
  BY DeliverablesAssumption, FS_CardinalityType DEF DeliverablesInit
<1>3. recheck \in Recheck \cup {Nothing} /\ sinceRecheck \in 0 .. Interval
  BY DeliverablesAssumption DEF DeliverablesInit
<1>4. BoardTrue /\ JobsTrue
  BY DEF DeliverablesInit, BoardTrue, RowTrue, JobsTrue, ReadingsTrue
<1> QED BY <1>1, <1>2, <1>3, <1>4, InvParts

\* What is outside the rows: a publication is remembered, a reading is of what
\* the registry has then, a list is of what the rows name.
LEMMA OutsideKeeps ==
  ASSUME DeliveryInv,
         \/ \E d \in Artifact, s \in State : Registry(d, s)
         \/ \E j \in DOMAIN jobs : ReadDeliverable(j) \/ JobDies(j)
         \/ ListOpenDeliverables \/ ScheduleNext \/ RecheckEnds \/ RecheckDies
  PROVE  DeliveryInv'
<1>a. /\ registry \in [Artifact -> State] /\ everPublished \subseteq Artifact
      /\ inserted \in 0 .. Cardinality(Task)
      /\ recheck \in Recheck \cup {Nothing} /\ sinceRecheck \in 0 .. Interval
      /\ RegistryRemembered /\ BoardTrue /\ JobsTrue
  BY InvParts
<1>b. UNCHANGED <<inserted, board>>
  BY DEF Registry, ReadDeliverable, JobDies, ListOpenDeliverables, ScheduleNext, RecheckEnds,
         RecheckDies
<1>c. ASSUME UNCHANGED everPublished PROVE BoardTrue'
  BY <1>a, <1>b, <1>c DEF BoardTrue, RowTrue, Published
<1>d. ASSUME UNCHANGED <<jobs, everPublished>> PROVE JobsTrue'
  BY <1>a, <1>d DEF JobsTrue, ReadingsTrue, Published
<1>e. ASSUME UNCHANGED <<registry, everPublished>> PROVE RegistryRemembered'
  BY <1>a, <1>e DEF RegistryRemembered, Published
<1>f. ASSUME UNCHANGED <<registry, everPublished, sinceRecheck>>, JobsTrue',
             recheck' \in Recheck \cup {Nothing}
      PROVE  DeliveryInv'
  <2>1. BoardTrue' /\ RegistryRemembered'
    BY <1>c, <1>e, <1>f
  <2> QED BY <1>a, <1>b, <1>f, <2>1, InvPartsAfter
<1>1. ASSUME NEW d \in Artifact, NEW s \in State, Registry(d, s)
      PROVE  DeliveryInv'
  <2>1. /\ registry' = [registry EXCEPT ![d] = s] /\ everPublished \subseteq everPublished'
        /\ everPublished' \subseteq Artifact /\ (s = "delivered" => d \in everPublished')
        /\ UNCHANGED <<jobs, recheck, sinceRecheck>>
    BY <1>1, <1>a DEF Registry
  <2>2. registry' \in [Artifact -> State] /\ RegistryRemembered'
    BY <1>a, <2>1 DEF RegistryRemembered, Published
  <2>3. BoardTrue' /\ JobsTrue'
    BY <1>a, <1>b, <2>1 DEF BoardTrue, RowTrue, JobsTrue, ReadingsTrue, Published
  <2> QED BY <1>a, <1>b, <2>1, <2>2, <2>3, InvPartsAfter
<1>2. ASSUME NEW j \in DOMAIN jobs, ReadDeliverable(j)
      PROVE  DeliveryInv'
  <2>1. j \in 1 .. MaxJobs /\ jobs[j] \in Job
        /\ jobs' = [jobs EXCEPT ![j].read = registry[jobs[j].deliverable]]
        /\ UNCHANGED <<registry, everPublished, recheck, sinceRecheck>>
    BY <1>2, <1>a DEF ReadDeliverable, JobsTrue
  <2>2. registry[jobs[j].deliverable] \in State
        /\ Published(jobs[j].deliverable, registry[jobs[j].deliverable])
    BY <1>a, <2>1 DEF Job, RegistryRemembered
  <2>3. JobsTrue'
    BY <1>a, <2>1, <2>2 DEF JobsTrue, ReadingsTrue, Published, Job
  <2> QED BY <1>a, <1>f, <2>1, <2>3
<1>3. ASSUME NEW j \in DOMAIN jobs, JobDies(j)
      PROVE  DeliveryInv'
  <2>1. jobs' = [jobs EXCEPT ![j] = Nothing]
        /\ UNCHANGED <<registry, everPublished, recheck, sinceRecheck>>
    BY <1>3 DEF JobDies
  <2>2. JobsTrue'
    BY <1>a, <2>1 DEF JobsTrue, ReadingsTrue, Published
  <2> QED BY <1>a, <1>f, <2>1, <2>2
<1>4. CASE ListOpenDeliverables
  <2>1. recheck' = [left |-> Candidates, scheduled |-> 0] /\ sinceRecheck' = 0
        /\ UNCHANGED <<registry, everPublished, jobs>>
    BY <1>4 DEF ListOpenDeliverables
  <2>2. recheck' \in Recheck
    BY <1>a, <2>1, ListsNames DEF Recheck
  <2>3. sinceRecheck' \in 0 .. Interval
    BY <2>1, DeliverablesAssumption
  <2>4. BoardTrue' /\ RegistryRemembered' /\ JobsTrue'
    BY <1>c, <1>d, <1>e, <2>1
  <2> QED BY <1>a, <1>b, <2>1, <2>2, <2>3, <2>4, InvPartsAfter
<1>5. CASE ScheduleNext
  <2>1. PICK c \in recheck.left :
          \/ /\ Schedule(c.task, c.deliverable)
             /\ recheck' = [left |-> recheck.left \ {c}, scheduled |-> recheck.scheduled + 1]
          \/ recheck' = [recheck EXCEPT !.left = @ \ {c}] /\ UNCHANGED jobs
    BY <1>5 DEF ScheduleNext
  <2>2. recheck # Nothing /\ UNCHANGED <<registry, everPublished, sinceRecheck>>
    BY <1>5 DEF ScheduleNext
  <2>3. recheck \in Recheck /\ c.task \in Task /\ c.deliverable \in Artifact
    BY <1>a, <2>1, <2>2 DEF Recheck, Candidate
  <2>4. recheck' \in Recheck
    BY <2>1, <2>3 DEF Recheck
  <2>5. JobsTrue'
    BY <1>a, <1>d, <2>1, <2>2, <2>3, ScheduleKeeps
  <2> QED BY <1>f, <2>2, <2>4, <2>5
<1>6. CASE RecheckEnds \/ RecheckDies
  <2>1. recheck' = Nothing /\ UNCHANGED <<registry, everPublished, jobs, sinceRecheck>>
    BY <1>6 DEF RecheckEnds, RecheckDies
  <2> QED BY <1>d, <1>f, <2>1
<1> QED BY <1>1, <1>2, <1>3, <1>4, <1>5, <1>6

\* The rows: a name and its reading change together, and only a reading of the
\* artifact the row names is recorded.
LEMMA RowsKeep ==
  ASSUME DeliveryInv,
         \/ TimePasses
         \/ \E t \in Task :
              \/ \E d \in Artifact \cup {Nothing} : CreateTask(t, d)
              \/ \E d \in Artifact : SetDeliverable(t, d)
              \/ \E s \in RowStatus : MoveRow(t, s)
              \/ DeleteRow(t)
         \/ \E j \in DOMAIN jobs : RecordDeliverableState(j)
  PROVE  DeliveryInv'
<1>a. /\ registry \in [Artifact -> State] /\ everPublished \subseteq Artifact
      /\ inserted \in 0 .. Cardinality(Task)
      /\ recheck \in Recheck \cup {Nothing} /\ sinceRecheck \in 0 .. Interval
      /\ RegistryRemembered /\ BoardTrue /\ JobsTrue
  BY InvParts
<1>b. UNCHANGED <<registry, everPublished, recheck>> /\ RegistryRemembered'
  BY <1>a DEF TimePasses, CreateTask, SetDeliverable, MoveRow, DeleteRow, RecordDeliverableState,
              RegistryRemembered, Published
<1>c. ASSUME BoardTrue', JobsTrue', inserted' \in 0 .. Cardinality(Task), sinceRecheck' \in 0 .. Interval
      PROVE  DeliveryInv'
  BY <1>a, <1>b, <1>c, InvPartsAfter
<1>d. ASSUME UNCHANGED jobs PROVE JobsTrue'
  BY <1>a, <1>b, <1>d DEF JobsTrue, ReadingsTrue, Published
<1>e. ASSUME NEW t \in Task, NEW row \in BoardRow \cup {Nothing}, RowTrue(row),
             board' = [board EXCEPT ![t] = row]
      PROVE  BoardTrue'
  <2>1. board' \in [Task -> BoardRow \cup {Nothing}]
    BY <1>a, <1>e DEF BoardTrue
  <2>2. ASSUME NEW q \in Task PROVE RowTrue(board'[q])
    BY <1>a, <1>e DEF BoardTrue
  <2> QED BY <1>b, <2>1, <2>2 DEF BoardTrue, RowTrue, Published
<1>1. CASE TimePasses
  <2>1. board' = [t \in Task |-> Older(board[t])] /\ UNCHANGED <<jobs, inserted>>
        /\ sinceRecheck' = IF sinceRecheck < Interval THEN sinceRecheck + 1 ELSE Interval
    BY <1>1 DEF TimePasses
  <2>2. sinceRecheck' \in 0 .. Interval
    BY <1>a, <2>1, DeliverablesAssumption
  <2>3. ASSUME NEW row \in BoardRow \cup {Nothing}, RowTrue(row)
        PROVE  Older(row) \in BoardRow \cup {Nothing} /\ RowTrue(Older(row))
    <3>1. CASE row = Nothing \/ row.deliverableState = Nothing \/ row.deliverableState.age = Cooldown
      BY <2>3, <3>1 DEF Older
    <3>2. CASE ~(row = Nothing \/ row.deliverableState = Nothing \/ row.deliverableState.age = Cooldown)
      <4> DEFINE old == row.deliverableState
                 new == [old EXCEPT !.age = @ + 1]
                 next == [row EXCEPT !.deliverableState = new]
      <4>1. row \in BoardRow /\ old \in Reading
        BY <2>3, <3>2 DEF BoardRow
      <4>2. new \in Reading /\ new.state = old.state
        <5>1. old.age + 1 \in 0 .. Cooldown
          BY <3>2, <4>1, DeliverablesAssumption DEF Reading
        <5> HIDE DEF old
        <5> QED BY <4>1, <5>1 DEF Reading
      <4>3. Older(row) = next
        BY <3>2, <4>1 DEF Older, BoardRow
      <4> HIDE DEF new
      <4>4. next \in BoardRow /\ next.deliverable = row.deliverable /\ next.deliverableState = new
        BY <4>1, <4>2 DEF BoardRow
      <4> HIDE DEF next
      <4>5. RowTrue(next)
        BY <2>3, <3>2, <4>2, <4>4 DEF RowTrue
      <4> QED BY <4>3, <4>4, <4>5
    <3> QED BY <3>1, <3>2
  <2>4. \A t \in Task : board'[t] \in BoardRow \cup {Nothing} /\ RowTrue(board'[t])
    BY <1>a, <2>1, <2>3 DEF BoardTrue
  <2>5. board' \in [Task -> BoardRow \cup {Nothing}]
    BY <2>1, <2>4
  <2>6. BoardTrue'
    BY <1>b, <2>4, <2>5 DEF BoardTrue, RowTrue, Published
  <2> QED BY <1>a, <1>c, <1>d, <2>1, <2>2, <2>6
<1>2. ASSUME NEW t \in Task, NEW d \in Artifact \cup {Nothing}, CreateTask(t, d)
      PROVE  DeliveryInv'
  <2> DEFINE row == [status |-> "todo", deliverable |-> d, deliverableState |-> Nothing]
  <2>1. board' = [board EXCEPT ![t] = row] /\ inserted' = t /\ UNCHANGED sinceRecheck
        /\ (UNCHANGED jobs \/ (d # Nothing /\ Schedule(t, d)))
    BY <1>2 DEF CreateTask
  <2>2. "todo" \in RowStatus
    BY DEF RowStatus, RECHECK_STATUSES, ToSet
  <2>3. row \in BoardRow /\ RowTrue(row)
    BY <2>2 DEF BoardRow, RowTrue
  <2> HIDE DEF row
  <2>4. BoardTrue'
    BY <1>e, <2>1, <2>3
  <2>5. JobsTrue'
    BY <1>a, <1>b, <1>d, <2>1, ScheduleKeeps
  <2>6. inserted' \in 0 .. Cardinality(Task)
    <3>1. t \in 1 .. Cardinality(Task) /\ Cardinality(Task) \in Nat
      BY DeliverablesAssumption, FS_CardinalityType
    <3> QED BY <2>1, <3>1
  <2> QED BY <1>a, <1>c, <2>1, <2>4, <2>5, <2>6
<1>3. ASSUME NEW t \in Task, NEW d \in Artifact, SetDeliverable(t, d)
      PROVE  DeliveryInv'
  <2> DEFINE row == WithDeliverable(board[t], d)
  <2>1. board[t] \in BoardRow /\ board' = [board EXCEPT ![t] = row] /\ Schedule(t, d)
        /\ UNCHANGED <<inserted, sinceRecheck>>
    BY <1>3, <1>a DEF SetDeliverable, BoardTrue
  <2>2. row \in BoardRow /\ row.deliverableState = Nothing
    BY <2>1 DEF WithDeliverable, BoardRow
  <2> HIDE DEF row
  <2>3. BoardTrue'
    BY <1>e, <2>1, <2>2 DEF RowTrue
  <2>4. JobsTrue'
    BY <1>a, <1>b, <2>1, ScheduleKeeps
  <2> QED BY <1>a, <1>c, <2>1, <2>3, <2>4
<1>4. ASSUME NEW t \in Task, NEW s \in RowStatus, MoveRow(t, s)
      PROVE  DeliveryInv'
  <2> DEFINE row == [board[t] EXCEPT !.status = s]
  <2>1. board[t] \in BoardRow /\ board[t] # Nothing /\ board' = [board EXCEPT ![t] = row]
        /\ UNCHANGED <<jobs, inserted, sinceRecheck>> /\ RowTrue(board[t])
    BY <1>4, <1>a DEF MoveRow, BoardTrue
  <2>2. row \in BoardRow /\ row.deliverable = board[t].deliverable
        /\ row.deliverableState = board[t].deliverableState
    BY <2>1 DEF BoardRow
  <2> HIDE DEF row
  <2>3. BoardTrue'
    BY <1>e, <2>1, <2>2 DEF RowTrue
  <2> QED BY <1>a, <1>c, <1>d, <2>1, <2>3
<1>5. ASSUME NEW t \in Task, DeleteRow(t)
      PROVE  DeliveryInv'
  <2>1. board' = [board EXCEPT ![t] = Nothing] /\ UNCHANGED <<jobs, inserted, sinceRecheck>>
    BY <1>5 DEF DeleteRow
  <2>2. BoardTrue'
    BY <1>e, <2>1 DEF RowTrue
  <2> QED BY <1>a, <1>c, <1>d, <2>1, <2>2
<1>6. ASSUME NEW j \in DOMAIN jobs, RecordDeliverableState(j)
      PROVE  DeliveryInv'
  <2> DEFINE job == jobs[j]
             row == board[job.task]
             new == [row EXCEPT !.deliverableState = [state |-> job.read, age |-> 0]]
  <2>1. /\ j \in 1 .. MaxJobs /\ job \in Job /\ job.read # Nothing
        /\ jobs' = [jobs EXCEPT ![j] = Nothing]
        /\ Published(job.deliverable, job.read)
        /\ UNCHANGED <<inserted, sinceRecheck>>
        /\ board' = IF SameDeliverable(row, job)
                    THEN [board EXCEPT ![job.task].deliverableState = [state |-> job.read, age |-> 0]]
                    ELSE board
    BY <1>6, <1>a DEF RecordDeliverableState, JobsTrue, ReadingsTrue
  <2>2. JobsTrue'
    BY <1>a, <1>b, <2>1 DEF JobsTrue, ReadingsTrue, Published
  <2>3. CASE ~SameDeliverable(row, job)
    <3>1. board' = board
      BY <2>1, <2>3
    <3>2. BoardTrue'
      BY <1>a, <1>b, <3>1 DEF BoardTrue, RowTrue, Published
    <3> QED BY <1>a, <1>c, <2>1, <2>2, <3>2
  <2>4. CASE SameDeliverable(row, job)
    <3>1. job.task \in Task /\ job.read \in State /\ row \in BoardRow
          /\ row.deliverable = job.deliverable /\ job.deliverable \in Artifact
      BY <1>a, <2>1, <2>4 DEF Job, SameDeliverable, BoardTrue
    <3>2. [state |-> job.read, age |-> 0] \in Reading
      BY <3>1, DeliverablesAssumption DEF Reading
    <3>3. board' = [board EXCEPT ![job.task] = new]
      BY <2>1, <2>4
    <3>4. new \in BoardRow /\ new.deliverable = job.deliverable
          /\ new.deliverableState = [state |-> job.read, age |-> 0]
      BY <3>1, <3>2 DEF BoardRow
    <3> HIDE DEF new
    <3>5. RowTrue(new)
      <4>1. job.deliverable # Nothing
        BY <3>1, DeliverablesAssumption
      <4> QED BY <2>1, <3>4, <4>1 DEF RowTrue
    <3>6. BoardTrue'
      BY <1>e, <3>1, <3>3, <3>4, <3>5
    <3> QED BY <1>a, <1>c, <2>1, <2>2, <3>6
  <2> QED BY <2>3, <2>4
<1> QED BY <1>1, <1>2, <1>3, <1>4, <1>5, <1>6

\* The tables of the deliverables keep their types, and a row that shows its artifact
\* delivered names one the registry has had, however resolutions overlap with each
\* other, with the cron and with the doors of the row (recordDeliverableState, update).
THEOREM ShownWasPublished == DeliverablesSpec => []DeliverablesSound
<1>1. DeliverablesInit => DeliveryInv
  BY DeliveryStarts
<1>2. DeliveryInv /\ [DeliverablesNext]_deliverableVars => DeliveryInv'
  <2>1. ASSUME DeliveryInv, DeliverablesNext
        PROVE  DeliveryInv'
    BY <2>1, OutsideKeeps, RowsKeep DEF DeliverablesNext
  <2>2. ASSUME DeliveryInv, UNCHANGED deliverableVars
        PROVE  DeliveryInv'
    BY <2>2 DEF deliverableVars, DeliveryInv, DeliverablesTyped, RegistryRemembered, ReadingsTrue,
                Published, DeliveredWasPublished
  <2> QED BY <2>1, <2>2
<1>3. DeliveryInv => DeliverablesSound
  BY DEF DeliveryInv, DeliverablesSound
<1> QED BY <1>1, <1>2, <1>3, PTL DEF DeliverablesSpec
=============================================================================
