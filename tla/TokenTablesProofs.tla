------------------------- MODULE TokenTablesProofs -------------------------
(***************************************************************************)
(* What a page of an index is and what a revocation leaves of a table, for *)
(* the proofs about both kinds of grants.                                  *)
(***************************************************************************)
EXTENDS TokenTables, FiniteSetTheorems, SequenceTheorems, WellFoundedInduction, TLAPS

\* A page that is not full is the whole of its index range.
LEMMA PageOfFew ==
  ASSUME NEW S \in SUBSET Nat, IsFiniteSet(S), Cardinality(S) <= Batch
  PROVE  Page(S) = S
<1> SUFFICES ASSUME NEW i \in S
             PROVE  Cardinality({j \in S : j < i}) < Batch
  BY DEF Page
<1> DEFINE below == {j \in S : j < i}
<1>1. below \in SUBSET S /\ below # S
  OBVIOUS
<1>2. /\ IsFiniteSet(below) /\ Cardinality(below) <= Cardinality(S)
      /\ Cardinality(below) # Cardinality(S)
  BY <1>1, FS_Subset
<1>3. Cardinality(below) \in Nat /\ Cardinality(S) \in Nat
  BY <1>2, FS_CardinalityType
<1> HIDE DEF below
<1>4. Cardinality(below) < Batch
  BY <1>2, <1>3, BatchAssumption
<1> QED BY <1>4 DEF below

\* The only row of an index range is on its first page.
LEMMA PageOfOne ==
  ASSUME NEW S \in SUBSET Nat, \A i, j \in S : i = j
  PROVE  Page(S) = S
<1> SUFFICES ASSUME NEW i \in S
             PROVE  Cardinality({j \in S : j < i}) < Batch
  BY DEF Page
<1>1. {j \in S : j < i} = {}
  <2>1. \A j \in S : j = i /\ ~(i < i)
    OBVIOUS
  <2>2. \A j \in S : ~(j < i)
    BY <2>1
  <2> QED BY <2>2
<1> QED BY <1>1, FS_EmptySet, BatchAssumption

\* The rows of a table are finitely many numbers.
LEMMA RowsFinite ==
  ASSUME NEW T, NEW rows \in Seq(T), NEW S \in SUBSET DOMAIN rows
  PROVE  S \in SUBSET Nat /\ IsFiniteSet(S) /\ Cardinality(S) \in Nat
<1>1. Len(rows) \in Nat /\ DOMAIN rows = 1 .. Len(rows)
  BY LenProperties
<1>2. IsFiniteSet(1 .. Len(rows))
  BY <1>1, FS_Interval
<1> QED BY <1>1, <1>2, FS_Subset, FS_CardinalityType

\* An index range has a first row, and its last one.
LEMMA FirstRow ==
  ASSUME NEW S \in SUBSET Nat, S # {}
  PROVE  \E x \in S : \A y \in S : x <= y
<1> DEFINE R == OpToRel(<, Nat)
<1>1. IsWellFoundedOn(R, Nat)
  BY NatLessThanWellFounded
<1>2. PICK x \in S : \A y \in S : ~ (<<y, x>> \in R)
  <2> HIDE DEF R
  <2> QED BY <1>1, WFMin
<1>3. \A y, z \in Nat : y < z => <<y, z>> \in R
  BY DEF OpToRel
<1> HIDE DEF R
<1>4. \A y \in S : ~(y < x)
  BY <1>2, <1>3
<1> QED BY <1>4

LEMMA LastRow ==
  ASSUME NEW n \in Nat, NEW S \in SUBSET (0 .. n), S # {}
  PROVE  \E x \in S : \A y \in S : y <= x
<1> DEFINE T == {k \in 0 .. n : n - k \in S}
<1>1. T \in SUBSET Nat /\ T # {}
  <2>1. PICK s \in S : TRUE
    OBVIOUS
  <2>2. n - s \in T
    BY <2>1
  <2> QED BY <2>2
<1>2. PICK k \in T : \A j \in T : k <= j
  BY <1>1, FirstRow
<1>3. n - k \in S /\ \A y \in S : n - y \in T
  OBVIOUS
<1>4. \A y \in S : y <= n - k
  BY <1>2, <1>3
<1> QED BY <1>3, <1>4

\* A row that is not on the page comes after every row that is.
LEMMA PageIsFirst ==
  ASSUME NEW S \in SUBSET Nat, IsFiniteSet(S), NEW i \in S, i \notin Page(S), NEW j \in Page(S)
  PROVE  j < i
<1> SUFFICES ASSUME ~(j < i) PROVE FALSE
  OBVIOUS
<1> DEFINE below(k) == {x \in S : x < k}
<1>1. j \in S /\ Cardinality(below(j)) < Batch /\ ~(Cardinality(below(i)) < Batch)
  BY DEF Page
<1>2. below(i) \in SUBSET below(j) /\ below(j) \in SUBSET S
  <2>1. \A x \in S : x < i => x < j
    BY <1>1
  <2> QED BY <2>1
<1>3. IsFiniteSet(below(j))
  BY <1>2, FS_Subset
<1>4. IsFiniteSet(below(i)) /\ Cardinality(below(i)) <= Cardinality(below(j))
  BY <1>2, <1>3, FS_Subset
<1>5. Cardinality(below(i)) \in Nat /\ Cardinality(below(j)) \in Nat
  BY <1>3, <1>4, FS_CardinalityType
<1> HIDE DEF below
<1> QED BY <1>1, <1>4, <1>5, BatchAssumption

\* A table whose rows are replaced, each by a row.
LEMMA MappedTable ==
  ASSUME NEW T, NEW rows \in Seq(T), NEW new, new = [i \in DOMAIN rows |-> new[i]],
         \A i \in DOMAIN rows : new[i] \in T
  PROVE  new \in Seq(T) /\ Len(new) = Len(rows) /\ DOMAIN new = DOMAIN rows
<1>1. Len(rows) \in Nat /\ DOMAIN rows = 1 .. Len(rows)
  BY LenProperties
<1>2. [i \in 1 .. Len(rows) |-> new[i]] \in Seq(T)
  BY <1>1, IsASeq
<1>3. new \in Seq(T) /\ DOMAIN new = DOMAIN rows
  BY <1>1, <1>2
<1>5. Len(new) = Len(rows)
  BY <1>1, <1>2, LenProperties
<1> QED BY <1>3, <1>5

RevokedRow(r) == [r EXCEPT !.revoked = TRUE]

\* A revocation changes rows of a table, and neither their number nor order.
LEMMA RevokedTable ==
  ASSUME NEW T, NEW rows \in Seq(T), NEW S,
         \A r \in T : RevokedRow(r) \in T
  PROVE  /\ Revoked(rows, S) \in Seq(T)
         /\ Len(Revoked(rows, S)) = Len(rows)
         /\ DOMAIN Revoked(rows, S) = DOMAIN rows
         /\ \A i \in DOMAIN rows :
              Revoked(rows, S)[i] = IF i \in S THEN RevokedRow(rows[i]) ELSE rows[i]
<1>1. Len(rows) \in Nat /\ DOMAIN rows = 1 .. Len(rows)
  BY LenProperties
<1> DEFINE e(i) == IF i \in S THEN RevokedRow(rows[i]) ELSE rows[i]
<1>2. Revoked(rows, S) = [i \in 1 .. Len(rows) |-> e(i)]
  BY <1>1 DEF Revoked, RevokedRow
<1>3. \A i \in 1 .. Len(rows) : e(i) \in T
  BY ElementOfSeq
<1> HIDE DEF e
<1>4. [i \in 1 .. Len(rows) |-> e(i)] \in Seq(T)
  BY <1>1, <1>3, IsASeq
<1>5. Len(Revoked(rows, S)) = Len(rows)
  BY <1>1, <1>2, <1>4, LenProperties
<1> QED BY <1>1, <1>2, <1>4, <1>5 DEF e

\* A new row is the last one, and the others stay as they are.
LEMMA AppendedTable ==
  ASSUME NEW T, NEW rows \in Seq(T), NEW row \in T
  PROVE  /\ Append(rows, row) \in Seq(T)
         /\ Len(Append(rows, row)) = Len(rows) + 1
         /\ DOMAIN Append(rows, row) = DOMAIN rows \cup {Len(rows) + 1}
         /\ Len(rows) \in Nat /\ Len(rows) + 1 \notin DOMAIN rows
         /\ \A i \in DOMAIN rows : Append(rows, row)[i] = rows[i]
         /\ Append(rows, row)[Len(rows) + 1] = row
<1>1. Len(rows) \in Nat /\ DOMAIN rows = 1 .. Len(rows)
  BY LenProperties
<1>2. /\ Append(rows, row) \in Seq(T) /\ Len(Append(rows, row)) = Len(rows) + 1
      /\ \A i \in 1 .. Len(rows) : Append(rows, row)[i] = rows[i]
      /\ Append(rows, row)[Len(rows) + 1] = row
  BY AppendProperties
<1>3. DOMAIN Append(rows, row) = 1 .. Len(rows) + 1
  BY <1>2, LenProperties
<1> QED BY <1>1, <1>2, <1>3
=============================================================================
