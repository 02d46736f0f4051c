---------------------------- MODULE TokenTables ----------------------------
(***************************************************************************)
(* The token tables of convex/oauth.ts as its revocations read them: rows  *)
(* numbered in the order they were inserted, each with its family and its  *)
(* revocation, and indexes read one batch per transaction.                 *)
(***************************************************************************)
EXTENDS Integers, Sequences, FiniteSets

CONSTANT Batch     \* FAMILY_REVOKE_BATCH and the batches of the other revocations

ASSUME BatchAssumption == Batch \in Nat \ {0}

LiveRows(rows) == {i \in DOMAIN rows : ~rows[i].revoked}

\* by_familyId: live rows that carry the family's ID.
LiveInFamily(rows, f) == {i \in DOMAIN rows : rows[i].family = f /\ ~rows[i].revoked}

\* Variant: the page comes back empty.
EmptyPage(S) == {}

\* The first Batch rows of an index range.
Page(S) == {i \in S : Cardinality({j \in S : j < i}) < Batch}

Revoked(rows, S) == [i \in DOMAIN rows |-> IF i \in S THEN [rows[i] EXCEPT !.revoked = TRUE]
                                                     ELSE rows[i]]

\* Variant: a full batch is the last one.
NothingLeft(F, refresh, access) == {}

\* revokeFamilyBatch: the families a batch did not finish.
Unfinished(F, refresh, access) ==
  {f \in F : \/ Cardinality(LiveInFamily(refresh, f)) > Batch
             \/ Cardinality(LiveInFamily(access, f)) > Batch}
=============================================================================
