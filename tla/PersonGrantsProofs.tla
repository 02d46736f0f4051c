------------------------- MODULE PersonGrantsProofs -------------------------
(***************************************************************************)
(* One person's grants, for any number of codes, requests, agents, tokens  *)
(* and any size of a batch: the tables are well typed, no family has two   *)
(* refresh tokens to exchange or an access token past its deadline, a code *)
(* is redeemed and a token exchanged once, and the triggers that revoke    *)
(* reach what they set out to revoke.                                      *)
(***************************************************************************)
EXTENDS PersonGrants, TokenTablesProofs

-----------------------------------------------------------------------------
(* The invariant.                                                          *)

FamilyJob(f) == [kind |-> "family", of |-> f]
AgentJob(a) == [kind |-> "agent", of |-> a]
MemberJob == [kind |-> "member"]

\* A successor's family began with a first token, spent by now, that acts as
\* the same one; the token it succeeds is spent, and has no other successor.
Succession ==
  /\ \A i \in DOMAIN refreshTokens : refreshTokens[i].family # 0 =>
       LET first == refreshTokens[refreshTokens[i].family] IN
       /\ first.family = 0 /\ first.revoked /\ first.actsAs = refreshTokens[i].actsAs
       /\ refreshTokens[refreshTokens[i].parent].revoked
  /\ \A i, j \in DOMAIN refreshTokens :
       i # j /\ refreshTokens[i].parent = refreshTokens[j].parent => refreshTokens[i].parent = 0

\* An access token is minted while its family may be rotated.
AccessInTime ==
  \A i \in DOMAIN accessTokens : accessTokens[i].family # 0 =>
    accessTokens[i].expiresAt
      <= refreshTokens[accessTokens[i].family].createdAt + FamilyMax + AccessTtl

\* No refresh token of the family is live.
Ended(f) ==
  /\ f \in DOMAIN refreshTokens /\ refreshTokens[f].family = 0
  /\ \A i \in DOMAIN refreshTokens : FamilyOf(i) = f => refreshTokens[i].revoked

\* The first batch of a family ends its refresh tokens; what is scheduled is
\* for its access tokens.
JobsEnded == \A f \in Nat : FamilyJob(f) \in scheduled => Ended(f)

ReplayedEnded ==
  \A f \in replayed : /\ Ended(f)
                      /\ FamilyJob(f) \in scheduled
                           \/ \A i \in DOMAIN accessTokens : accessTokens[i].family = f => accessTokens[i].revoked

\* What is to be revoked, and is not, has a continuation that comes to it.
RefreshCovered(i) ==
  /\ i \in DOMAIN refreshTokens
  /\ \/ refreshTokens[i].revoked
     \/ MemberJob \in scheduled
     \/ AgentJob(refreshTokens[i].actsAs) \in scheduled

AccessCovered(i) ==
  /\ i \in DOMAIN accessTokens
  /\ \/ accessTokens[i].revoked
     \/ MemberJob \in scheduled
     \/ FamilyJob(accessTokens[i].family) \in scheduled
     \/ \E j \in DOMAIN refreshTokens :
          /\ FamilyOf(j) = accessTokens[i].family /\ ~refreshTokens[j].revoked
          /\ AgentJob(refreshTokens[j].actsAs) \in scheduled

DoomedCovered ==
  /\ \A i : <<"refresh", i>> \in doomed => RefreshCovered(i)
  /\ \A i : <<"access", i>> \in doomed => AccessCovered(i)

\* An exchange past its first call has a code; who won it has used it up.
CodesSpent ==
  \A r \in Request :
    /\ requests[r].pc \in {"redeemed", "authorised", "retry"} \/ requests[r].won =>
         requests[r].code \in Code
    /\ requests[r].won => requests[r].pc # "idle" /\ codes[requests[r].code].state \in {"used", "purged"}
    /\ \A q \in Request : q # r /\ requests[r].won /\ requests[q].won => requests[q].code # requests[r].code

GrantInv ==
  /\ TypeOK /\ OneLiveRefresh /\ Succession /\ AccessInTime
  /\ JobsEnded /\ ReplayedEnded /\ DoomedCovered
  /\ CodesSpent

-----------------------------------------------------------------------------
(* The rows.                                                               *)

LEMMA RowsTyped ==
  ASSUME TypeOK
  PROVE  /\ Len(refreshTokens) \in Nat /\ DOMAIN refreshTokens = 1 .. Len(refreshTokens)
         /\ Len(accessTokens) \in Nat /\ DOMAIN accessTokens = 1 .. Len(accessTokens)
         /\ \A i \in DOMAIN refreshTokens :
              /\ refreshTokens[i] \in RefreshRow
              /\ refreshTokens[i].family < i /\ refreshTokens[i].parent < i
              /\ (refreshTokens[i].family = 0) <=> (refreshTokens[i].parent = 0)
         /\ \A i \in DOMAIN accessTokens :
              /\ accessTokens[i] \in AccessRow
              /\ accessTokens[i].family # 0 =>
                   /\ accessTokens[i].family \in DOMAIN refreshTokens
                   /\ refreshTokens[accessTokens[i].family].family = 0
<1>1. refreshTokens \in Seq(RefreshRow) /\ accessTokens \in Seq(AccessRow)
  BY DEF TypeOK
<1>2. /\ Len(refreshTokens) \in Nat /\ DOMAIN refreshTokens = 1 .. Len(refreshTokens)
      /\ Len(accessTokens) \in Nat /\ DOMAIN accessTokens = 1 .. Len(accessTokens)
  BY <1>1, LenProperties
<1>3. \A i \in DOMAIN refreshTokens : refreshTokens[i] \in RefreshRow
  BY <1>1, <1>2, ElementOfSeq
<1>4. \A i \in DOMAIN accessTokens : accessTokens[i] \in AccessRow
  BY <1>1, <1>2, ElementOfSeq
<1> QED BY <1>2, <1>3, <1>4 DEF TypeOK

\* A token is of the family of its first token, which has none of its own.
LEMMA FamilyOfRow ==
  ASSUME TypeOK, Succession, NEW i \in DOMAIN refreshTokens
  PROVE  /\ FamilyOf(i) \in DOMAIN refreshTokens
         /\ refreshTokens[FamilyOf(i)].family = 0
         /\ refreshTokens[FamilyOf(i)].actsAs = refreshTokens[i].actsAs
         /\ \A f \in DOMAIN refreshTokens :
              FamilyOf(i) = f <=> (refreshTokens[i].family = f \/ (i = f /\ refreshTokens[i].family = 0))
<1>1. /\ DOMAIN refreshTokens = 1 .. Len(refreshTokens) /\ Len(refreshTokens) \in Nat
      /\ refreshTokens[i].family \in Nat /\ refreshTokens[i].family < i
  BY RowsTyped DEF RefreshRow
<1>2. CASE refreshTokens[i].family = 0
  BY <1>1, <1>2 DEF FamilyOf
<1>3. CASE refreshTokens[i].family # 0
  <2>1. refreshTokens[i].family \in DOMAIN refreshTokens
    BY <1>1, <1>3
  <2> QED BY <1>1, <1>3, <2>1 DEF FamilyOf, Succession
<1> QED BY <1>2, <1>3

\* Rows are revoked and nothing else of them changes.
RefreshKept ==
  /\ refreshTokens' \in Seq(RefreshRow) /\ Len(refreshTokens') = Len(refreshTokens)
  /\ DOMAIN refreshTokens' = DOMAIN refreshTokens
  /\ \A i \in DOMAIN refreshTokens :
       /\ refreshTokens'[i].family = refreshTokens[i].family
       /\ refreshTokens'[i].parent = refreshTokens[i].parent
       /\ refreshTokens'[i].actsAs = refreshTokens[i].actsAs
       /\ refreshTokens'[i].createdAt = refreshTokens[i].createdAt
       /\ refreshTokens[i].revoked => refreshTokens'[i].revoked

AccessKept ==
  /\ accessTokens' \in Seq(AccessRow) /\ Len(accessTokens') = Len(accessTokens)
  /\ DOMAIN accessTokens' = DOMAIN accessTokens
  /\ \A i \in DOMAIN accessTokens :
       /\ accessTokens'[i].family = accessTokens[i].family
       /\ accessTokens'[i].expiresAt = accessTokens[i].expiresAt
       /\ accessTokens[i].revoked => accessTokens'[i].revoked

\* The family of a row is what it was.
LEMMA FamilyKept ==
  ASSUME RefreshKept
  PROVE  \A i \in DOMAIN refreshTokens : FamilyOf(i)' = FamilyOf(i)
BY DEF RefreshKept, FamilyOf

LEMMA RevokedNone ==
  ASSUME NEW T, NEW rows \in Seq(T)
  PROVE  Revoked(rows, {}) = rows
<1>1. rows = [i \in DOMAIN rows |-> rows[i]]
  BY LenProperties
<1> QED BY <1>1 DEF Revoked

LEMMA RevokedRefresh ==
  ASSUME NEW rows \in Seq(RefreshRow), NEW S
  PROVE  /\ Revoked(rows, S) \in Seq(RefreshRow)
         /\ Len(Revoked(rows, S)) = Len(rows) /\ DOMAIN Revoked(rows, S) = DOMAIN rows
         /\ \A i \in DOMAIN rows :
              /\ Revoked(rows, S)[i].family = rows[i].family
              /\ Revoked(rows, S)[i].parent = rows[i].parent
              /\ Revoked(rows, S)[i].actsAs = rows[i].actsAs
              /\ Revoked(rows, S)[i].createdAt = rows[i].createdAt
              /\ Revoked(rows, S)[i].revoked <=> (rows[i].revoked \/ i \in S)
<1>1. \A r \in RefreshRow : RevokedRow(r) \in RefreshRow
  BY DEF RefreshRow, RevokedRow
<1>2. \A i \in DOMAIN rows : rows[i] \in RefreshRow
  BY LenProperties, ElementOfSeq
<1>3. /\ Revoked(rows, S) \in Seq(RefreshRow)
      /\ Len(Revoked(rows, S)) = Len(rows) /\ DOMAIN Revoked(rows, S) = DOMAIN rows
      /\ \A i \in DOMAIN rows :
           Revoked(rows, S)[i] = IF i \in S THEN RevokedRow(rows[i]) ELSE rows[i]
  BY <1>1, RevokedTable
<1>4. ASSUME NEW i \in DOMAIN rows
      PROVE  /\ Revoked(rows, S)[i].family = rows[i].family
             /\ Revoked(rows, S)[i].parent = rows[i].parent
             /\ Revoked(rows, S)[i].actsAs = rows[i].actsAs
             /\ Revoked(rows, S)[i].createdAt = rows[i].createdAt
             /\ Revoked(rows, S)[i].revoked <=> (rows[i].revoked \/ i \in S)
  <2>1. rows[i] \in RefreshRow
    BY <1>2
  <2>2. CASE i \in S
    BY <1>3, <2>1, <2>2 DEF RefreshRow, RevokedRow
  <2>3. CASE i \notin S
    BY <1>3, <2>3
  <2> QED BY <2>2, <2>3
<1> QED BY <1>3, <1>4

LEMMA RevokedAccess ==
  ASSUME NEW rows \in Seq(AccessRow), NEW S
  PROVE  /\ Revoked(rows, S) \in Seq(AccessRow)
         /\ Len(Revoked(rows, S)) = Len(rows) /\ DOMAIN Revoked(rows, S) = DOMAIN rows
         /\ \A i \in DOMAIN rows :
              /\ Revoked(rows, S)[i].family = rows[i].family
              /\ Revoked(rows, S)[i].expiresAt = rows[i].expiresAt
              /\ Revoked(rows, S)[i].revoked <=> (rows[i].revoked \/ i \in S)
<1>1. \A r \in AccessRow : RevokedRow(r) \in AccessRow
  BY DEF AccessRow, RevokedRow
<1>2. \A i \in DOMAIN rows : rows[i] \in AccessRow
  BY LenProperties, ElementOfSeq
<1>3. /\ Revoked(rows, S) \in Seq(AccessRow)
      /\ Len(Revoked(rows, S)) = Len(rows) /\ DOMAIN Revoked(rows, S) = DOMAIN rows
      /\ \A i \in DOMAIN rows :
           Revoked(rows, S)[i] = IF i \in S THEN RevokedRow(rows[i]) ELSE rows[i]
  BY <1>1, RevokedTable
<1>4. ASSUME NEW i \in DOMAIN rows
      PROVE  /\ Revoked(rows, S)[i].family = rows[i].family
             /\ Revoked(rows, S)[i].expiresAt = rows[i].expiresAt
             /\ Revoked(rows, S)[i].revoked <=> (rows[i].revoked \/ i \in S)
  <2>1. rows[i] \in AccessRow
    BY <1>2
  <2>2. CASE i \in S
    BY <1>3, <2>1, <2>2 DEF AccessRow, RevokedRow
  <2>3. CASE i \notin S
    BY <1>3, <2>3
  <2> QED BY <2>2, <2>3
<1> QED BY <1>3, <1>4

-----------------------------------------------------------------------------
(* A batch.                                                                *)

\* What a batch of the families of F does to the tables: their refresh tokens
\* are ended, their access tokens too or a continuation has been scheduled.
FamiliesEnded(F, queue) ==
  /\ \A f \in F : f \in DOMAIN refreshTokens /\ refreshTokens[f].family = 0
  /\ RefreshKept /\ AccessKept
  /\ \A i \in DOMAIN refreshTokens : FamilyOf(i) \in F => refreshTokens'[i].revoked
  /\ \A i \in DOMAIN accessTokens : accessTokens[i].family \in F =>
       accessTokens'[i].revoked \/ FamilyJob(accessTokens[i].family) \in scheduled'
  /\ queue \subseteq scheduled' /\ scheduled' \subseteq queue \cup {FamilyJob(f) : f \in F}

\* F without first tokens to end are families whose first token is spent.
LEMMA EndFamiliesEnds ==
  ASSUME TypeOK, OneLiveRefresh, Succession, NEW R, NEW A, NEW queue,
         NEW F \in SUBSET DOMAIN refreshTokens, NEW Roots,
         \A f \in F : refreshTokens[f].family = 0 /\ (f \in Roots \/ refreshTokens[f].revoked),
         \A i \in DOMAIN refreshTokens : i \in R \cup Roots => FamilyOf(i) \in F,
         EndFamilies(F, Roots, Revoked(refreshTokens, R), Revoked(accessTokens, A), queue)
  PROVE  /\ FamiliesEnded(F, queue)
         /\ \A i \in DOMAIN refreshTokens :
              refreshTokens'[i].revoked /\ ~refreshTokens[i].revoked => FamilyOf(i) \in F
         /\ \A i \in DOMAIN refreshTokens : i \in R => refreshTokens'[i].revoked
         /\ \A i \in DOMAIN accessTokens : i \in A => accessTokens'[i].revoked
<1> DEFINE refresh == Revoked(refreshTokens, R)
           access == Revoked(accessTokens, A)
           ends == Roots \cup UNION {Page(LiveInFamily(refresh, f)) : f \in F}
           stops == UNION {Page(LiveInFamily(access, f)) : f \in F}
<1>a. refreshTokens \in Seq(RefreshRow) /\ accessTokens \in Seq(AccessRow)
  BY DEF TypeOK
<1>1. /\ refreshTokens' = Revoked(refresh, ends) /\ accessTokens' = Revoked(access, stops)
      /\ scheduled' = queue \cup {[kind |-> "family", of |-> f] : f \in Unfinished(F, refresh, access)}
  BY DEF EndFamilies
<1>2. /\ refresh \in Seq(RefreshRow)
      /\ Len(refresh) = Len(refreshTokens) /\ DOMAIN refresh = DOMAIN refreshTokens
      /\ \A i \in DOMAIN refreshTokens :
              /\ refresh[i].family = refreshTokens[i].family
              /\ refresh[i].parent = refreshTokens[i].parent
              /\ refresh[i].actsAs = refreshTokens[i].actsAs
              /\ refresh[i].createdAt = refreshTokens[i].createdAt
              /\ refresh[i].revoked <=> (refreshTokens[i].revoked \/ i \in R)
  BY <1>a, RevokedRefresh
<1>3. /\ access \in Seq(AccessRow)
      /\ Len(access) = Len(accessTokens) /\ DOMAIN access = DOMAIN accessTokens
      /\ \A i \in DOMAIN accessTokens :
              /\ access[i].family = accessTokens[i].family
              /\ access[i].expiresAt = accessTokens[i].expiresAt
              /\ access[i].revoked <=> (accessTokens[i].revoked \/ i \in A)
  BY <1>a, RevokedAccess
<1> HIDE DEF refresh, access
<1>4. /\ refreshTokens' \in Seq(RefreshRow)
      /\ Len(refreshTokens') = Len(refresh) /\ DOMAIN refreshTokens' = DOMAIN refresh
      /\ \A i \in DOMAIN refresh :
              /\ refreshTokens'[i].family = refresh[i].family
              /\ refreshTokens'[i].parent = refresh[i].parent
              /\ refreshTokens'[i].actsAs = refresh[i].actsAs
              /\ refreshTokens'[i].createdAt = refresh[i].createdAt
              /\ refreshTokens'[i].revoked <=> (refresh[i].revoked \/ i \in ends)
  <2> HIDE DEF ends
  <2> QED BY <1>1, <1>2, RevokedRefresh
<1>5. /\ accessTokens' \in Seq(AccessRow)
      /\ Len(accessTokens') = Len(access) /\ DOMAIN accessTokens' = DOMAIN access
      /\ \A i \in DOMAIN access :
              /\ accessTokens'[i].family = access[i].family
              /\ accessTokens'[i].expiresAt = access[i].expiresAt
              /\ accessTokens'[i].revoked <=> (access[i].revoked \/ i \in stops)
  <2> HIDE DEF stops
  <2> QED BY <1>1, <1>3, RevokedAccess
<1>6. RefreshKept /\ AccessKept
  <2> HIDE DEF ends, stops
  <2> QED BY <1>2, <1>3, <1>4, <1>5 DEF RefreshKept, AccessKept
<1>7. ASSUME NEW f \in F
      PROVE  /\ \A i \in DOMAIN refreshTokens : refreshTokens[i].family = f => refreshTokens'[i].revoked
             /\ LiveInFamily(refresh, f) \in SUBSET DOMAIN refresh
             /\ \A i, j \in LiveInFamily(refresh, f) : i = j
  <2>0. f # 0
    BY RowsTyped
  <2>1. \A i, j \in LiveInFamily(refresh, f) : i = j
    BY <1>2, <2>0 DEF LiveInFamily, OneLiveRefresh, FamilyOf
  <2>2. LiveInFamily(refresh, f) \in SUBSET Nat
    BY <1>2, RowsTyped DEF LiveInFamily
  <2>3. Page(LiveInFamily(refresh, f)) = LiveInFamily(refresh, f)
    BY <2>1, <2>2, PageOfOne
  <2>4. ASSUME NEW i \in DOMAIN refreshTokens, refreshTokens[i].family = f
        PROVE  refreshTokens'[i].revoked
    <3>1. CASE refresh[i].revoked
      BY <1>2, <1>4, <3>1
    <3>2. CASE ~refresh[i].revoked
      <4>1. i \in LiveInFamily(refresh, f)
        BY <1>2, <2>4, <3>2 DEF LiveInFamily
      <4>2. i \in ends
        BY <2>3, <4>1
      <4> QED BY <1>2, <1>4, <4>2
    <3> QED BY <3>1, <3>2
  <2> QED BY <2>1, <2>4 DEF LiveInFamily
<1>8. ASSUME NEW i \in DOMAIN refreshTokens, FamilyOf(i) \in F
      PROVE  refreshTokens'[i].revoked
  <2>1. refreshTokens[i].family = FamilyOf(i) \/ i = FamilyOf(i)
    BY DEF FamilyOf
  <2>2. CASE refreshTokens[i].family = FamilyOf(i)
    BY <1>7, <1>8, <2>2
  <2>3. CASE i = FamilyOf(i)
    <3>1. i \in Roots \/ refreshTokens[i].revoked
      BY <1>8, <2>3
    <3>2. i \in ends \/ refresh[i].revoked
      BY <1>2, <3>1
    <3> QED BY <1>2, <1>4, <3>2
  <2> QED BY <2>1, <2>2, <2>3
<1>9. ASSUME NEW i \in DOMAIN accessTokens, accessTokens[i].family \in F
      PROVE  accessTokens'[i].revoked \/ FamilyJob(accessTokens[i].family) \in scheduled'
  <2> DEFINE f == accessTokens[i].family
             live == LiveInFamily(access, f)
  <2>1. live \in SUBSET Nat /\ IsFiniteSet(live) /\ Cardinality(live) \in Nat
    BY <1>3, RowsFinite DEF LiveInFamily
  <2>2. CASE Cardinality(live) > Batch
    <3>1. f \in Unfinished(F, refresh, access)
      BY <1>9, <2>2 DEF Unfinished
    <3> QED BY <1>1, <3>1 DEF FamilyJob
  <2>3. CASE ~(Cardinality(live) > Batch)
    <3>1. Cardinality(live) <= Batch
      <4> HIDE DEF live
      <4> QED BY <2>1, <2>3, BatchAssumption
    <3>2. Page(live) = live
      <4> HIDE DEF live
      <4> QED BY <2>1, <3>1, PageOfFew
    <3>3. CASE access[i].revoked
      BY <1>3, <1>5, <3>3
    <3>4. CASE ~access[i].revoked
      <4>1. i \in live
        BY <1>3, <3>4 DEF LiveInFamily
      <4>2. i \in stops
        BY <1>9, <3>2, <4>1
      <4> QED BY <1>3, <1>5, <4>2
    <3> QED BY <3>3, <3>4
  <2> QED BY <2>2, <2>3
<1>10. queue \subseteq scheduled' /\ scheduled' \subseteq queue \cup {FamilyJob(f) : f \in F}
  BY <1>1 DEF Unfinished, FamilyJob
<1>11. ASSUME NEW i \in DOMAIN refreshTokens,
              refreshTokens'[i].revoked, ~refreshTokens[i].revoked
       PROVE  FamilyOf(i) \in F
  <2>1. i \in R \/ i \in ends
    BY <1>2, <1>4, <1>11
  <2>2. ASSUME NEW f \in F, i \in Page(LiveInFamily(refresh, f))
        PROVE  FamilyOf(i) = f
    <3>1. refreshTokens[i].family = f /\ f # 0
      BY <1>2, <2>2, RowsTyped DEF Page, LiveInFamily
    <3> QED BY <3>1 DEF FamilyOf
  <2> QED BY <2>1, <2>2
<1>12. \A i \in DOMAIN refreshTokens : i \in R => refreshTokens'[i].revoked
  <2> HIDE DEF ends
  <2> QED BY <1>2, <1>4
<1>13. \A i \in DOMAIN accessTokens : i \in A => accessTokens'[i].revoked
  <2> HIDE DEF stops
  <2> QED BY <1>3, <1>5
<1> QED BY <1>6, <1>8, <1>9, <1>10, <1>11, <1>12, <1>13 DEF FamiliesEnded

-----------------------------------------------------------------------------
(* A revocation keeps the invariant.                                       *)

NothingLive ==
  /\ \A i \in DOMAIN refreshTokens : refreshTokens[i].revoked
  /\ \A i \in DOMAIN accessTokens : accessTokens[i].revoked

\* What it leaves to do: no continuation is lost but of families it has gone
\* through again, and no other family of an agent's live token is left alone.
QueueKept(F, queue) ==
  /\ \A g \in Nat : FamilyJob(g) \in queue => FamilyJob(g) \in scheduled
  /\ \A g : FamilyJob(g) \in scheduled => FamilyJob(g) \in queue \/ g \in F
  /\ MemberJob \in scheduled => MemberJob \in queue \/ NothingLive'
  /\ \A i \in DOMAIN refreshTokens :
       ~refreshTokens[i].revoked /\ AgentJob(refreshTokens[i].actsAs) \in scheduled =>
         AgentJob(refreshTokens[i].actsAs) \in queue \/ FamilyOf(i) \in F

JobRow == [kind : {"family"}, of : Nat] \cup [kind : {"member"}] \cup [kind : {"agent"}, of : Agent]

LEMMA FamilyJobIs ==
  /\ \A f \in Nat : FamilyJob(f) \in JobRow
  /\ \A f, g : FamilyJob(f) = FamilyJob(g) => f = g
  /\ \A f, a : FamilyJob(f) # AgentJob(a)
  /\ \A f : FamilyJob(f) # MemberJob
  /\ \A a, b : AgentJob(a) = AgentJob(b) => a = b
  /\ \A a : AgentJob(a) # MemberJob
  /\ MemberJob \in JobRow
  /\ \A a \in Agent : AgentJob(a) \in JobRow
BY DEF FamilyJob, AgentJob, MemberJob, JobRow

LEMMA TypeKept ==
  ASSUME TypeOK, RefreshKept, AccessKept, scheduled' \subseteq JobRow,
         UNCHANGED <<now, codes>>, requests' \in [Request -> Exchange],
         member' \in BOOLEAN, mappingActive' \in BOOLEAN,
         agents' \in [Agent -> {"listed", "unlisted", "inactive"}],
         doomed' \subseteq {"refresh", "access"} \X Nat, replayed' \subseteq Nat
  PROVE  TypeOK'
<1>1. \A i \in DOMAIN refreshTokens' :
       LET r == refreshTokens'[i] IN
         /\ r.family < i /\ r.parent < i
         /\ (r.family = 0) <=> (r.parent = 0)
  BY RowsTyped DEF RefreshKept
<1>2. \A i \in DOMAIN accessTokens' :
       LET f == accessTokens'[i].family IN
         f # 0 => f \in DOMAIN refreshTokens' /\ refreshTokens'[f].family = 0
  BY RowsTyped DEF RefreshKept, AccessKept
<1>3. refreshTokens' \in Seq(RefreshRow) /\ accessTokens' \in Seq(AccessRow)
  BY DEF RefreshKept, AccessKept
<1>4. now' \in Nat /\ codes' \in [Code -> CodeRow]
  BY DEF TypeOK
<1> QED BY <1>1, <1>2, <1>3, <1>4 DEF TypeOK, JobRow

LEMMA RowsKept ==
  ASSUME TypeOK, OneLiveRefresh, Succession, AccessInTime, RefreshKept, AccessKept
  PROVE  OneLiveRefresh' /\ Succession' /\ AccessInTime'
<1>1. OneLiveRefresh'
  BY FamilyKept DEF OneLiveRefresh, RefreshKept
<1>2. Succession'
  <2>1. ASSUME NEW i \in DOMAIN refreshTokens', refreshTokens'[i].family # 0
        PROVE  LET first == refreshTokens'[refreshTokens'[i].family] IN
               /\ first.family = 0 /\ first.revoked /\ first.actsAs = refreshTokens'[i].actsAs
               /\ refreshTokens'[refreshTokens'[i].parent].revoked
    <3>1. /\ i \in DOMAIN refreshTokens /\ refreshTokens[i].family # 0
          /\ refreshTokens'[i].family = refreshTokens[i].family
          /\ refreshTokens'[i].parent = refreshTokens[i].parent
          /\ refreshTokens'[i].actsAs = refreshTokens[i].actsAs
      BY <2>1 DEF RefreshKept
    <3>2. refreshTokens[i].family \in DOMAIN refreshTokens /\ refreshTokens[i].parent \in DOMAIN refreshTokens
      BY <3>1, RowsTyped DEF RefreshRow
    <3> QED BY <3>1, <3>2 DEF Succession, RefreshKept
  <2>2. \A i, j \in DOMAIN refreshTokens' :
          i # j /\ refreshTokens'[i].parent = refreshTokens'[j].parent => refreshTokens'[i].parent = 0
    BY DEF Succession, RefreshKept
  <2> QED BY <2>1, <2>2 DEF Succession
<1>3. AccessInTime'
  <2> SUFFICES ASSUME NEW i \in DOMAIN accessTokens', accessTokens'[i].family # 0
               PROVE  accessTokens'[i].expiresAt
                        <= refreshTokens'[accessTokens'[i].family].createdAt + FamilyMax + AccessTtl
    BY DEF AccessInTime
  <2>1. /\ i \in DOMAIN accessTokens /\ accessTokens[i].family # 0
        /\ accessTokens'[i].family = accessTokens[i].family
        /\ accessTokens'[i].expiresAt = accessTokens[i].expiresAt
    BY DEF AccessKept
  <2>2. accessTokens[i].family \in DOMAIN refreshTokens
    BY <2>1, RowsTyped
  <2> QED BY <2>1, <2>2 DEF AccessInTime, RefreshKept
<1> QED BY <1>1, <1>2, <1>3

LEMMA EndedKept ==
  ASSUME RefreshKept, NEW f, Ended(f)
  PROVE  Ended(f)'
BY FamilyKept DEF Ended, RefreshKept

\* The jobs of the families a batch went through, and of those replayed.
LEMMA JobsKept ==
  ASSUME TypeOK, Succession, JobsEnded, ReplayedEnded,
         NEW F \in SUBSET DOMAIN refreshTokens, NEW queue, FamiliesEnded(F, queue), QueueKept(F, queue),
         replayed' \subseteq replayed \cup F
  PROVE  JobsEnded' /\ ReplayedEnded'
<1>1. RefreshKept /\ AccessKept
  BY DEF FamiliesEnded
<1>2. ASSUME NEW f \in F
      PROVE  Ended(f)'
  BY <1>1, FamilyKept DEF Ended, FamiliesEnded, RefreshKept
<1>3. JobsEnded'
  <2> SUFFICES ASSUME NEW f \in Nat, FamilyJob(f) \in scheduled'
               PROVE  Ended(f)'
    BY DEF JobsEnded
  <2>1. FamilyJob(f) \in queue \/ f \in F
    BY FamilyJobIs DEF FamiliesEnded
  <2>2. CASE FamilyJob(f) \in queue
    BY <1>1, <2>2, EndedKept DEF JobsEnded, QueueKept
  <2> QED BY <1>2, <2>1, <2>2
<1>4. ReplayedEnded'
  <2> SUFFICES ASSUME NEW f \in replayed'
               PROVE  /\ Ended(f)'
                      /\ FamilyJob(f) \in scheduled'
                           \/ \A i \in DOMAIN accessTokens' :
                                accessTokens'[i].family = f => accessTokens'[i].revoked
    BY DEF ReplayedEnded
  <2>1. CASE f \in F
    <3>1. \A i \in DOMAIN accessTokens' : accessTokens'[i].family = f =>
            accessTokens'[i].revoked \/ FamilyJob(f) \in scheduled'
      BY <1>1, <2>1 DEF FamiliesEnded, AccessKept
    <3> QED BY <1>2, <2>1, <3>1
  <2>2. CASE f \notin F
    <3>1. f \in replayed
      BY <2>2
    <3>2. Ended(f)'
      BY <1>1, <3>1, EndedKept DEF ReplayedEnded
    <3>3. CASE FamilyJob(f) \in scheduled
      BY <2>2, <3>2, <3>3 DEF QueueKept, FamiliesEnded
    <3>4. CASE \A i \in DOMAIN accessTokens : accessTokens[i].family = f => accessTokens[i].revoked
      BY <1>1, <3>2, <3>4 DEF AccessKept
    <3> QED BY <3>1, <3>3, <3>4 DEF ReplayedEnded
  <2> QED BY <2>1, <2>2
<1> QED BY <1>3, <1>4

\* What was to be revoked still is.
LEMMA DoomKept ==
  ASSUME TypeOK, DoomedCovered,
         NEW F \in SUBSET DOMAIN refreshTokens, NEW queue, FamiliesEnded(F, queue), QueueKept(F, queue),
         \A i \in DOMAIN refreshTokens :
           refreshTokens'[i].revoked /\ ~refreshTokens[i].revoked => FamilyOf(i) \in F
  PROVE  /\ \A i : <<"refresh", i>> \in doomed => RefreshCovered(i)'
         /\ \A i : <<"access", i>> \in doomed => AccessCovered(i)'
<1>1. RefreshKept /\ AccessKept /\ queue \subseteq scheduled'
  BY DEF FamiliesEnded
<1>2. ASSUME NEW i, <<"refresh", i>> \in doomed
      PROVE  RefreshCovered(i)'
  <2>1. RefreshCovered(i)
    BY <1>2 DEF DoomedCovered
  <2>2. i \in DOMAIN refreshTokens /\ i \in DOMAIN refreshTokens'
    BY <1>1, <2>1 DEF RefreshCovered, RefreshKept
  <2>3. CASE refreshTokens[i].revoked
    BY <1>1, <2>2, <2>3 DEF RefreshCovered, RefreshKept
  <2>4. CASE MemberJob \in scheduled
    BY <1>1, <2>2, <2>4 DEF RefreshCovered, QueueKept, NothingLive
  <2>5. CASE ~refreshTokens[i].revoked /\ AgentJob(refreshTokens[i].actsAs) \in scheduled
    <3>1. CASE AgentJob(refreshTokens[i].actsAs) \in queue
      BY <1>1, <2>2, <3>1 DEF RefreshCovered, RefreshKept
    <3>2. CASE FamilyOf(i) \in F
      BY <2>2, <3>2 DEF RefreshCovered, FamiliesEnded
    <3> QED BY <2>2, <2>5, <3>1, <3>2 DEF QueueKept
  <2> QED BY <2>1, <2>3, <2>4, <2>5 DEF RefreshCovered
<1>3. ASSUME NEW i, <<"access", i>> \in doomed
      PROVE  AccessCovered(i)'
  <2>1. AccessCovered(i)
    BY <1>3 DEF DoomedCovered
  <2>2. /\ i \in DOMAIN accessTokens /\ i \in DOMAIN accessTokens'
        /\ accessTokens'[i].family = accessTokens[i].family
    BY <1>1, <2>1 DEF AccessCovered, AccessKept
  <2>3. CASE accessTokens[i].revoked
    BY <1>1, <2>2, <2>3 DEF AccessCovered, AccessKept
  <2>4. CASE MemberJob \in scheduled
    BY <1>1, <2>2, <2>4 DEF AccessCovered, QueueKept, NothingLive
  <2>5. CASE accessTokens[i].family \in F
    BY <2>2, <2>5 DEF AccessCovered, FamiliesEnded
  <2>6. CASE FamilyJob(accessTokens[i].family) \in scheduled
    BY <1>1, <2>2, <2>5, <2>6 DEF AccessCovered, QueueKept
  <2>7. ASSUME NEW j \in DOMAIN refreshTokens,
               FamilyOf(j) = accessTokens[i].family, ~refreshTokens[j].revoked,
               AgentJob(refreshTokens[j].actsAs) \in scheduled
        PROVE  AccessCovered(i)'
    <3>1. CASE FamilyOf(j) \in F
      BY <2>5, <2>7, <3>1
    <3>2. CASE FamilyOf(j) \notin F
      <4>1. ~refreshTokens'[j].revoked /\ AgentJob(refreshTokens[j].actsAs) \in queue
        BY <2>7, <3>2 DEF QueueKept
      <4>2. /\ j \in DOMAIN refreshTokens' /\ FamilyOf(j)' = FamilyOf(j)
            /\ refreshTokens'[j].actsAs = refreshTokens[j].actsAs
        BY <1>1, FamilyKept DEF RefreshKept
      <4> QED BY <1>1, <2>2, <2>7, <4>1, <4>2 DEF AccessCovered
    <3> QED BY <3>1, <3>2
  <2> QED BY <2>1, <2>3, <2>4, <2>6, <2>7 DEF AccessCovered
<1> QED BY <1>2, <1>3

LEMMA RevocationKeeps ==
  ASSUME GrantInv, NEW F \in SUBSET DOMAIN refreshTokens,
         NEW queue \in SUBSET JobRow, FamiliesEnded(F, queue), QueueKept(F, queue),
         \A i \in DOMAIN refreshTokens :
           refreshTokens'[i].revoked /\ ~refreshTokens[i].revoked => FamilyOf(i) \in F,
         NEW D, doomed' = doomed \cup D,
         D \subseteq ({"refresh"} \X DOMAIN refreshTokens) \cup ({"access"} \X DOMAIN accessTokens),
         \A i : <<"refresh", i>> \in D => RefreshCovered(i)',
         \A i : <<"access", i>> \in D => AccessCovered(i)',
         replayed' \subseteq replayed \cup F,
         UNCHANGED <<now, codes, requests>>,
         member' \in BOOLEAN, mappingActive' \in BOOLEAN,
         agents' \in [Agent -> {"listed", "unlisted", "inactive"}]
  PROVE  GrantInv'
<1>1. RefreshKept /\ AccessKept
  BY DEF FamiliesEnded
<1>2. DOMAIN refreshTokens \subseteq Nat /\ DOMAIN accessTokens \subseteq Nat
  BY RowsTyped DEF GrantInv
<1>3. scheduled' \subseteq JobRow
  BY <1>2, FamilyJobIs DEF FamiliesEnded
<1>4. replayed' \subseteq Nat /\ doomed' \subseteq {"refresh", "access"} \X Nat
  <2>1. replayed \subseteq Nat /\ doomed \subseteq {"refresh", "access"} \X Nat
    BY DEF GrantInv, TypeOK
  <2>2. D \subseteq {"refresh", "access"} \X Nat
    BY <1>2
  <2> QED BY <1>2, <2>1, <2>2
<1>5. TypeOK'
  <2>1. requests' \in [Request -> Exchange]
    BY DEF GrantInv, TypeOK
  <2> QED BY <1>1, <1>3, <1>4, <2>1, TypeKept DEF GrantInv
<1>6. OneLiveRefresh' /\ Succession' /\ AccessInTime'
  BY <1>1, RowsKept DEF GrantInv
<1>7. JobsEnded' /\ ReplayedEnded'
  BY JobsKept DEF GrantInv
<1>8. DoomedCovered'
  BY DoomKept DEF GrantInv, DoomedCovered
<1>9. CodesSpent'
  BY DEF GrantInv, CodesSpent
<1> QED BY <1>5, <1>6, <1>7, <1>8, <1>9 DEF GrantInv

\* The tokens of the families a batch went through are covered.
LEMMA FamiliesCovered ==
  ASSUME NEW F, NEW queue, FamiliesEnded(F, queue)
  PROVE  /\ RefreshOf(F) \cup AccessOf(F)
              \subseteq ({"refresh"} \X DOMAIN refreshTokens) \cup ({"access"} \X DOMAIN accessTokens)
         /\ \A i : <<"refresh", i>> \in RefreshOf(F) \cup AccessOf(F) => RefreshCovered(i)'
         /\ \A i : <<"access", i>> \in RefreshOf(F) \cup AccessOf(F) => AccessCovered(i)'
<1>1. RefreshKept /\ AccessKept
  BY DEF FamiliesEnded
<1>2. ASSUME NEW i, <<"refresh", i>> \in RefreshOf(F) \cup AccessOf(F)
      PROVE  RefreshCovered(i)'
  <2>1. i \in DOMAIN refreshTokens /\ FamilyOf(i) \in F
    BY <1>2 DEF RefreshOf, AccessOf
  <2> QED BY <1>1, <2>1 DEF FamiliesEnded, RefreshKept, RefreshCovered
<1>3. ASSUME NEW i, <<"access", i>> \in RefreshOf(F) \cup AccessOf(F)
      PROVE  AccessCovered(i)'
  <2>1. i \in DOMAIN accessTokens /\ accessTokens[i].family \in F
    BY <1>3 DEF RefreshOf, AccessOf
  <2> QED BY <1>1, <2>1 DEF FamiliesEnded, AccessKept, AccessCovered
<1>4. RefreshOf(F) \cup AccessOf(F)
        \subseteq ({"refresh"} \X DOMAIN refreshTokens) \cup ({"access"} \X DOMAIN accessTokens)
  BY DEF RefreshOf, AccessOf
<1> QED BY <1>2, <1>3, <1>4

LEMMA ReplayKeeps ==
  ASSUME GrantInv, NEW i \in DOMAIN refreshTokens, ReplayRefreshToken(i)
  PROVE  GrantInv'
<1> DEFINE f == FamilyOf(i)
           D == RefreshOf({f}) \cup AccessOf({f})
<1>1. /\ EndFamilies({f}, {}, refreshTokens, accessTokens, scheduled)
      /\ replayed' = replayed \cup {f} /\ doomed' = doomed \cup D
      /\ UNCHANGED <<now, codes, authority, requests>> /\ refreshTokens[i].revoked
  BY DEF ReplayRefreshToken
<1>2. TypeOK /\ OneLiveRefresh /\ Succession
  BY DEF GrantInv
<1>3. f \in DOMAIN refreshTokens /\ refreshTokens[f].family = 0 /\ refreshTokens[f].revoked
  BY <1>1, <1>2, FamilyOfRow DEF FamilyOf, Succession
<1>4. EndFamilies({f}, {}, Revoked(refreshTokens, {}), Revoked(accessTokens, {}), scheduled)
  BY <1>1, <1>2, RevokedNone DEF TypeOK
<1> HIDE DEF f
<1>5. /\ FamiliesEnded({f}, scheduled)
      /\ \A j \in DOMAIN refreshTokens :
           refreshTokens'[j].revoked /\ ~refreshTokens[j].revoked => FamilyOf(j) \in {f}
  <2>1. \A g \in {f} : refreshTokens[g].family = 0 /\ (g \in {} \/ refreshTokens[g].revoked)
    BY <1>3
  <2>2. \A j \in DOMAIN refreshTokens : j \in {} \cup {} => FamilyOf(j) \in {f}
    OBVIOUS
  <2> QED BY <1>2, <1>3, <1>4, <2>1, <2>2, EndFamiliesEnds
<1>6. QueueKept({f}, scheduled) /\ scheduled \in SUBSET JobRow
  BY <1>2 DEF QueueKept, TypeOK, JobRow
<1> HIDE DEF D
<1>7. /\ D \subseteq ({"refresh"} \X DOMAIN refreshTokens) \cup ({"access"} \X DOMAIN accessTokens)
      /\ \A j : <<"refresh", j>> \in D => RefreshCovered(j)'
      /\ \A j : <<"access", j>> \in D => AccessCovered(j)'
  BY <1>5, FamiliesCovered DEF D
<1>8. member' \in BOOLEAN /\ mappingActive' \in BOOLEAN
      /\ agents' \in [Agent -> {"listed", "unlisted", "inactive"}]
  BY <1>1, <1>2 DEF authority, TypeOK
<1> QED BY <1>1, <1>3, <1>5, <1>6, <1>7, <1>8, RevocationKeeps

LEMMA RefusalKeeps ==
  ASSUME GrantInv, NEW i \in DOMAIN refreshTokens, RefuseRotation(i)
  PROVE  GrantInv'
<1> DEFINE f == FamilyOf(i)
           D == RefreshOf({f}) \cup AccessOf({f})
<1>1. /\ EndFamilies({f}, {f}, refreshTokens, accessTokens, scheduled)
      /\ doomed' = doomed \cup D
      /\ UNCHANGED <<now, codes, authority, requests, replayed>>
  BY DEF RefuseRotation, EndFamiliesWithRoot
<1>2. TypeOK /\ OneLiveRefresh /\ Succession
  BY DEF GrantInv
<1>3. f \in DOMAIN refreshTokens /\ refreshTokens[f].family = 0
  BY <1>2, FamilyOfRow
<1>4. EndFamilies({f}, {f}, Revoked(refreshTokens, {}), Revoked(accessTokens, {}), scheduled)
  BY <1>1, <1>2, RevokedNone DEF TypeOK
<1> HIDE DEF f
<1>5. /\ FamiliesEnded({f}, scheduled)
      /\ \A j \in DOMAIN refreshTokens :
           refreshTokens'[j].revoked /\ ~refreshTokens[j].revoked => FamilyOf(j) \in {f}
  <2>1. \A g \in {f} : refreshTokens[g].family = 0 /\ (g \in {f} \/ refreshTokens[g].revoked)
    BY <1>3
  <2>2. \A j \in DOMAIN refreshTokens : j \in {} \cup {f} => FamilyOf(j) \in {f}
    BY <1>3 DEF FamilyOf
  <2> QED BY <1>2, <1>3, <1>4, <2>1, <2>2, EndFamiliesEnds
<1>6. QueueKept({f}, scheduled) /\ scheduled \in SUBSET JobRow
  BY <1>2 DEF QueueKept, TypeOK, JobRow
<1> HIDE DEF D
<1>7. /\ D \subseteq ({"refresh"} \X DOMAIN refreshTokens) \cup ({"access"} \X DOMAIN accessTokens)
      /\ \A j : <<"refresh", j>> \in D => RefreshCovered(j)'
      /\ \A j : <<"access", j>> \in D => AccessCovered(j)'
  BY <1>5, FamiliesCovered DEF D
<1>8. member' \in BOOLEAN /\ mappingActive' \in BOOLEAN
      /\ agents' \in [Agent -> {"listed", "unlisted", "inactive"}]
  BY <1>1, <1>2 DEF authority, TypeOK
<1> QED BY <1>1, <1>3, <1>5, <1>6, <1>7, <1>8, RevocationKeeps

LEMMA NothingDoomed ==
  ASSUME UNCHANGED doomed
  PROVE  /\ doomed' = doomed \cup {}
         /\ \A i : <<"refresh", i>> \in {} => RefreshCovered(i)'
         /\ \A i : <<"access", i>> \in {} => AccessCovered(i)'
OBVIOUS

LEMMA ContinueFamilyKeeps ==
  ASSUME GrantInv, NEW f \in DOMAIN refreshTokens, ContinueFamilyRevoke(f)
  PROVE  GrantInv'
<1> DEFINE queue == scheduled \ {FamilyJob(f)}
<1>1. /\ EndFamilies({f}, {}, refreshTokens, accessTokens, queue)
      /\ FamilyJob(f) \in scheduled
      /\ UNCHANGED <<now, codes, authority, requests, history>>
  BY DEF ContinueFamilyRevoke, FamilyJob
<1>2. TypeOK /\ OneLiveRefresh /\ Succession
  BY DEF GrantInv
<1>3. refreshTokens[f].family = 0 /\ refreshTokens[f].revoked
  BY <1>1, RowsTyped DEF GrantInv, JobsEnded, Ended, FamilyOf
<1>4. EndFamilies({f}, {}, Revoked(refreshTokens, {}), Revoked(accessTokens, {}), queue)
  BY <1>1, <1>2, RevokedNone DEF TypeOK
<1> HIDE DEF queue
<1>5. /\ FamiliesEnded({f}, queue)
      /\ \A j \in DOMAIN refreshTokens :
           refreshTokens'[j].revoked /\ ~refreshTokens[j].revoked => FamilyOf(j) \in {f}
  <2>1. \A g \in {f} : refreshTokens[g].family = 0 /\ (g \in {} \/ refreshTokens[g].revoked)
    BY <1>3
  <2>2. \A j \in DOMAIN refreshTokens : j \in {} \cup {} => FamilyOf(j) \in {f}
    OBVIOUS
  <2> QED BY <1>2, <1>3, <1>4, <2>1, <2>2, EndFamiliesEnds
<1>6. QueueKept({f}, queue) /\ queue \in SUBSET JobRow
  <2>1. scheduled \subseteq JobRow
    BY <1>2 DEF TypeOK, JobRow
  <2> QED BY <2>1, FamilyJobIs DEF QueueKept, queue
<1>7. UNCHANGED doomed /\ UNCHANGED replayed
  BY <1>1 DEF history
<1>8. member' \in BOOLEAN /\ mappingActive' \in BOOLEAN
      /\ agents' \in [Agent -> {"listed", "unlisted", "inactive"}]
  BY <1>1, <1>2 DEF authority, TypeOK
<1> QED BY <1>1, <1>5, <1>6, <1>7, <1>8, NothingDoomed, RevocationKeeps

\* A batch of the member's tokens: a continuation is scheduled, or nothing is
\* live any more.
LEMMA MemberBatch ==
  ASSUME GrantInv, NEW before \in SUBSET scheduled, scheduled \ {MemberJob} \subseteq before,
         RevokeMemberTokensBatch(before)
  PROVE  \E F \in SUBSET DOMAIN refreshTokens, queue \in SUBSET JobRow :
           /\ FamiliesEnded(F, queue) /\ QueueKept(F, queue)
           /\ MemberJob \in scheduled' \/ NothingLive'
           /\ \A i \in DOMAIN refreshTokens :
                refreshTokens'[i].revoked /\ ~refreshTokens[i].revoked => FamilyOf(i) \in F
<1> DEFINE access == Page(LiveRows(accessTokens))
           refresh == Page(LiveRows(refreshTokens))
           F == ({accessTokens[i].family : i \in access} \ {0}) \cup {FamilyOf(i) : i \in refresh}
           more == Cardinality(LiveRows(accessTokens)) > Batch
                     \/ Cardinality(LiveRows(refreshTokens)) > Batch
           queue == before \cup (IF more THEN {MemberJob} ELSE {})
<1>1. EndFamilies(F, F, refreshTokens, Revoked(accessTokens, access), queue)
  BY DEF RevokeMemberTokensBatch, EndFamiliesWithRoot, MemberJob
<1>2. TypeOK /\ OneLiveRefresh /\ Succession
  BY DEF GrantInv
<1>3. EndFamilies(F, F, Revoked(refreshTokens, {}), Revoked(accessTokens, access), queue)
  BY <1>1, <1>2, RevokedNone DEF TypeOK
<1>4. /\ access \subseteq LiveRows(accessTokens) /\ LiveRows(accessTokens) \subseteq DOMAIN accessTokens
      /\ refresh \subseteq LiveRows(refreshTokens) /\ LiveRows(refreshTokens) \subseteq DOMAIN refreshTokens
  BY DEF Page, LiveRows
<1> HIDE DEF access, refresh, more
<1>5. F \in SUBSET DOMAIN refreshTokens /\ \A f \in F : refreshTokens[f].family = 0
  BY <1>2, <1>4, RowsTyped, FamilyOfRow
<1>6. \A f \in F : FamilyOf(f) \in F
  BY <1>5 DEF FamilyOf
<1>7. \A i \in refresh : FamilyOf(i) \in F
  OBVIOUS
<1> HIDE DEF F, queue
<1>8. /\ FamiliesEnded(F, queue)
      /\ \A i \in DOMAIN refreshTokens :
           refreshTokens'[i].revoked /\ ~refreshTokens[i].revoked => FamilyOf(i) \in F
      /\ \A i \in DOMAIN accessTokens : i \in access => accessTokens'[i].revoked
  <2>1. \A g \in F : refreshTokens[g].family = 0 /\ (g \in F \/ refreshTokens[g].revoked)
    BY <1>5
  <2>2. \A j \in DOMAIN refreshTokens : j \in {} \cup F => FamilyOf(j) \in F
    BY <1>6
  <2> QED BY <1>2, <1>3, <1>5, <2>1, <2>2, EndFamiliesEnds
<1>9. MemberJob \in queue \/ NothingLive'
  <2>1. CASE more
    BY <2>1 DEF queue
  <2>2. CASE ~more
    <3>1. /\ LiveRows(accessTokens) \in SUBSET Nat /\ IsFiniteSet(LiveRows(accessTokens))
          /\ Cardinality(LiveRows(accessTokens)) \in Nat
          /\ LiveRows(refreshTokens) \in SUBSET Nat /\ IsFiniteSet(LiveRows(refreshTokens))
          /\ Cardinality(LiveRows(refreshTokens)) \in Nat
      BY <1>2, <1>4, RowsFinite DEF TypeOK
    <3>2. /\ Cardinality(LiveRows(accessTokens)) <= Batch
          /\ Cardinality(LiveRows(refreshTokens)) <= Batch
      BY <2>2, <3>1, BatchAssumption DEF more
    <3>3. access = LiveRows(accessTokens) /\ refresh = LiveRows(refreshTokens)
      BY <3>1, <3>2, PageOfFew DEF access, refresh
    <3>4. RefreshKept /\ AccessKept
      BY <1>8 DEF FamiliesEnded
    <3>5. \A i \in DOMAIN refreshTokens : refreshTokens'[i].revoked
      BY <1>7, <1>8, <3>3, <3>4 DEF LiveRows, FamiliesEnded, RefreshKept
    <3>6. \A i \in DOMAIN accessTokens : accessTokens'[i].revoked
      BY <1>8, <3>3, <3>4 DEF LiveRows, AccessKept
    <3> QED BY <3>4, <3>5, <3>6 DEF NothingLive, RefreshKept, AccessKept
  <2> QED BY <2>1, <2>2
<1>10. QueueKept(F, queue)
  <2>1. \A g : FamilyJob(g) # MemberJob
    BY FamilyJobIs
  <2>2. \A a : AgentJob(a) # MemberJob
    BY FamilyJobIs
  <2> QED BY <1>9, <2>1, <2>2 DEF QueueKept, queue
<1>11. queue \in SUBSET JobRow
  <2>1. scheduled \subseteq JobRow
    BY <1>2 DEF TypeOK, JobRow
  <2> QED BY <2>1, FamilyJobIs DEF queue
<1>12. MemberJob \in scheduled' \/ NothingLive'
  BY <1>8, <1>9 DEF FamiliesEnded
<1> QED BY <1>5, <1>8, <1>10, <1>11, <1>12

LEMMA RemovalKeeps ==
  ASSUME GrantInv, RemoveMember \/ ContinueMemberRevoke
  PROVE  GrantInv'
<1> DEFINE all == {<<"refresh", i>> : i \in DOMAIN refreshTokens}
                    \cup {<<"access", i>> : i \in DOMAIN accessTokens}
<1>1. /\ \/ RevokeMemberTokensBatch(scheduled)
         \/ RevokeMemberTokensBatch(scheduled \ {MemberJob})
      /\ doomed' = doomed \cup all \/ doomed' = doomed
      /\ UNCHANGED <<now, codes, mappingActive, agents, requests, replayed>>
      /\ member' = FALSE \/ member' = member
  BY DEF RemoveMember, ContinueMemberRevoke, MemberJob, authority, history
<1>2. PICK F \in SUBSET DOMAIN refreshTokens, queue \in SUBSET JobRow :
        /\ FamiliesEnded(F, queue) /\ QueueKept(F, queue)
        /\ MemberJob \in scheduled' \/ NothingLive'
        /\ \A i \in DOMAIN refreshTokens :
             refreshTokens'[i].revoked /\ ~refreshTokens[i].revoked => FamilyOf(i) \in F
  BY <1>1, MemberBatch
<1>3. ASSUME NEW D \in {all, {}}
      PROVE  /\ D \subseteq ({"refresh"} \X DOMAIN refreshTokens) \cup ({"access"} \X DOMAIN accessTokens)
             /\ \A i : <<"refresh", i>> \in D => RefreshCovered(i)'
             /\ \A i : <<"access", i>> \in D => AccessCovered(i)'
  <2>1. RefreshKept /\ AccessKept
    BY <1>2 DEF FamiliesEnded
  <2>2. ASSUME NEW i, <<"refresh", i>> \in D
        PROVE  RefreshCovered(i)'
    <3>1. i \in DOMAIN refreshTokens
      BY <2>2
    <3> HIDE DEF all
    <3> QED BY <1>2, <2>1, <3>1 DEF RefreshKept, RefreshCovered, NothingLive
  <2>3. ASSUME NEW i, <<"access", i>> \in D
        PROVE  AccessCovered(i)'
    <3>1. i \in DOMAIN accessTokens
      BY <2>3
    <3> HIDE DEF all
    <3> QED BY <1>2, <2>1, <3>1 DEF AccessKept, AccessCovered, NothingLive
  <2>4. D \subseteq ({"refresh"} \X DOMAIN refreshTokens) \cup ({"access"} \X DOMAIN accessTokens)
    OBVIOUS
  <2> QED BY <2>2, <2>3, <2>4
<1> HIDE DEF all
<1>4. \E D \in {all, {}} : doomed' = doomed \cup D
  BY <1>1
<1>5. member' \in BOOLEAN /\ mappingActive' \in BOOLEAN
      /\ agents' \in [Agent -> {"listed", "unlisted", "inactive"}]
  BY <1>1 DEF GrantInv, TypeOK
<1>6. replayed' \subseteq replayed \cup F
  BY <1>1
<1> QED BY <1>1, <1>2, <1>3, <1>4, <1>5, <1>6, RevocationKeeps

\* A batch of the tokens that act as an agent: a continuation is scheduled, or
\* each of them was in it.
LEMMA AgentBatch ==
  ASSUME GrantInv, NEW a \in Agent, NEW before \in SUBSET scheduled,
         scheduled \ {AgentJob(a)} \subseteq before, RevokeAgentBatch(a, before)
  PROVE  \E F \in SUBSET DOMAIN refreshTokens, queue \in SUBSET JobRow :
           /\ FamiliesEnded(F, queue) /\ QueueKept(F, queue)
           /\ AgentJob(a) \in queue \/ \A i \in NamedBy(a) : FamilyOf(i) \in F
           /\ \A i \in DOMAIN refreshTokens :
                refreshTokens'[i].revoked /\ ~refreshTokens[i].revoked => FamilyOf(i) \in F
<1> DEFINE page == Page(NamedBy(a))
           F == {FamilyOf(i) : i \in page}
           more == Cardinality(NamedBy(a)) > Batch
           queue == before \cup (IF more THEN {AgentJob(a)} ELSE {})
<1>1. EndFamilies(F, F, Revoked(refreshTokens, page), accessTokens, queue)
  BY DEF RevokeAgentBatch, EndFamiliesWithRoot, AgentJob
<1>2. TypeOK /\ OneLiveRefresh /\ Succession
  BY DEF GrantInv
<1>3. EndFamilies(F, F, Revoked(refreshTokens, page), Revoked(accessTokens, {}), queue)
  BY <1>1, <1>2, RevokedNone DEF TypeOK
<1>4. page \subseteq NamedBy(a) /\ NamedBy(a) \subseteq DOMAIN refreshTokens
  BY DEF Page, NamedBy, LiveRows
<1> HIDE DEF page, more
<1>5. F \in SUBSET DOMAIN refreshTokens /\ \A f \in F : refreshTokens[f].family = 0
  BY <1>2, <1>4, FamilyOfRow
<1>6. \A f \in F : FamilyOf(f) \in F
  BY <1>5 DEF FamilyOf
<1>7. \A i \in page : FamilyOf(i) \in F
  OBVIOUS
<1> HIDE DEF F, queue
<1>8. /\ FamiliesEnded(F, queue)
      /\ \A i \in DOMAIN refreshTokens :
           refreshTokens'[i].revoked /\ ~refreshTokens[i].revoked => FamilyOf(i) \in F
  <2>1. \A g \in F : refreshTokens[g].family = 0 /\ (g \in F \/ refreshTokens[g].revoked)
    BY <1>5
  <2>2. \A j \in DOMAIN refreshTokens : j \in page \cup F => FamilyOf(j) \in F
    BY <1>6, <1>7
  <2> QED BY <1>2, <1>3, <1>5, <2>1, <2>2, EndFamiliesEnds
<1>9. AgentJob(a) \in queue \/ \A i \in NamedBy(a) : FamilyOf(i) \in F
  <2>1. CASE more
    BY <2>1 DEF queue
  <2>2. CASE ~more
    <3>1. /\ NamedBy(a) \in SUBSET Nat /\ IsFiniteSet(NamedBy(a))
          /\ Cardinality(NamedBy(a)) \in Nat
      BY <1>2, <1>4, RowsFinite DEF TypeOK
    <3>2. Cardinality(NamedBy(a)) <= Batch
      BY <2>2, <3>1, BatchAssumption DEF more
    <3> QED BY <1>7, <3>1, <3>2, PageOfFew DEF page
  <2> QED BY <2>1, <2>2
<1>10. QueueKept(F, queue)
  <2>1. \A g : FamilyJob(g) # AgentJob(a)
    BY FamilyJobIs
  <2>2. MemberJob # AgentJob(a) /\ \A b : AgentJob(b) = AgentJob(a) => b = a
    BY FamilyJobIs
  <2>3. ASSUME NEW i \in DOMAIN refreshTokens,
               ~refreshTokens[i].revoked, AgentJob(refreshTokens[i].actsAs) \in scheduled
        PROVE  AgentJob(refreshTokens[i].actsAs) \in queue \/ FamilyOf(i) \in F
    <3>1. CASE refreshTokens[i].actsAs = a
      BY <1>9, <2>3, <3>1 DEF NamedBy, LiveRows
    <3>2. CASE refreshTokens[i].actsAs # a
      BY <2>2, <2>3, <3>2 DEF queue
    <3> QED BY <3>1, <3>2
  <2> QED BY <2>1, <2>2, <2>3 DEF QueueKept, queue
<1>11. queue \in SUBSET JobRow
  <2>1. scheduled \subseteq JobRow
    BY <1>2 DEF TypeOK, JobRow
  <2> QED BY <2>1, FamilyJobIs DEF queue
<1> QED BY <1>5, <1>8, <1>9, <1>10, <1>11

LEMMA DeactivationKeeps ==
  ASSUME GrantInv, NEW a \in Agent, DeactivateAgent(a) \/ ContinueAgentRevoke(a)
  PROVE  GrantInv'
<1> DEFINE families == {FamilyOf(i) : i \in NamedBy(a)}
           all == RefreshOf(families) \cup AccessOf(families)
<1>1. /\ \/ RevokeAgentBatch(a, scheduled)
         \/ RevokeAgentBatch(a, scheduled \ {AgentJob(a)})
      /\ doomed' = doomed \cup all \/ doomed' = doomed
      /\ UNCHANGED <<now, codes, member, mappingActive, requests, replayed>>
      /\ agents' = agents \/ agents' = [agents EXCEPT ![a] = "inactive"]
  BY DEF DeactivateAgent, ContinueAgentRevoke, AgentJob, authority, history
<1>2. PICK F \in SUBSET DOMAIN refreshTokens, queue \in SUBSET JobRow :
        /\ FamiliesEnded(F, queue) /\ QueueKept(F, queue)
        /\ AgentJob(a) \in queue \/ \A i \in NamedBy(a) : FamilyOf(i) \in F
        /\ \A i \in DOMAIN refreshTokens :
             refreshTokens'[i].revoked /\ ~refreshTokens[i].revoked => FamilyOf(i) \in F
  BY <1>1, AgentBatch
<1>3. RefreshKept /\ AccessKept /\ queue \subseteq scheduled'
  BY <1>2 DEF FamiliesEnded
<1>4. ASSUME NEW i, <<"refresh", i>> \in all
      PROVE  RefreshCovered(i)'
  <2>1. i \in DOMAIN refreshTokens /\ FamilyOf(i) \in families
    BY <1>4 DEF RefreshOf, AccessOf
  <2>2. PICK j \in NamedBy(a) : FamilyOf(i) = FamilyOf(j)
    BY <2>1
  <2>3. j \in DOMAIN refreshTokens /\ ~refreshTokens[j].revoked /\ refreshTokens[j].actsAs = a
    BY <2>2 DEF NamedBy, LiveRows
  <2>4. CASE refreshTokens[i].revoked
    BY <1>3, <2>1, <2>4 DEF RefreshCovered, RefreshKept
  <2>5. CASE ~refreshTokens[i].revoked
    <3>1. i = j
      BY <2>1, <2>2, <2>3, <2>5 DEF GrantInv, OneLiveRefresh
    <3>2. CASE AgentJob(a) \in queue
      BY <1>3, <2>3, <3>1, <3>2 DEF RefreshCovered, RefreshKept
    <3>3. CASE FamilyOf(j) \in F
      BY <1>2, <1>3, <2>3, <3>1, <3>3 DEF RefreshCovered, RefreshKept, FamiliesEnded
    <3> QED BY <1>2, <2>2, <3>2, <3>3
  <2> QED BY <2>4, <2>5
<1>5. ASSUME NEW i, <<"access", i>> \in all
      PROVE  AccessCovered(i)'
  <2>1. i \in DOMAIN accessTokens /\ accessTokens[i].family \in families
    BY <1>5 DEF RefreshOf, AccessOf
  <2>2. PICK j \in NamedBy(a) : accessTokens[i].family = FamilyOf(j)
    BY <2>1
  <2>3. j \in DOMAIN refreshTokens /\ ~refreshTokens[j].revoked /\ refreshTokens[j].actsAs = a
    BY <2>2 DEF NamedBy, LiveRows
  <2>4. CASE FamilyOf(j) \in F
    BY <1>2, <1>3, <2>1, <2>2, <2>4 DEF AccessCovered, AccessKept, FamiliesEnded
  <2>5. CASE FamilyOf(j) \notin F
    <3>1. AgentJob(a) \in scheduled' /\ ~refreshTokens'[j].revoked
      BY <1>2, <1>3, <2>2, <2>3, <2>5
    <3>2. /\ j \in DOMAIN refreshTokens' /\ FamilyOf(j)' = FamilyOf(j)
          /\ refreshTokens'[j].actsAs = a
      BY <1>3, <2>3, FamilyKept DEF RefreshKept
    <3>3. i \in DOMAIN accessTokens' /\ accessTokens'[i].family = accessTokens[i].family
      BY <1>3, <2>1 DEF AccessKept
    <3> QED BY <2>2, <3>1, <3>2, <3>3 DEF AccessCovered
  <2> QED BY <2>4, <2>5
<1>6. all \subseteq ({"refresh"} \X DOMAIN refreshTokens) \cup ({"access"} \X DOMAIN accessTokens)
  BY DEF RefreshOf, AccessOf
<1> HIDE DEF all
<1>7. \E D \in {all, {}} : doomed' = doomed \cup D
  BY <1>1
<1>8. member' \in BOOLEAN /\ mappingActive' \in BOOLEAN
      /\ agents' \in [Agent -> {"listed", "unlisted", "inactive"}]
  BY <1>1 DEF GrantInv, TypeOK
<1>9. replayed' \subseteq replayed \cup F
  BY <1>1
<1> QED BY <1>1, <1>2, <1>4, <1>5, <1>6, <1>7, <1>8, <1>9, RevocationKeeps

\* A code that is presented again.
LEMMA ReplayedCodeKeeps ==
  ASSUME GrantInv, NEW r \in Request, RevokeAccessTokensForCode(r)
  PROVE  GrantInv'
<1> DEFINE S == {i \in DOMAIN accessTokens : accessTokens[i].code = requests[r].code}
<1>1. /\ accessTokens' = Revoked(accessTokens, S)
      /\ requests' = [requests EXCEPT ![r].pc = "revoked"]
      /\ UNCHANGED <<now, codes, refreshTokens, scheduled, authority, history>>
  BY DEF RevokeAccessTokensForCode, MoveTo
<1> HIDE DEF S
<1>2. TypeOK /\ OneLiveRefresh /\ Succession /\ AccessInTime
  BY DEF GrantInv
<1>3. RefreshKept /\ AccessKept
  <2>1. refreshTokens \in Seq(RefreshRow) /\ accessTokens \in Seq(AccessRow)
    BY <1>2 DEF TypeOK
  <2> QED BY <1>1, <2>1, RevokedAccess DEF RefreshKept, AccessKept
<1>4. FamiliesEnded({}, scheduled) /\ QueueKept({}, scheduled)
  BY <1>1, <1>3 DEF FamiliesEnded, QueueKept
<1>5. TypeOK'
  <2>1. requests' \in [Request -> Exchange]
    BY <1>1, <1>2 DEF TypeOK, Exchange
  <2>2. /\ scheduled' \subseteq JobRow /\ UNCHANGED <<now, codes>>
        /\ member' \in BOOLEAN /\ mappingActive' \in BOOLEAN
        /\ agents' \in [Agent -> {"listed", "unlisted", "inactive"}]
        /\ doomed' \subseteq {"refresh", "access"} \X Nat /\ replayed' \subseteq Nat
    BY <1>1, <1>2 DEF TypeOK, JobRow, authority, history
  <2> QED BY <1>2, <1>3, <2>1, <2>2, TypeKept
<1>6. OneLiveRefresh' /\ Succession' /\ AccessInTime'
  BY <1>2, <1>3, RowsKept
<1>7. JobsEnded' /\ ReplayedEnded'
  BY <1>1, <1>4, JobsKept DEF GrantInv, history
<1>8. DoomedCovered'
  <2>1. \A i \in DOMAIN refreshTokens :
          refreshTokens'[i].revoked /\ ~refreshTokens[i].revoked => FamilyOf(i) \in {}
    BY <1>1
  <2>2. /\ \A i : <<"refresh", i>> \in doomed => RefreshCovered(i)'
        /\ \A i : <<"access", i>> \in doomed => AccessCovered(i)'
    BY <1>2, <1>4, <2>1, DoomKept DEF GrantInv
  <2> QED BY <1>1, <2>2 DEF DoomedCovered, history
<1>9. CodesSpent'
  <2>1. \A q \in Request : /\ requests'[q].won = requests[q].won /\ requests'[q].code = requests[q].code
                           /\ requests'[q].pc = IF q = r THEN "revoked" ELSE requests[q].pc
    BY <1>1, <1>2 DEF TypeOK, Exchange
  <2> QED BY <1>1, <2>1 DEF GrantInv, CodesSpent
<1> QED BY <1>5, <1>6, <1>7, <1>8, <1>9 DEF GrantInv

-----------------------------------------------------------------------------
(* Minting.                                                                *)

\* One refresh token more, of a family of its own or in the place of another,
\* and one access token of the same family.
Minted(family, spent) ==
  LET n == Len(refreshTokens) + 1
      m == Len(accessTokens) + 1 IN
  /\ refreshTokens' \in Seq(RefreshRow) /\ accessTokens' \in Seq(AccessRow)
  /\ DOMAIN refreshTokens' = DOMAIN refreshTokens \cup {n} /\ n \notin DOMAIN refreshTokens
  /\ DOMAIN accessTokens' = DOMAIN accessTokens \cup {m} /\ m \notin DOMAIN accessTokens
  /\ n \in Nat /\ n # 0
  /\ \A i \in DOMAIN refreshTokens :
       /\ refreshTokens'[i].family = refreshTokens[i].family
       /\ refreshTokens'[i].parent = refreshTokens[i].parent
       /\ refreshTokens'[i].actsAs = refreshTokens[i].actsAs
       /\ refreshTokens'[i].createdAt = refreshTokens[i].createdAt
       /\ refreshTokens'[i].revoked <=> (refreshTokens[i].revoked \/ i \in spent)
  /\ \A i \in DOMAIN accessTokens : accessTokens'[i] = accessTokens[i]
  /\ ~refreshTokens'[n].revoked
  /\ accessTokens'[m].family = family
  /\ \/ spent = {} /\ family = n /\ refreshTokens'[n].family = 0 /\ refreshTokens'[n].parent = 0
     \/ \E i \in DOMAIN refreshTokens :
          /\ spent = {i} /\ family = FamilyOf(i) /\ ~refreshTokens[i].revoked
          /\ refreshTokens'[n].family = family /\ refreshTokens'[n].parent = i
          /\ refreshTokens'[n].actsAs = refreshTokens[i].actsAs
  /\ accessTokens'[m].expiresAt <= refreshTokens'[family].createdAt + FamilyMax + AccessTtl

LEMMA MintedFamilies ==
  ASSUME TypeOK, Succession, NEW family, NEW spent, Minted(family, spent),
         NEW n, n = Len(refreshTokens) + 1
  PROVE  /\ \A i \in DOMAIN refreshTokens : FamilyOf(i)' = FamilyOf(i) /\ FamilyOf(i) \in DOMAIN refreshTokens
         /\ FamilyOf(n)' = family
         /\ family \in DOMAIN refreshTokens' /\ refreshTokens'[family].family = 0
<1>1. \A i \in DOMAIN refreshTokens : FamilyOf(i)' = FamilyOf(i) /\ FamilyOf(i) \in DOMAIN refreshTokens
  BY FamilyOfRow DEF Minted, FamilyOf
<1>2. FamilyOf(n)' = IF refreshTokens'[n].family = 0 THEN n ELSE refreshTokens'[n].family
  BY DEF FamilyOf
<1>3. /\ DOMAIN refreshTokens' = DOMAIN refreshTokens \cup {n}
      /\ \A i \in DOMAIN refreshTokens : refreshTokens'[i].family = refreshTokens[i].family
      /\ \/ family = n /\ refreshTokens'[n].family = 0
         \/ \E i \in DOMAIN refreshTokens : family = FamilyOf(i) /\ refreshTokens'[n].family = family
  BY DEF Minted
<1>4. CASE family = n /\ refreshTokens'[n].family = 0
  BY <1>1, <1>2, <1>3, <1>4
<1>5. ASSUME NEW i \in DOMAIN refreshTokens,
             family = FamilyOf(i), refreshTokens'[n].family = family
      PROVE  /\ FamilyOf(n)' = family
             /\ family \in DOMAIN refreshTokens' /\ refreshTokens'[family].family = 0
  <2>1. family \in DOMAIN refreshTokens /\ refreshTokens[family].family = 0
    BY <1>5, FamilyOfRow
  <2>2. family # 0
    BY <2>1, RowsTyped
  <2> QED BY <1>2, <1>3, <1>5, <2>1, <2>2
<1> QED BY <1>1, <1>3, <1>4, <1>5

LEMMA MintedRows ==
  ASSUME TypeOK, OneLiveRefresh, Succession, AccessInTime,
         NEW family, NEW spent, Minted(family, spent)
  PROVE  OneLiveRefresh' /\ Succession' /\ AccessInTime'
<1>0. PICK n, m : n = Len(refreshTokens) + 1 /\ m = Len(accessTokens) + 1
  OBVIOUS
<1>1. /\ DOMAIN refreshTokens' = DOMAIN refreshTokens \cup {n} /\ n \notin DOMAIN refreshTokens
      /\ DOMAIN accessTokens' = DOMAIN accessTokens \cup {m} /\ m \notin DOMAIN accessTokens
      /\ ~refreshTokens'[n].revoked /\ accessTokens'[m].family = family
  BY <1>0 DEF Minted
<1>2. \A i \in DOMAIN refreshTokens :
       /\ refreshTokens'[i].family = refreshTokens[i].family
       /\ refreshTokens'[i].parent = refreshTokens[i].parent
       /\ refreshTokens'[i].actsAs = refreshTokens[i].actsAs
       /\ refreshTokens'[i].createdAt = refreshTokens[i].createdAt
       /\ refreshTokens'[i].revoked <=> (refreshTokens[i].revoked \/ i \in spent)
  BY <1>0 DEF Minted
<1>3. /\ \A i \in DOMAIN refreshTokens : FamilyOf(i)' = FamilyOf(i) /\ FamilyOf(i) \in DOMAIN refreshTokens
      /\ FamilyOf(n)' = family
      /\ family \in DOMAIN refreshTokens' /\ refreshTokens'[family].family = 0
  BY <1>0, MintedFamilies
<1>4. \/ spent = {} /\ family = n /\ refreshTokens'[n].family = 0 /\ refreshTokens'[n].parent = 0
      \/ \E i \in DOMAIN refreshTokens :
           /\ spent = {i} /\ family = FamilyOf(i) /\ ~refreshTokens[i].revoked
           /\ refreshTokens'[n].family = family /\ refreshTokens'[n].parent = i
           /\ refreshTokens'[n].actsAs = refreshTokens[i].actsAs
  BY <1>0 DEF Minted
<1>5. accessTokens'[m].expiresAt <= refreshTokens'[family].createdAt + FamilyMax + AccessTtl
      /\ \A i \in DOMAIN accessTokens : accessTokens'[i] = accessTokens[i]
  BY <1>0 DEF Minted
<1>6. OneLiveRefresh'
  <2>1. ASSUME NEW k \in DOMAIN refreshTokens, FamilyOf(k)' = FamilyOf(n)'
        PROVE  refreshTokens'[k].revoked
    BY <1>1, <1>2, <1>3, <1>4, <2>1 DEF OneLiveRefresh
  <2>2. \A j, k \in DOMAIN refreshTokens :
          j # k /\ FamilyOf(j)' = FamilyOf(k)' => refreshTokens'[j].revoked \/ refreshTokens'[k].revoked
    BY <1>2, <1>3 DEF OneLiveRefresh
  <2>3. ASSUME NEW j \in DOMAIN refreshTokens', NEW k \in DOMAIN refreshTokens',
               j # k, FamilyOf(j)' = FamilyOf(k)'
        PROVE  refreshTokens'[j].revoked \/ refreshTokens'[k].revoked
    <3>1. CASE j = n
      BY <1>1, <2>1, <2>3, <3>1
    <3>2. CASE k = n
      BY <1>1, <2>1, <2>3, <3>2
    <3>3. CASE j # n /\ k # n
      BY <1>1, <2>2, <2>3, <3>3
    <3> QED BY <3>1, <3>2, <3>3
  <2> QED BY <2>3 DEF OneLiveRefresh
<1>7. Succession'
  <2>1. ASSUME NEW i \in DOMAIN refreshTokens, refreshTokens'[i].family # 0
        PROVE  /\ refreshTokens'[refreshTokens'[i].family].family = 0
               /\ refreshTokens'[refreshTokens'[i].family].revoked
               /\ refreshTokens'[refreshTokens'[i].family].actsAs = refreshTokens'[i].actsAs
               /\ refreshTokens'[refreshTokens'[i].parent].revoked
    <3>1. refreshTokens[i].family \in DOMAIN refreshTokens /\ refreshTokens[i].parent \in DOMAIN refreshTokens
      BY <1>2, <2>1, RowsTyped DEF RefreshRow
    <3> QED BY <1>2, <2>1, <3>1 DEF Succession
  <2>2. ASSUME NEW i \in DOMAIN refreshTokens, spent = {i}, family = FamilyOf(i), ~refreshTokens[i].revoked,
               refreshTokens'[n].family = family, refreshTokens'[n].parent = i,
               refreshTokens'[n].actsAs = refreshTokens[i].actsAs
        PROVE  /\ refreshTokens'[family].family = 0
               /\ refreshTokens'[family].revoked
               /\ refreshTokens'[family].actsAs = refreshTokens'[n].actsAs
               /\ refreshTokens'[refreshTokens'[n].parent].revoked
               /\ \A j \in DOMAIN refreshTokens : refreshTokens'[j].parent # i
    <3>1. family \in DOMAIN refreshTokens /\ refreshTokens[family].actsAs = refreshTokens[i].actsAs
      BY <2>2, FamilyOfRow
    <3>2. family = i \/ refreshTokens[family].revoked
      BY <2>2 DEF FamilyOf, Succession
    <3>3. ASSUME NEW j \in DOMAIN refreshTokens
          PROVE  refreshTokens'[j].parent # i
      <4>1. i # 0
        BY RowsTyped
      <4>2. refreshTokens[j].parent = i => refreshTokens[i].revoked
        BY <4>1, RowsTyped DEF Succession
      <4> QED BY <1>2, <2>2, <4>2
    <3> QED BY <1>2, <1>3, <2>2, <3>1, <3>2, <3>3
  <2>3. \A i \in DOMAIN refreshTokens' : refreshTokens'[i].family # 0 =>
               /\ refreshTokens'[refreshTokens'[i].family].family = 0
               /\ refreshTokens'[refreshTokens'[i].family].revoked
               /\ refreshTokens'[refreshTokens'[i].family].actsAs = refreshTokens'[i].actsAs
               /\ refreshTokens'[refreshTokens'[i].parent].revoked
    BY <1>1, <1>4, <2>1, <2>2
  <2>4. \A i, j \in DOMAIN refreshTokens :
          i # j /\ refreshTokens'[i].parent = refreshTokens'[j].parent => refreshTokens'[i].parent = 0
    BY <1>2 DEF Succession
  <2>5. \A j \in DOMAIN refreshTokens :
          refreshTokens'[n].parent = refreshTokens'[j].parent => refreshTokens'[n].parent = 0
    BY <1>4, <2>2
  <2> QED BY <1>1, <2>3, <2>4, <2>5 DEF Succession
<1>8. AccessInTime'
  <2>1. ASSUME NEW i \in DOMAIN accessTokens, accessTokens'[i].family # 0
        PROVE  accessTokens'[i].expiresAt
                 <= refreshTokens'[accessTokens'[i].family].createdAt + FamilyMax + AccessTtl
    <3>1. accessTokens'[i] = accessTokens[i] /\ accessTokens[i].family \in DOMAIN refreshTokens
      BY <1>5, <2>1, RowsTyped
    <3> QED BY <1>2, <2>1, <3>1 DEF AccessInTime
  <2> QED BY <1>1, <1>5, <2>1 DEF AccessInTime
<1> QED BY <1>6, <1>7, <1>8

LEMMA MintedJobs ==
  ASSUME GrantInv, NEW family, NEW spent, Minted(family, spent), UNCHANGED <<scheduled, history>>
  PROVE  JobsEnded' /\ ReplayedEnded' /\ DoomedCovered'
<1>0. PICK n, m : n = Len(refreshTokens) + 1 /\ m = Len(accessTokens) + 1
  OBVIOUS
<1>1. /\ DOMAIN refreshTokens' = DOMAIN refreshTokens \cup {n} /\ n \notin DOMAIN refreshTokens
      /\ DOMAIN accessTokens' = DOMAIN accessTokens \cup {m} /\ m \notin DOMAIN accessTokens
      /\ ~refreshTokens'[n].revoked /\ accessTokens'[m].family = family
      /\ \A i \in DOMAIN accessTokens : accessTokens'[i] = accessTokens[i]
  BY <1>0 DEF Minted
<1>2. \A i \in DOMAIN refreshTokens :
       /\ refreshTokens'[i].family = refreshTokens[i].family
       /\ refreshTokens'[i].actsAs = refreshTokens[i].actsAs
       /\ refreshTokens'[i].revoked <=> (refreshTokens[i].revoked \/ i \in spent)
  BY <1>0 DEF Minted
<1>3. /\ \A i \in DOMAIN refreshTokens : FamilyOf(i)' = FamilyOf(i) /\ FamilyOf(i) \in DOMAIN refreshTokens
      /\ FamilyOf(n)' = family
  BY <1>0, MintedFamilies DEF GrantInv
<1>4. \/ spent = {} /\ family = n
      \/ \E i \in DOMAIN refreshTokens :
           /\ spent = {i} /\ family = FamilyOf(i) /\ ~refreshTokens[i].revoked
           /\ refreshTokens'[n].actsAs = refreshTokens[i].actsAs
  BY <1>0 DEF Minted
<1>5. scheduled' = scheduled /\ doomed' = doomed /\ replayed' = replayed
  BY DEF history
<1>6. ASSUME NEW f, Ended(f)
      PROVE  Ended(f)' /\ f # family
  <2>1. /\ f \in DOMAIN refreshTokens /\ refreshTokens[f].family = 0
        /\ \A i \in DOMAIN refreshTokens : FamilyOf(i) = f => refreshTokens[i].revoked
    BY <1>6 DEF Ended
  <2>2. f # family
    BY <1>1, <1>4, <2>1
  <2>3. ASSUME NEW i \in DOMAIN refreshTokens', FamilyOf(i)' = f
        PROVE  refreshTokens'[i].revoked
    <3>1. i \in DOMAIN refreshTokens
      BY <1>1, <1>3, <2>2, <2>3
    <3> QED BY <1>2, <1>3, <2>1, <2>3, <3>1
  <2>4. f \in DOMAIN refreshTokens' /\ refreshTokens'[f].family = 0
    BY <1>1, <1>2, <2>1
  <2> QED BY <2>2, <2>3, <2>4 DEF Ended
<1>7. JobsEnded'
  BY <1>5, <1>6 DEF GrantInv, JobsEnded
<1>8. ReplayedEnded'
  BY <1>1, <1>5, <1>6 DEF GrantInv, ReplayedEnded
<1>9. ASSUME NEW i, RefreshCovered(i)
      PROVE  RefreshCovered(i)'
  BY <1>1, <1>2, <1>5, <1>9 DEF RefreshCovered
<1>10. ASSUME NEW i, AccessCovered(i)
       PROVE  AccessCovered(i)'
  <2>1. i \in DOMAIN accessTokens' /\ i \in DOMAIN accessTokens /\ accessTokens'[i] = accessTokens[i]
    BY <1>1, <1>10 DEF AccessCovered
  <2>2. ASSUME NEW j \in DOMAIN refreshTokens,
               FamilyOf(j) = accessTokens[i].family, ~refreshTokens[j].revoked,
               AgentJob(refreshTokens[j].actsAs) \in scheduled
        PROVE  \E k \in DOMAIN refreshTokens' :
                 /\ FamilyOf(k)' = accessTokens'[i].family /\ ~refreshTokens'[k].revoked
                 /\ AgentJob(refreshTokens'[k].actsAs) \in scheduled'
    <3>1. CASE j \in spent
      <4>1. spent = {j} /\ family = FamilyOf(j) /\ refreshTokens'[n].actsAs = refreshTokens[j].actsAs
        BY <1>4, <3>1
      <4>2. /\ n \in DOMAIN refreshTokens' /\ ~refreshTokens'[n].revoked
            /\ FamilyOf(n)' = accessTokens'[i].family
            /\ AgentJob(refreshTokens'[n].actsAs) \in scheduled'
        BY <1>1, <1>3, <1>5, <2>1, <2>2, <4>1
      <4> QED BY <4>2
    <3>2. CASE j \notin spent
      BY <1>1, <1>2, <1>3, <1>5, <2>1, <2>2, <3>2
    <3> QED BY <3>1, <3>2
  <2> QED BY <1>5, <1>10, <2>1, <2>2 DEF AccessCovered
<1>11. DoomedCovered'
  BY <1>5, <1>9, <1>10 DEF GrantInv, DoomedCovered
<1> QED BY <1>7, <1>8, <1>11

\* The tables with the pair in them are well typed.
LEMMA MintedTyped ==
  ASSUME TypeOK, Succession, NEW family, NEW spent, Minted(family, spent)
  PROVE  /\ refreshTokens' \in Seq(RefreshRow) /\ accessTokens' \in Seq(AccessRow)
         /\ \A i \in DOMAIN refreshTokens' :
              /\ refreshTokens'[i].family < i /\ refreshTokens'[i].parent < i
              /\ (refreshTokens'[i].family = 0) <=> (refreshTokens'[i].parent = 0)
         /\ \A i \in DOMAIN accessTokens' : accessTokens'[i].family # 0 =>
              /\ accessTokens'[i].family \in DOMAIN refreshTokens'
              /\ refreshTokens'[accessTokens'[i].family].family = 0
<1> DEFINE n == Len(refreshTokens) + 1
           m == Len(accessTokens) + 1
<1>1. /\ refreshTokens' \in Seq(RefreshRow) /\ accessTokens' \in Seq(AccessRow)
      /\ DOMAIN refreshTokens' = DOMAIN refreshTokens \cup {n}
      /\ DOMAIN accessTokens' = DOMAIN accessTokens \cup {m}
      /\ accessTokens'[m].family = family
      /\ \A i \in DOMAIN accessTokens : accessTokens'[i] = accessTokens[i]
      /\ \A i \in DOMAIN refreshTokens :
           /\ refreshTokens'[i].family = refreshTokens[i].family
           /\ refreshTokens'[i].parent = refreshTokens[i].parent
  BY DEF Minted
<1>2. /\ n > 0 /\ \A i \in DOMAIN refreshTokens : i \in Nat /\ i # 0 /\ i < n
      /\ \A i \in DOMAIN refreshTokens :
           /\ refreshTokens[i].family < i /\ refreshTokens[i].parent < i
           /\ (refreshTokens[i].family = 0) <=> (refreshTokens[i].parent = 0)
      /\ \A i \in DOMAIN accessTokens : accessTokens[i].family # 0 =>
           /\ accessTokens[i].family \in DOMAIN refreshTokens
           /\ refreshTokens[accessTokens[i].family].family = 0
  BY RowsTyped
<1>3. \/ refreshTokens'[n].family = 0 /\ refreshTokens'[n].parent = 0
      \/ /\ refreshTokens'[n].family \in DOMAIN refreshTokens
         /\ refreshTokens'[n].parent \in DOMAIN refreshTokens
  BY FamilyOfRow DEF Minted
<1>4. family \in DOMAIN refreshTokens' /\ refreshTokens'[family].family = 0
  BY MintedFamilies
<1> HIDE DEF n, m
<1>5. ASSUME NEW i \in DOMAIN refreshTokens'
      PROVE  /\ refreshTokens'[i].family < i /\ refreshTokens'[i].parent < i
             /\ (refreshTokens'[i].family = 0) <=> (refreshTokens'[i].parent = 0)
  <2>1. CASE i = n
    BY <1>2, <1>3, <2>1
  <2>2. CASE i # n
    BY <1>1, <1>2, <2>2
  <2> QED BY <2>1, <2>2
<1>6. ASSUME NEW i \in DOMAIN accessTokens', accessTokens'[i].family # 0
      PROVE  /\ accessTokens'[i].family \in DOMAIN refreshTokens'
             /\ refreshTokens'[accessTokens'[i].family].family = 0
  <2>1. CASE i = m
    BY <1>1, <1>4, <2>1
  <2>2. CASE i # m
    BY <1>1, <1>2, <1>6, <2>2
  <2> QED BY <2>1, <2>2
<1> QED BY <1>1, <1>5, <1>6

\* An exchange that moves on without a new code.
LEMMA MoveKeeps ==
  ASSUME GrantInv, NEW r \in Request,
         NEW pc \in {"authorised", "retry", "issued", "refused", "revoked", "gone"},
         MoveTo(r, pc), codes' = codes,
         pc \in {"authorised", "retry"} => requests[r].code \in Code
  PROVE  requests' \in [Request -> Exchange] /\ CodesSpent'
<1>1. requests' \in [Request -> Exchange]
  BY DEF GrantInv, TypeOK, Exchange, MoveTo
<1>2. \A q \in Request : /\ requests'[q].won = requests[q].won /\ requests'[q].code = requests[q].code
                         /\ requests'[q].pc = IF q = r THEN pc ELSE requests[q].pc
  BY DEF GrantInv, TypeOK, Exchange, MoveTo
<1> QED BY <1>1, <1>2 DEF GrantInv, CodesSpent

LEMMA MintKeeps ==
  ASSUME GrantInv, NEW family, NEW spent, Minted(family, spent),
         UNCHANGED <<now, codes, scheduled, authority, history>>,
         requests' \in [Request -> Exchange], CodesSpent'
  PROVE  GrantInv'
<1>1. /\ refreshTokens' \in Seq(RefreshRow) /\ accessTokens' \in Seq(AccessRow)
      /\ \A i \in DOMAIN refreshTokens' :
           /\ refreshTokens'[i].family < i /\ refreshTokens'[i].parent < i
           /\ (refreshTokens'[i].family = 0) <=> (refreshTokens'[i].parent = 0)
      /\ \A i \in DOMAIN accessTokens' : accessTokens'[i].family # 0 =>
           /\ accessTokens'[i].family \in DOMAIN refreshTokens'
           /\ refreshTokens'[accessTokens'[i].family].family = 0
  BY MintedTyped DEF GrantInv
<1>2. TypeOK'
  BY <1>1 DEF GrantInv, TypeOK, authority, history
<1>3. OneLiveRefresh' /\ Succession' /\ AccessInTime'
  BY MintedRows DEF GrantInv
<1>4. JobsEnded' /\ ReplayedEnded' /\ DoomedCovered'
  BY MintedJobs
<1> QED BY <1>2, <1>3, <1>4 DEF GrantInv

LEMMA MintPairMints ==
  ASSUME GrantInv, NEW r \in Request, MintPair(r)
  PROVE  /\ Minted(Len(refreshTokens) + 1, {})
         /\ requests' \in [Request -> Exchange] /\ CodesSpent'
<1>1. requests[r].code \in Code /\ codes[requests[r].code].actsAs \in Chosen /\ now \in Nat
  BY DEF GrantInv, CodesSpent, MintPair, TypeOK, CodeRow
<1>2. AccessTtl \in Nat /\ RefreshTtl \in Nat /\ FamilyMax \in Nat
  BY GrantAssumption
<1> DEFINE n == Len(refreshTokens) + 1
           m == Len(accessTokens) + 1
           row == [family |-> 0, parent |-> 0, actsAs |-> codes[requests[r].code].actsAs,
                   createdAt |-> now, expiresAt |-> now + RefreshTtl, revoked |-> FALSE]
<1>3. /\ refreshTokens \in Seq(RefreshRow) /\ accessTokens \in Seq(AccessRow)
      /\ Len(refreshTokens) \in Nat
  BY RowsTyped DEF GrantInv, TypeOK
<1>4. row \in RefreshRow
  BY <1>1, <1>2 DEF RefreshRow
<1>5. FirstAccess(r, n) \in AccessRow
  BY <1>1, <1>2, <1>3 DEF AccessRow, FirstAccess
<1>6. /\ refreshTokens' \in Seq(RefreshRow)
      /\ DOMAIN refreshTokens' = DOMAIN refreshTokens \cup {n} /\ n \notin DOMAIN refreshTokens
      /\ \A i \in DOMAIN refreshTokens : refreshTokens'[i] = refreshTokens[i]
      /\ refreshTokens'[n] = row
  BY <1>3, <1>4, AppendedTable DEF MintPair
<1>7. /\ accessTokens' \in Seq(AccessRow)
      /\ DOMAIN accessTokens' = DOMAIN accessTokens \cup {m} /\ m \notin DOMAIN accessTokens
      /\ \A i \in DOMAIN accessTokens : accessTokens'[i] = accessTokens[i]
      /\ accessTokens'[m] = FirstAccess(r, n)
  BY <1>3, <1>5, AppendedTable DEF MintPair
<1>8. /\ ~row.revoked /\ row.family = 0 /\ row.parent = 0 /\ row.createdAt = now
      /\ FirstAccess(r, n).family = n /\ FirstAccess(r, n).expiresAt = now + AccessTtl
      /\ now + AccessTtl <= now + FamilyMax + AccessTtl
  BY <1>1, <1>2 DEF FirstAccess
<1>9. n \in Nat /\ n # 0
  BY <1>3
<1> HIDE DEF row
<1>10. Minted(n, {})
  BY <1>6, <1>7, <1>8, <1>9 DEF Minted
<1>11. requests' \in [Request -> Exchange] /\ CodesSpent'
  BY <1>1, MoveKeeps DEF MintPair
<1> QED BY <1>10, <1>11

LEMMA RotationMints ==
  ASSUME GrantInv, NEW i \in DOMAIN refreshTokens, RotateRefreshToken(i)
  PROVE  /\ Minted(FamilyOf(i), {i})
         /\ requests' \in [Request -> Exchange] /\ CodesSpent'
<1> DEFINE f == FamilyOf(i)
           n == Len(refreshTokens) + 1
           m == Len(accessTokens) + 1
           row == [family |-> f, parent |-> i, actsAs |-> refreshTokens[i].actsAs, createdAt |-> now,
                   expiresAt |-> Sooner(now + RefreshTtl, Deadline(i)), revoked |-> FALSE]
           access == [hash |-> Nothing, code |-> Nothing, family |-> f,
                      expiresAt |-> now + AccessTtl, revoked |-> FALSE]
<1>1. /\ refreshTokens \in Seq(RefreshRow) /\ accessTokens \in Seq(AccessRow)
      /\ Len(refreshTokens) \in Nat /\ now \in Nat /\ refreshTokens[i] \in RefreshRow
      /\ DOMAIN refreshTokens = 1 .. Len(refreshTokens)
  BY RowsTyped DEF GrantInv, TypeOK
<1>2. AccessTtl \in Nat /\ RefreshTtl \in Nat /\ FamilyMax \in Nat
  BY GrantAssumption
<1>3. f \in DOMAIN refreshTokens /\ refreshTokens[f] \in RefreshRow
  BY FamilyOfRow, RowsTyped DEF GrantInv
<1>4. now < refreshTokens[f].createdAt + FamilyMax /\ refreshTokens[f].createdAt \in Nat
      /\ ~refreshTokens[i].revoked
  BY <1>3 DEF RotateRefreshToken, MayRotate, Deadline, Live, RefreshRow
<1>5. Sooner(now + RefreshTtl, Deadline(i)) \in Nat
  BY <1>1, <1>2, <1>4 DEF Sooner, Deadline
<1>6. row \in RefreshRow /\ access \in AccessRow
  <2>1. f \in Nat /\ i \in Nat /\ refreshTokens[i].actsAs \in Chosen /\ now + AccessTtl \in Nat
    <3>1. f \in Nat /\ i \in Nat
      BY <1>1, <1>3
    <3>2. refreshTokens[i].actsAs \in Chosen
      BY <1>1 DEF RefreshRow
    <3>3. now + AccessTtl \in Nat
      BY <1>1, <1>2
    <3> QED BY <3>1, <3>2, <3>3
  <2> HIDE DEF f
  <2> QED BY <1>1, <1>5, <2>1 DEF RefreshRow, AccessRow
<1>7. /\ Spent(i) \in Seq(RefreshRow) /\ Len(Spent(i)) = Len(refreshTokens)
      /\ DOMAIN Spent(i) = DOMAIN refreshTokens
      /\ \A k \in DOMAIN refreshTokens :
           /\ Spent(i)[k].family = refreshTokens[k].family
           /\ Spent(i)[k].parent = refreshTokens[k].parent
           /\ Spent(i)[k].actsAs = refreshTokens[k].actsAs
           /\ Spent(i)[k].createdAt = refreshTokens[k].createdAt
           /\ Spent(i)[k].revoked <=> (refreshTokens[k].revoked \/ k \in {i})
  BY <1>1, RevokedRefresh DEF Spent
<1>8. refreshTokens' = Append(Spent(i), row) /\ accessTokens' = Append(accessTokens, access)
  BY DEF RotateRefreshToken
<1>9. /\ row.family = f /\ row.parent = i /\ row.actsAs = refreshTokens[i].actsAs /\ ~row.revoked
      /\ access.family = f /\ access.expiresAt = now + AccessTtl
  OBVIOUS
<1> HIDE DEF row, access
<1>10. /\ refreshTokens' \in Seq(RefreshRow)
       /\ DOMAIN refreshTokens' = DOMAIN refreshTokens \cup {n} /\ n \notin DOMAIN refreshTokens
       /\ \A k \in DOMAIN refreshTokens : refreshTokens'[k] = Spent(i)[k]
       /\ refreshTokens'[n] = row
  <2>1. LET rows == Append(Spent(i), row) IN
        /\ rows \in Seq(RefreshRow)
        /\ DOMAIN rows = DOMAIN Spent(i) \cup {Len(Spent(i)) + 1}
        /\ Len(Spent(i)) + 1 \notin DOMAIN Spent(i)
        /\ \A k \in DOMAIN Spent(i) : rows[k] = Spent(i)[k]
        /\ rows[Len(Spent(i)) + 1] = row
    BY <1>6, <1>7, AppendedTable
  <2> QED BY <1>7, <1>8, <2>1
<1>11. /\ accessTokens' \in Seq(AccessRow)
       /\ DOMAIN accessTokens' = DOMAIN accessTokens \cup {m} /\ m \notin DOMAIN accessTokens
       /\ \A k \in DOMAIN accessTokens : accessTokens'[k] = accessTokens[k]
       /\ accessTokens'[m] = access
  BY <1>1, <1>6, <1>8, AppendedTable
<1>12. access.expiresAt <= refreshTokens'[f].createdAt + FamilyMax + AccessTtl
  <2>1. refreshTokens'[f].createdAt = refreshTokens[f].createdAt
    BY <1>3, <1>7, <1>10
  <2> QED BY <1>1, <1>2, <1>4, <1>9, <2>1
<1>13. n \in Nat /\ n # 0
  BY <1>1
<1>14. \A k \in DOMAIN refreshTokens :
         /\ refreshTokens'[k].family = refreshTokens[k].family
         /\ refreshTokens'[k].parent = refreshTokens[k].parent
         /\ refreshTokens'[k].actsAs = refreshTokens[k].actsAs
         /\ refreshTokens'[k].createdAt = refreshTokens[k].createdAt
         /\ refreshTokens'[k].revoked <=> (refreshTokens[k].revoked \/ k \in {i})
  BY <1>7, <1>10
<1>15. \E k \in DOMAIN refreshTokens :
         /\ {i} = {k} /\ f = FamilyOf(k) /\ ~refreshTokens[k].revoked
         /\ refreshTokens'[n].family = f /\ refreshTokens'[n].parent = k
         /\ refreshTokens'[n].actsAs = refreshTokens[k].actsAs
  BY <1>4, <1>9, <1>10
<1>16. Minted(f, {i})
  <2>1. ~refreshTokens'[n].revoked /\ accessTokens'[m].family = f
        /\ accessTokens'[m].expiresAt <= refreshTokens'[f].createdAt + FamilyMax + AccessTtl
    BY <1>9, <1>10, <1>11, <1>12
  <2> QED BY <1>10, <1>11, <1>13, <1>14, <1>15, <2>1 DEF Minted
<1>17. requests' \in [Request -> Exchange] /\ CodesSpent'
  BY DEF GrantInv, RotateRefreshToken, TypeOK, CodesSpent
<1> QED BY <1>16, <1>17

LEMMA MintingKeeps ==
  ASSUME GrantInv,
         \/ \E r \in Request : MintPair(r)
         \/ \E i \in DOMAIN refreshTokens : RotateRefreshToken(i)
  PROVE  GrantInv'
<1>1. ASSUME NEW r \in Request, MintPair(r) PROVE GrantInv'
  BY <1>1, MintPairMints, MintKeeps DEF MintPair
<1>2. ASSUME NEW i \in DOMAIN refreshTokens, RotateRefreshToken(i) PROVE GrantInv'
  BY <1>2, RotationMints, MintKeeps DEF RotateRefreshToken
<1> QED BY <1>1, <1>2

-----------------------------------------------------------------------------
(* What leaves the refresh tokens alone.                                   *)

LEMMA MintAloneKeeps ==
  ASSUME GrantInv, NEW r \in Request, MintAlone(r)
  PROVE  GrantInv'
<1> DEFINE m == Len(accessTokens) + 1
<1>1. /\ refreshTokens \in Seq(RefreshRow) /\ accessTokens \in Seq(AccessRow)
      /\ requests[r].code \in Code /\ now \in Nat /\ AccessTtl \in Nat
  BY GrantAssumption DEF GrantInv, TypeOK, CodesSpent, MintAlone
<1>2. FirstAccess(r, 0) \in AccessRow /\ FirstAccess(r, 0).family = 0
  BY <1>1 DEF AccessRow, FirstAccess
<1>3. /\ accessTokens' \in Seq(AccessRow)
      /\ DOMAIN accessTokens' = DOMAIN accessTokens \cup {m} /\ m \notin DOMAIN accessTokens
      /\ \A i \in DOMAIN accessTokens : accessTokens'[i] = accessTokens[i]
      /\ accessTokens'[m].family = 0
  BY <1>1, <1>2, AppendedTable DEF MintAlone
<1>4. /\ refreshTokens' = refreshTokens /\ scheduled' = scheduled
      /\ doomed' = doomed /\ replayed' = replayed
      /\ \A i \in DOMAIN refreshTokens : FamilyOf(i)' = FamilyOf(i)
  BY DEF MintAlone, history, FamilyOf
<1>5. requests' \in [Request -> Exchange] /\ CodesSpent'
  BY MoveKeeps DEF MintAlone
<1> HIDE DEF m
<1>6. TypeOK'
  <2>1. \A i \in DOMAIN accessTokens' : accessTokens'[i].family # 0 =>
             /\ accessTokens'[i].family \in DOMAIN refreshTokens
             /\ refreshTokens[accessTokens'[i].family].family = 0
    BY <1>3, RowsTyped DEF GrantInv
  <2> QED BY <1>3, <1>4, <1>5, <2>1 DEF GrantInv, TypeOK, MintAlone, authority
<1>7. OneLiveRefresh' /\ Succession' /\ AccessInTime'
  <2>1. OneLiveRefresh' /\ Succession'
    BY <1>4 DEF GrantInv, OneLiveRefresh, Succession
  <2> QED BY <1>3, <1>4, <2>1 DEF GrantInv, AccessInTime
<1>8. \A f : Ended(f) => Ended(f)' /\ f # 0
  BY <1>4, RowsTyped DEF GrantInv, Ended
<1>9. JobsEnded'
  BY <1>4, <1>8 DEF GrantInv, JobsEnded
<1>10. ReplayedEnded'
  BY <1>3, <1>4, <1>8 DEF GrantInv, ReplayedEnded
<1>11. \A i : RefreshCovered(i) => RefreshCovered(i)'
  BY <1>4 DEF RefreshCovered
<1>12. \A i : AccessCovered(i) => AccessCovered(i)'
  BY <1>3, <1>4 DEF AccessCovered
<1>13. DoomedCovered'
  BY <1>4, <1>11, <1>12 DEF GrantInv, DoomedCovered
<1> QED BY <1>5, <1>6, <1>7, <1>9, <1>10, <1>13 DEF GrantInv

LEMMA QuietKeeps ==
  ASSUME GrantInv, UNCHANGED <<refreshTokens, accessTokens, scheduled, history>>,
         now' \in Nat, codes' \in [Code -> CodeRow], requests' \in [Request -> Exchange],
         member' \in BOOLEAN, mappingActive' \in BOOLEAN,
         agents' \in [Agent -> {"listed", "unlisted", "inactive"}], CodesSpent'
  PROVE  GrantInv'
<1>1. /\ refreshTokens' = refreshTokens /\ accessTokens' = accessTokens
      /\ scheduled' = scheduled /\ doomed' = doomed /\ replayed' = replayed
      /\ \A i \in DOMAIN refreshTokens : FamilyOf(i)' = FamilyOf(i)
  BY DEF history, FamilyOf
<1>2. TypeOK'
  BY <1>1 DEF GrantInv, TypeOK
<1>3. OneLiveRefresh' /\ Succession' /\ AccessInTime'
  BY <1>1 DEF GrantInv, OneLiveRefresh, Succession, AccessInTime
<1>4. \A f : Ended(f) => Ended(f)'
  BY <1>1 DEF Ended
<1>5. JobsEnded' /\ ReplayedEnded'
  BY <1>1, <1>4 DEF GrantInv, JobsEnded, ReplayedEnded
<1>6. \A i : (RefreshCovered(i) => RefreshCovered(i)') /\ (AccessCovered(i) => AccessCovered(i)')
  BY <1>1 DEF RefreshCovered, AccessCovered
<1>7. DoomedCovered'
  BY <1>1, <1>6 DEF GrantInv, DoomedCovered
<1> QED BY <1>2, <1>3, <1>5, <1>7 DEF GrantInv

LEMMA PutKeeps ==
  ASSUME GrantInv, NEW c \in Code, NEW a \in Chosen, PutPersonCode(c, a)
  PROVE  GrantInv'
<1>1. now + CodeTtl \in Nat
  BY GrantAssumption DEF GrantInv, TypeOK
<1>2. codes' \in [Code -> CodeRow] /\ \A d \in Code : d # c => codes'[d] = codes[d]
  BY <1>1 DEF GrantInv, TypeOK, CodeRow, PutPersonCode
<1>3. CodesSpent'
  <2>1. requests' = requests /\ codes[c].state = "none"
    BY DEF PutPersonCode
  <2> QED BY <1>2, <2>1 DEF GrantInv, CodesSpent
<1> QED BY <1>2, <1>3, QuietKeeps DEF PutPersonCode, GrantInv, TypeOK, authority

LEMMA ConsumeKeeps ==
  ASSUME GrantInv, NEW r \in Request, NEW c \in Code, ConsumePersonCode(r, c)
  PROVE  GrantInv'
<1>1. requests \in [Request -> Exchange] /\ codes \in [Code -> CodeRow]
  BY DEF GrantInv, TypeOK
<1>2. CASE Redeemable(c)
  <2>1. /\ codes' \in [Code -> CodeRow] /\ codes'[c].state = "used"
        /\ \A d \in Code : d # c => codes'[d] = codes[d]
    BY <1>1, <1>2 DEF ConsumePersonCode, CodeRow
  <2>2. /\ requests' \in [Request -> Exchange]
        /\ requests'[r].code = c /\ requests'[r].pc # "idle"
        /\ \A q \in Request : q # r => requests'[q] = requests[q]
    <3>1. PICK pc \in {"refused", "redeemed"} :
            requests' = [requests EXCEPT ![r] = [pc |-> pc, code |-> c, won |-> TRUE]]
      BY <1>2 DEF ConsumePersonCode
    <3>2. [pc |-> pc, code |-> c, won |-> TRUE] \in Exchange
      BY DEF Exchange
    <3> QED BY <1>1, <3>1, <3>2
  <2>3. \A q \in Request : requests[q].won => requests[q].code # c
    BY <1>2 DEF GrantInv, CodesSpent, Redeemable
  <2>4. CodesSpent'
    BY <2>1, <2>2, <2>3 DEF GrantInv, CodesSpent
  <2> QED BY <2>1, <2>2, <2>4, QuietKeeps DEF ConsumePersonCode, GrantInv, TypeOK, authority
<1>3. CASE ~Redeemable(c)
  <2>1. codes' = codes
    BY <1>3 DEF ConsumePersonCode
  <2>2. /\ requests' \in [Request -> Exchange]
        /\ ~requests'[r].won /\ requests'[r].pc \in {"replayed", "refused"}
        /\ \A q \in Request : q # r => requests'[q] = requests[q]
    <3>1. PICK pc \in {"replayed", "refused"} :
            requests' = [requests EXCEPT ![r] = [pc |-> pc, code |-> c, won |-> FALSE]]
      BY <1>3 DEF ConsumePersonCode
    <3>2. [pc |-> pc, code |-> c, won |-> FALSE] \in Exchange
      BY DEF Exchange
    <3> QED BY <1>1, <3>1, <3>2
  <2>3. CodesSpent'
    BY <2>1, <2>2 DEF GrantInv, CodesSpent
  <2> QED BY <1>1, <2>1, <2>2, <2>3, QuietKeeps DEF ConsumePersonCode, GrantInv, TypeOK, authority
<1> QED BY <1>2, <1>3

LEMMA LookupKeeps ==
  ASSUME GrantInv, NEW r \in Request,
         LookupOrgMapping(r) \/ MintPairFails(r) \/ Die(r)
  PROVE  GrantInv'
<1>1. codes' = codes /\ UNCHANGED <<now, tables, authority, history>>
  BY DEF LookupOrgMapping, MintPairFails, Die, tables
<1>2. requests' \in [Request -> Exchange] /\ CodesSpent'
  <2>1. CASE LookupOrgMapping(r)
    <3>1. requests[r].code \in Code
      BY <2>1 DEF GrantInv, CodesSpent, LookupOrgMapping
    <3>2. CASE mappingActive
      BY <1>1, <2>1, <3>1, <3>2, MoveKeeps DEF LookupOrgMapping
    <3>3. CASE ~mappingActive
      BY <1>1, <2>1, <3>3, MoveKeeps DEF LookupOrgMapping
    <3> QED BY <3>2, <3>3
  <2>2. CASE MintPairFails(r)
    <3>1. requests[r].code \in Code
      BY <2>2 DEF GrantInv, CodesSpent, MintPairFails
    <3> QED BY <1>1, <2>2, <3>1, MoveKeeps DEF MintPairFails
  <2>3. CASE Die(r)
    BY <1>1, <2>3, MoveKeeps DEF Die
  <2> QED BY <2>1, <2>2, <2>3
<1> QED BY <1>1, <1>2, QuietKeeps DEF GrantInv, TypeOK, authority, tables

LEMMA AuthorityKeeps ==
  ASSUME GrantInv,
         RestoreMember \/ SetActive \/ Tick \/ \E a \in Agent : ChangeAgent(a)
  PROVE  GrantInv'
<1>1. UNCHANGED <<tables, requests, history>>
  BY DEF RestoreMember, SetActive, Tick, ChangeAgent
<1>2. CodesSpent'
  BY <1>1 DEF GrantInv, CodesSpent, tables
<1>3. /\ now' \in Nat /\ member' \in BOOLEAN /\ mappingActive' \in BOOLEAN
      /\ agents' \in [Agent -> {"listed", "unlisted", "inactive"}]
  <2>1. CASE RestoreMember
    BY <2>1 DEF GrantInv, TypeOK, RestoreMember
  <2>2. CASE SetActive
    BY <2>2 DEF GrantInv, TypeOK, SetActive
  <2>3. CASE Tick
    BY <2>3 DEF GrantInv, TypeOK, Tick, authority
  <2>4. CASE \E a \in Agent : ChangeAgent(a)
    BY <2>4 DEF GrantInv, TypeOK, ChangeAgent
  <2> QED BY <2>1, <2>2, <2>3, <2>4
<1> QED BY <1>1, <1>2, <1>3, QuietKeeps DEF GrantInv, TypeOK, tables

LEMMA PurgeKeeps ==
  ASSUME GrantInv, PurgeExpiredPersonCodes
  PROVE  GrantInv'
<1>1. /\ codes' \in [Code -> CodeRow]
      /\ \A c \in Code : codes'[c].state \in {codes[c].state, "purged"}
  BY DEF GrantInv, TypeOK, CodeRow, PurgeExpiredPersonCodes
<1>2. requests' = requests
  BY DEF PurgeExpiredPersonCodes
<1>3. CodesSpent'
  BY <1>1, <1>2 DEF GrantInv, CodesSpent
<1> QED BY <1>1, <1>2, <1>3, QuietKeeps DEF PurgeExpiredPersonCodes, GrantInv, TypeOK, authority

-----------------------------------------------------------------------------
(* The invariant holds.                                                    *)

LEMMA GrantStart == Init => GrantInv
<1> SUFFICES ASSUME Init PROVE GrantInv
  OBVIOUS
<1>1. refreshTokens \in Seq(RefreshRow) /\ accessTokens \in Seq(AccessRow)
  BY EmptySeq DEF Init
<1>2. DOMAIN refreshTokens = {} /\ DOMAIN accessTokens = {}
  BY DEF Init
<1>3. codes \in [Code -> CodeRow] /\ requests \in [Request -> Exchange]
  BY DEF Init, CodeRow, Exchange, Chosen
<1>4. TypeOK
  BY <1>1, <1>2, <1>3 DEF Init, TypeOK
<1>5. OneLiveRefresh /\ Succession /\ AccessInTime
  BY <1>2 DEF OneLiveRefresh, Succession, AccessInTime
<1>6. JobsEnded /\ ReplayedEnded /\ DoomedCovered
  BY DEF Init, JobsEnded, ReplayedEnded, DoomedCovered
<1>7. CodesSpent
  BY DEF Init, CodesSpent
<1> QED BY <1>4, <1>5, <1>6, <1>7 DEF GrantInv

LEMMA GrantStep == GrantInv /\ [Next]_vars => GrantInv'
<1> SUFFICES ASSUME GrantInv, [Next]_vars PROVE GrantInv'
  OBVIOUS
<1>1. ASSUME NEW c \in Code, NEW a \in Chosen, PutPersonCode(c, a) PROVE GrantInv'
  BY <1>1, PutKeeps
<1>2. ASSUME NEW r \in Request, ExchangeStep(r) PROVE GrantInv'
  BY <1>2, ConsumeKeeps, ReplayedCodeKeeps, LookupKeeps, MintingKeeps, MintAloneKeeps
     DEF ExchangeStep
<1>3. ASSUME NEW i \in DOMAIN refreshTokens, RefreshStep(i) PROVE GrantInv'
  BY <1>3, ReplayKeeps, RefusalKeeps, MintingKeeps DEF RefreshStep
<1>4. ASSUME NEW a \in Agent, DeactivateAgent(a) PROVE GrantInv'
  BY <1>4, DeactivationKeeps
<1>5. CASE RestoreMember \/ SetActive \/ Tick \/ \E a \in Agent : ChangeAgent(a)
  BY <1>5, AuthorityKeeps
<1>6. CASE RemoveMember
  BY <1>6, RemovalKeeps
<1>7. CASE Continue
  BY <1>7, ContinueFamilyKeeps, RemovalKeeps, DeactivationKeeps DEF Continue
<1>8. CASE PurgeExpiredPersonCodes
  BY <1>8, PurgeKeeps
<1>9. CASE UNCHANGED vars
  <2>1. CodesSpent'
    BY <1>9 DEF GrantInv, CodesSpent, vars, tables
  <2> QED BY <1>9, <2>1, QuietKeeps DEF GrantInv, TypeOK, vars, tables, authority
<1> QED BY <1>1, <1>2, <1>3, <1>4, <1>5, <1>6, <1>7, <1>8, <1>9 DEF Next

LEMMA GrantAlways == Spec => []GrantInv
BY GrantStart, GrantStep, PTL DEF Spec

\* The tables are as the code's schema and triggers leave them, and whatever
\* rotations, replays and removals follow each other, a family never has two
\* refresh tokens that can still be exchanged (rotateRefreshToken).
THEOREM TablesAreSound == Spec => []GrantsSound
<1>1. GrantInv => GrantsSound
  BY DEF GrantInv, GrantsSound
<1> QED BY <1>1, GrantAlways, PTL

\* No access token of a family outlives the family's absolute deadline by
\* more than its own lifetime, however often the family was rotated.
THEOREM FamiliesEnd == Spec => []FamilyEnds
<1>1. ASSUME GrantInv, NEW i \in LiveRows(accessTokens),
             accessTokens[i].family # 0, now <= accessTokens[i].expiresAt
      PROVE  now <= refreshTokens[accessTokens[i].family].createdAt + FamilyMax + AccessTtl
  <2>1. /\ i \in DOMAIN accessTokens /\ accessTokens[i] \in AccessRow
        /\ refreshTokens[accessTokens[i].family] \in RefreshRow /\ now \in Nat
    BY <1>1, RowsTyped DEF LiveRows, GrantInv, TypeOK
  <2>2. /\ accessTokens[i].expiresAt \in Nat
        /\ refreshTokens[accessTokens[i].family].createdAt \in Nat
        /\ FamilyMax \in Nat /\ AccessTtl \in Nat
    BY <2>1, GrantAssumption DEF AccessRow, RefreshRow
  <2>3. accessTokens[i].expiresAt
          <= refreshTokens[accessTokens[i].family].createdAt + FamilyMax + AccessTtl
    BY <1>1, <2>1 DEF GrantInv, AccessInTime
  <2> QED BY <1>1, <2>1, <2>2, <2>3
<1>2. GrantInv => FamilyEnds
  BY <1>1 DEF FamilyEnds
<1> QED BY <1>2, GrantAlways, PTL

\* What existed when its family was replayed or refused, its person removed
\* or its agent deactivated is revoked once no continuation is scheduled, for
\* a batch of any size and whatever was minted between two batches.
THEOREM TriggersReachAll == Spec => []TriggersReach
<1>1. ASSUME GrantInv, scheduled = {}, NEW t \in doomed
      PROVE  IF t[1] = "refresh" THEN refreshTokens[t[2]].revoked
                                 ELSE accessTokens[t[2]].revoked
  <2>1. PICK kind \in {"refresh", "access"}, i \in Nat : t = <<kind, i>>
    BY <1>1 DEF GrantInv, TypeOK
  <2>2. CASE kind = "refresh"
    BY <1>1, <2>1, <2>2 DEF GrantInv, DoomedCovered, RefreshCovered
  <2>3. CASE kind = "access"
    BY <1>1, <2>1, <2>3 DEF GrantInv, DoomedCovered, AccessCovered
  <2> QED BY <2>1, <2>2, <2>3
<1>2. GrantInv => TriggersReach
  BY <1>1 DEF TriggersReach
<1> QED BY <1>2, GrantAlways, PTL

\* Once the batches of a replayed family are done nothing of it is live, and
\* no rotation mints from it again.
THEOREM ReplayEnds == Spec => []ReplayEndsFamily
<1>1. GrantInv => ReplayEndsFamily
  BY DEF GrantInv, ReplayedEnded, ReplayEndsFamily, Ended, FamilyJob
<1> QED BY <1>1, GrantAlways, PTL

-----------------------------------------------------------------------------
(* A code is redeemed, and a refresh token exchanged, once.                *)

Winners(c) == {r \in Request : requests[r].won /\ requests[r].code = c}
Successors(i) == {j \in DOMAIN refreshTokens : refreshTokens[j].parent = i}

LEMMA NothingRedeemed ==
  ASSUME \A c \in Code : Winners(c)' = Winners(c),
         \A i \in 1 .. MaxRows : Successors(i)' = Successors(i)
  PROVE  Redemptions' = Redemptions
BY DEF Redemptions, Winners, Successors

LEMMA RedeemedNow ==
  ASSUME NEW k \in Code \cup (1 .. MaxRows), NEW s,
         \A c \in Code : IF c = k THEN Winners(c) = {} /\ Winners(c)' = {s}
                                  ELSE Winners(c)' = Winners(c),
         \A i \in (1 .. MaxRows) \ Code :
           IF i = k THEN Successors(i) = {} /\ Successors(i)' = {s}
                    ELSE Successors(i)' = Successors(i)
  PROVE  Grants!Next
<1>1. Cardinality({}) = 0 /\ Cardinality({s}) = 1
  BY FS_EmptySet, FS_Singleton
<1>2. Redemptions = [x \in Code \cup (1 .. MaxRows) |->
                       IF x \in Code THEN Cardinality(Winners(x)) ELSE Cardinality(Successors(x))]
  BY DEF Redemptions, Winners, Successors
<1>3. Redemptions' = [x \in Code \cup (1 .. MaxRows) |->
                        IF x \in Code THEN Cardinality(Winners(x)') ELSE Cardinality(Successors(x)')]
  BY DEF Redemptions, Winners, Successors
<1>4. Redemptions[k] = 0 /\ Redemptions'[k] = 1
  BY <1>1, <1>2, <1>3
<1>5. \A x \in Code \cup (1 .. MaxRows) : x # k => Redemptions'[x] = Redemptions[x]
  BY <1>2, <1>3
<1>6. Redemptions' = [Redemptions EXCEPT ![k] = 1]
  BY <1>2, <1>3, <1>4, <1>5
<1> QED BY <1>4, <1>6 DEF Grants!Next, Grants!TakeEffect

\* An exchange's own winnings, and the successors of the rows there are.
RequestsKept ==
  \A r \in Request : requests'[r].won = requests[r].won /\ requests'[r].code = requests[r].code

ParentsKept ==
  /\ DOMAIN refreshTokens' = DOMAIN refreshTokens
  /\ \A i \in DOMAIN refreshTokens : refreshTokens'[i].parent = refreshTokens[i].parent

LEMMA WinnersKept ==
  ASSUME RequestsKept
  PROVE  \A c \in Code : Winners(c)' = Winners(c)
BY DEF RequestsKept, Winners

LEMMA SuccessorsKept ==
  ASSUME ParentsKept
  PROVE  \A i \in 1 .. MaxRows : Successors(i)' = Successors(i)
BY DEF ParentsKept, Successors

LEMMA BatchKeepsParents ==
  ASSUME TypeOK, NEW R, NEW F, NEW Roots, NEW access, NEW queue,
         EndFamilies(F, Roots, Revoked(refreshTokens, R), access, queue)
  PROVE  ParentsKept
<1> DEFINE rows == Revoked(refreshTokens, R)
           ends == Roots \cup UNION {Page(LiveInFamily(rows, f)) : f \in F}
<1>1. refreshTokens \in Seq(RefreshRow)
  BY DEF TypeOK
<1>2. /\ rows \in Seq(RefreshRow) /\ DOMAIN rows = DOMAIN refreshTokens
      /\ \A i \in DOMAIN refreshTokens : rows[i].parent = refreshTokens[i].parent
  BY <1>1, RevokedRefresh
<1>3. refreshTokens' = Revoked(rows, ends)
  BY DEF EndFamilies
<1> HIDE DEF rows, ends
<1>4. /\ DOMAIN refreshTokens' = DOMAIN rows
      /\ \A i \in DOMAIN rows : refreshTokens'[i].parent = rows[i].parent
  BY <1>2, <1>3, RevokedRefresh
<1> QED BY <1>2, <1>4 DEF ParentsKept

LEMMA ConsumeOnce ==
  ASSUME GrantInv, NEW r \in Request, NEW c \in Code, ConsumePersonCode(r, c)
  PROVE  [Grants!Next]_Redemptions
<1>1. requests \in [Request -> Exchange] /\ refreshTokens' = refreshTokens
  BY DEF GrantInv, TypeOK, ConsumePersonCode
<1>2. \A i \in 1 .. MaxRows : Successors(i)' = Successors(i)
  BY <1>1 DEF Successors
<1>3. \A q \in Request : q # r => requests'[q] = requests[q]
  BY <1>1 DEF ConsumePersonCode
<1>4. requests[r].won = FALSE
  BY <1>1 DEF GrantInv, CodesSpent, ConsumePersonCode, Exchange
<1>5. CASE Redeemable(c)
  <2>1. requests'[r].won /\ requests'[r].code = c
    BY <1>1, <1>5 DEF ConsumePersonCode
  <2>2. \A q \in Request : requests[q].won => requests[q].code # c
    BY <1>5 DEF GrantInv, CodesSpent, Redeemable
  <2>3. Winners(c) = {} /\ Winners(c)' = {r}
    BY <1>3, <2>1, <2>2 DEF Winners
  <2>4. \A d \in Code : d # c => Winners(d)' = Winners(d)
    BY <1>3, <1>4, <2>1 DEF Winners
  <2>5. \A i \in (1 .. MaxRows) \ Code : i # c
    OBVIOUS
  <2> QED BY <1>2, <2>3, <2>4, <2>5, RedeemedNow
<1>6. CASE ~Redeemable(c)
  <2>1. ~requests'[r].won
    BY <1>1, <1>6 DEF ConsumePersonCode
  <2>2. \A d \in Code : Winners(d)' = Winners(d)
    BY <1>3, <1>4, <2>1 DEF Winners
  <2> QED BY <1>2, <2>2, NothingRedeemed
<1> QED BY <1>5, <1>6

LEMMA RotateOnce ==
  ASSUME GrantInv, NEW i \in DOMAIN refreshTokens, RotateRefreshToken(i)
  PROVE  Grants!Next
<1> DEFINE n == Len(refreshTokens) + 1
<1>1. /\ refreshTokens \in Seq(RefreshRow) /\ Len(refreshTokens) \in Nat
      /\ DOMAIN refreshTokens = 1 .. Len(refreshTokens)
  BY RowsTyped DEF GrantInv, TypeOK
<1>2. MaxRows \in Nat /\ i \in 1 .. MaxRows /\ i \notin Code
  BY <1>1, GrantAssumption DEF RotateRefreshToken, Room
<1>3. ~refreshTokens[i].revoked
  BY DEF RotateRefreshToken, Live
<1>4. Successors(i) = {}
  BY <1>2, <1>3, RowsTyped DEF GrantInv, Succession, Successors
<1>5. /\ DOMAIN refreshTokens' = DOMAIN refreshTokens \cup {n} /\ n \notin DOMAIN refreshTokens
      /\ \A k \in DOMAIN refreshTokens : refreshTokens'[k].parent = refreshTokens[k].parent
      /\ refreshTokens'[n].parent = i
  BY RotationMints DEF Minted
<1> HIDE DEF n
<1>6. Successors(i)' = {n}
  BY <1>4, <1>5 DEF Successors
<1>7. \A k \in 1 .. MaxRows : k # i => Successors(k)' = Successors(k)
  BY <1>5 DEF Successors
<1>8. \A c \in Code : c # i /\ Winners(c)' = Winners(c)
  BY <1>2 DEF RotateRefreshToken, Winners
<1> QED BY <1>2, <1>4, <1>6, <1>7, <1>8, RedeemedNow

LEMMA MintedOnce ==
  ASSUME GrantInv, NEW r \in Request, MintPair(r)
  PROVE  Redemptions' = Redemptions
<1>1. RequestsKept
  <2>1. \E pc : MoveTo(r, pc)
    BY DEF MintPair
  <2> QED BY <2>1 DEF GrantInv, TypeOK, MoveTo, RequestsKept
<1>2. ASSUME NEW i \in 1 .. MaxRows
      PROVE  Successors(i)' = Successors(i)
  <2> DEFINE n == Len(refreshTokens) + 1
  <2>1. /\ DOMAIN refreshTokens' = DOMAIN refreshTokens \cup {n}
        /\ \A k \in DOMAIN refreshTokens : refreshTokens'[k].parent = refreshTokens[k].parent
        /\ refreshTokens'[n].parent = 0
    BY MintPairMints DEF Minted
  <2> HIDE DEF n
  <2>2. i # 0
    BY GrantAssumption
  <2> QED BY <2>1, <2>2 DEF Successors
<1> QED BY <1>1, <1>2, WinnersKept, NothingRedeemed

LEMMA RedeemStep == GrantInv /\ [Next]_vars => [Grants!Next]_Redemptions
<1> SUFFICES ASSUME GrantInv, [Next]_vars PROVE [Grants!Next]_Redemptions
  OBVIOUS
<1>a. TypeOK
  BY DEF GrantInv
<1>b. ASSUME RequestsKept, ParentsKept PROVE [Grants!Next]_Redemptions
  BY <1>b, WinnersKept, SuccessorsKept, NothingRedeemed
<1>c. ASSUME NEW R, NEW F, NEW Roots, NEW access, NEW queue,
             EndFamilies(F, Roots, Revoked(refreshTokens, R), access, queue),
             requests' = requests
      PROVE  [Grants!Next]_Redemptions
  BY <1>a, <1>b, <1>c, BatchKeepsParents DEF RequestsKept
<1>d. Revoked(refreshTokens, {}) = refreshTokens
  BY <1>a, RevokedNone DEF TypeOK
<1>1. ASSUME NEW c \in Code, NEW a \in Chosen, PutPersonCode(c, a)
      PROVE  [Grants!Next]_Redemptions
  BY <1>1, <1>b DEF PutPersonCode, RequestsKept, ParentsKept
<1>2. ASSUME NEW r \in Request, ExchangeStep(r)
      PROVE  [Grants!Next]_Redemptions
  <2>1. CASE \E c \in Code : ConsumePersonCode(r, c)
    BY <2>1, ConsumeOnce
  <2>2. CASE MintPair(r)
    BY <2>2, MintedOnce
  <2>3. CASE RevokeAccessTokensForCode(r) \/ LookupOrgMapping(r) \/ MintPairFails(r)
               \/ MintAlone(r) \/ Die(r)
    <3>1. refreshTokens' = refreshTokens
      BY <2>3 DEF RevokeAccessTokensForCode, LookupOrgMapping, MintPairFails, MintAlone, Die, tables
    <3>2. \E pc : MoveTo(r, pc)
      BY <2>3 DEF RevokeAccessTokensForCode, LookupOrgMapping, MintPairFails, MintAlone, Die
    <3>3. RequestsKept
      BY <1>a, <3>2 DEF MoveTo, TypeOK, RequestsKept
    <3> QED BY <1>b, <3>1, <3>3 DEF ParentsKept
  <2> QED BY <1>2, <2>1, <2>2, <2>3 DEF ExchangeStep
<1>3. ASSUME NEW i \in DOMAIN refreshTokens, RefreshStep(i)
      PROVE  [Grants!Next]_Redemptions
  <2>1. CASE ReplayRefreshToken(i)
    BY <1>c, <1>d, <2>1 DEF ReplayRefreshToken
  <2>2. CASE RefuseRotation(i)
    BY <1>c, <1>d, <2>2 DEF RefuseRotation, EndFamiliesWithRoot
  <2>3. CASE RotateRefreshToken(i)
    BY <2>3, RotateOnce
  <2> QED BY <1>3, <2>1, <2>2, <2>3 DEF RefreshStep
<1>4. CASE RemoveMember \/ ContinueMemberRevoke
  BY <1>4, <1>c, <1>d
     DEF RemoveMember, ContinueMemberRevoke, RevokeMemberTokensBatch, EndFamiliesWithRoot
<1>5. CASE \E a \in Agent : DeactivateAgent(a) \/ ContinueAgentRevoke(a)
  BY <1>5, <1>c DEF DeactivateAgent, ContinueAgentRevoke, RevokeAgentBatch, EndFamiliesWithRoot
<1>6. CASE \E i \in DOMAIN refreshTokens : ContinueFamilyRevoke(i)
  BY <1>6, <1>c, <1>d DEF ContinueFamilyRevoke
<1>7. CASE RestoreMember \/ SetActive \/ (\E a \in Agent : ChangeAgent(a))
             \/ PurgeExpiredPersonCodes \/ Tick \/ UNCHANGED vars
  BY <1>7, <1>b DEF RestoreMember, SetActive, ChangeAgent, PurgeExpiredPersonCodes, Tick, vars,
                    tables, RequestsKept, ParentsKept
<1> QED BY <1>1, <1>2, <1>3, <1>4, <1>5, <1>6, <1>7 DEF Next, Continue

\* A consent code is redeemed, and a refresh token exchanged for a successor,
\* at most once: consumePersonCode and rotateRefreshToken implement
\* OncePerKey, whatever requests overlap, repeat or die.
THEOREM RedeemsOnce == Spec => RedeemedOnce
<1>1. Init => Grants!Init
  <2>1. Init => \A k : /\ {r \in Request : requests[r].won /\ requests[r].code = k} = {}
                       /\ {i \in DOMAIN refreshTokens : refreshTokens[i].parent = k} = {}
    BY DEF Init
  <2> QED BY <2>1, FS_EmptySet DEF Grants!Init, Redemptions
<1> QED BY <1>1, GrantAlways, RedeemStep, PTL DEF Spec, RedeemedOnce, Grants!Spec
=============================================================================
