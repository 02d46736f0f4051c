-------------------------- MODULE SeatGrantsProofs --------------------------
(***************************************************************************)
(* The seats' grants, for any number of seats, profiles, organisations and *)
(* requests and any size of a batch: the tables are well typed, no family  *)
(* has two refresh tokens to exchange, what a deletion, a replay or a      *)
(* cascade undertook to end is dead when the batches are done, and, where  *)
(* no profile is renamed, a token stands under its profile's organisation, *)
(* whatever labels pass on.                                                *)
(***************************************************************************)
EXTENDS SeatGrants, TokenTablesProofs

-----------------------------------------------------------------------------
(* The invariant.                                                          *)

FamilyJob(f) == [kind |-> "family", of |-> f]
NamesJob(P) == [kind |-> "cascade", of |-> P]

\* A family is continued by a rotation, which spends its first token, or the
\* successor that had spent it.
RootsSpent ==
  \A i \in DOMAIN refreshTokens :
    refreshTokens[i].family # 0 => refreshTokens[refreshTokens[i].family].revoked

GoneIsRevoked ==
  /\ \A i \in DOMAIN refreshTokens : refreshTokens[i].gone => refreshTokens[i].revoked
  /\ \A i \in DOMAIN accessTokens : accessTokens[i].gone => accessTokens[i].revoked

\* A request, a script and a walk have in hand what they go on with.
InHand ==
  /\ \A q \in Request : requests[q].pc \in {"read", "client", "profile"} =>
       requests[q].token \in DOMAIN refreshTokens /\ requests[q].profile \in Profile
  /\ \A c \in Client : scripts[c].next # "none" =>
       scripts[c].token \in {0} \cup DOMAIN refreshTokens /\ scripts[c].profile \in Profile
  /\ \A w \in walks : w.op = "retarget_scope" => w.to \in Profile

\* What is to be ended, and is not, has a continuation that comes to it: the
\* walk of its client, the batches of its family, or those of its name.
NameCovered(p) == \E P \in SUBSET Profile : p \in P /\ NamesJob(P) \in jobs

RefreshWalked(i) ==
  \E w \in Revoking : ~w.refreshDone /\ w.client = refreshTokens[i].client /\ w.refresh < i

AccessWalked(i) ==
  \E w \in Revoking : ~w.accessDone /\ w.client = accessTokens[i].client /\ w.access < i

RefreshCovered(i, byName) ==
  /\ i \in DOMAIN refreshTokens
  /\ \/ refreshTokens[i].revoked
     \/ byName /\ NameCovered(refreshTokens[i].profile)
     \/ ~byName /\ RefreshWalked(i)

AccessCovered(i, byName) ==
  /\ i \in DOMAIN accessTokens
  /\ \/ accessTokens[i].revoked
     \/ byName /\ NameCovered(accessTokens[i].profile)
     \/ ~byName /\ (AccessWalked(i) \/ FamilyJob(accessTokens[i].family) \in jobs)

DoomedCovered ==
  /\ \A i, byName : <<"refresh", i, byName>> \in doomed => RefreshCovered(i, byName)
  /\ \A i, byName : <<"access", i, byName>> \in doomed => AccessCovered(i, byName)

TablesInv == TypeOK /\ OneLiveRefresh /\ RootsSpent /\ GoneIsRevoked /\ InHand

SeatInv == TablesInv /\ DoomedCovered

\* A profile without an ID of its own fits any organisation.
Fits(o, row) == o = Nothing \/ row.org \in {Nothing, o}

\* Where no profile is renamed, every profile a row or anyone's hand names is
\* there, and a row's organisation is the one of its profile.
RowsNamed ==
  /\ \A i \in DOMAIN refreshTokens : profiles[refreshTokens[i].profile] # Nothing
  /\ \A i \in DOMAIN accessTokens :
       /\ profiles[accessTokens[i].profile] # Nothing
       /\ accessTokens[i].stray \/ Fits(accessTokens[i].org, profiles[accessTokens[i].profile])

HandsNamed ==
  /\ \A c \in Client : clients[c].profile # Nothing => profiles[clients[c].profile] # Nothing
  /\ \A c \in Client : scripts[c].next # "none" => profiles[scripts[c].profile] # Nothing
  /\ \A q \in Request : requests[q].pc \in {"read", "client", "profile"} =>
       profiles[requests[q].profile] # Nothing
  /\ \A w \in walks : w.op = "retarget_scope" => profiles[w.to] # Nothing

NoNameChanges == \A j \in jobs : j.kind = "family"

NamesInv == SeatInv /\ RowsNamed /\ HandsNamed /\ NoNameChanges

-----------------------------------------------------------------------------
(* The rows.                                                               *)

LEMMA SeatRows ==
  ASSUME TypeOK
  PROVE  /\ refreshTokens \in Seq(RefreshRow) /\ accessTokens \in Seq(AccessRow)
         /\ Len(refreshTokens) \in Nat /\ DOMAIN refreshTokens = 1 .. Len(refreshTokens)
         /\ Len(accessTokens) \in Nat /\ DOMAIN accessTokens = 1 .. Len(accessTokens)
         /\ \A i \in DOMAIN refreshTokens :
              /\ refreshTokens[i] \in RefreshRow
              /\ refreshTokens[i].family \in Nat /\ refreshTokens[i].family < i
              /\ refreshTokens[i].family # 0 =>
                   /\ refreshTokens[i].family \in DOMAIN refreshTokens
                   /\ refreshTokens[refreshTokens[i].family].family = 0
         /\ \A i \in DOMAIN accessTokens :
              accessTokens[i] \in AccessRow /\ accessTokens[i].family \in {0} \cup DOMAIN refreshTokens
<1>1. refreshTokens \in Seq(RefreshRow) /\ accessTokens \in Seq(AccessRow)
  BY DEF TypeOK
<1>2. /\ Len(refreshTokens) \in Nat /\ DOMAIN refreshTokens = 1 .. Len(refreshTokens)
      /\ Len(accessTokens) \in Nat /\ DOMAIN accessTokens = 1 .. Len(accessTokens)
  BY <1>1, LenProperties
<1>3. \A i \in DOMAIN refreshTokens : refreshTokens[i] \in RefreshRow
  BY <1>1, <1>2, ElementOfSeq
<1>4. \A i \in DOMAIN accessTokens : accessTokens[i] \in AccessRow
  BY <1>1, <1>2, ElementOfSeq
<1>5. \A i \in DOMAIN refreshTokens :
        refreshTokens[i].family \in Nat /\ refreshTokens[i].family < i
  BY <1>3 DEF TypeOK, RefreshRow
<1>6. \A i \in DOMAIN refreshTokens : refreshTokens[i].family # 0 =>
        /\ refreshTokens[i].family \in DOMAIN refreshTokens
        /\ refreshTokens[refreshTokens[i].family].family = 0
  BY <1>2, <1>5 DEF TypeOK
<1> QED BY <1>1, <1>2, <1>3, <1>4, <1>5, <1>6 DEF TypeOK

\* A token is of the family of its first token, which has none of its own.
LEMMA FamilyOfRow ==
  ASSUME TypeOK, NEW i \in DOMAIN refreshTokens
  PROVE  /\ FamilyOf(i) \in DOMAIN refreshTokens /\ FamilyOf(i) # 0
         /\ refreshTokens[FamilyOf(i)].family = 0 /\ FamilyOf(FamilyOf(i)) = FamilyOf(i)
BY SeatRows DEF FamilyOf

\* What a table keeps where rows are ended or renamed and none is minted.
RefreshKept ==
  /\ refreshTokens' \in Seq(RefreshRow) /\ DOMAIN refreshTokens' = DOMAIN refreshTokens
  /\ \A i \in DOMAIN refreshTokens :
       /\ refreshTokens'[i].family = refreshTokens[i].family
       /\ refreshTokens'[i].client = refreshTokens[i].client
       /\ refreshTokens[i].revoked => refreshTokens'[i].revoked
       /\ refreshTokens'[i].gone => refreshTokens[i].gone \/ refreshTokens'[i].revoked

AccessKept ==
  /\ accessTokens' \in Seq(AccessRow) /\ DOMAIN accessTokens' = DOMAIN accessTokens
  /\ \A i \in DOMAIN accessTokens :
       /\ accessTokens'[i].family = accessTokens[i].family
       /\ accessTokens'[i].client = accessTokens[i].client
       /\ accessTokens[i].revoked => accessTokens'[i].revoked
       /\ accessTokens'[i].gone => accessTokens[i].gone \/ accessTokens'[i].revoked

\* The part of TypeOK and of the invariant that is about each table.
RefreshSound ==
  /\ refreshTokens \in Seq(RefreshRow)
  /\ \A i \in DOMAIN refreshTokens :
       LET f == refreshTokens[i].family IN f < i /\ (f # 0 => refreshTokens[f].family = 0)
  /\ \A i \in DOMAIN refreshTokens : refreshTokens[i].gone => refreshTokens[i].revoked
  /\ OneLiveRefresh /\ RootsSpent

AccessSound ==
  /\ accessTokens \in Seq(AccessRow)
  /\ \A i \in DOMAIN accessTokens :
       /\ accessTokens[i].family \in {0} \cup DOMAIN refreshTokens
       /\ accessTokens[i].gone => accessTokens[i].revoked

LEMMA KeptRefresh ==
  ASSUME TablesInv, RefreshKept
  PROVE  RefreshSound'
<1>a. \A i \in DOMAIN refreshTokens : refreshTokens[i].family # 0 =>
        refreshTokens[i].family \in DOMAIN refreshTokens
  BY SeatRows DEF TablesInv
<1>1. \A i \in DOMAIN refreshTokens : FamilyOf(i)' = FamilyOf(i)
  BY DEF RefreshKept, FamilyOf
<1>2. \A i \in DOMAIN refreshTokens' :
        LET f == refreshTokens'[i].family IN f < i /\ (f # 0 => refreshTokens'[f].family = 0)
  BY <1>a DEF TablesInv, TypeOK, RefreshKept
<1>3. OneLiveRefresh'
  BY <1>1 DEF TablesInv, OneLiveRefresh, RefreshKept
<1>4. RootsSpent'
  BY <1>a DEF TablesInv, RootsSpent, RefreshKept
<1>5. \A i \in DOMAIN refreshTokens' : refreshTokens'[i].gone => refreshTokens'[i].revoked
  BY DEF TablesInv, GoneIsRevoked, RefreshKept
<1> QED BY <1>2, <1>3, <1>4, <1>5 DEF RefreshSound, RefreshKept

LEMMA KeptAccess ==
  ASSUME TablesInv, AccessKept, DOMAIN refreshTokens \subseteq DOMAIN refreshTokens'
  PROVE  AccessSound'
BY SeatRows DEF TablesInv, AccessKept, AccessSound, GoneIsRevoked

\* What minting leaves: a row of family f more, and of the older ones what they were.
RefreshMinted(f) ==
  LET n == Len(refreshTokens) + 1 IN
  /\ refreshTokens' \in Seq(RefreshRow) /\ DOMAIN refreshTokens' = DOMAIN refreshTokens \cup {n}
  /\ refreshTokens'[n].family = f /\ ~refreshTokens'[n].gone
  /\ \A i \in DOMAIN refreshTokens :
       /\ refreshTokens'[i].family = refreshTokens[i].family
       /\ refreshTokens'[i].client = refreshTokens[i].client
       /\ refreshTokens'[i].profile = refreshTokens[i].profile
       /\ refreshTokens[i].revoked => refreshTokens'[i].revoked
       /\ refreshTokens'[i].gone => refreshTokens[i].gone

AccessMinted ==
  /\ accessTokens' \in Seq(AccessRow) /\ DOMAIN accessTokens \subseteq DOMAIN accessTokens'
  /\ \A i \in DOMAIN accessTokens' : i \notin DOMAIN accessTokens =>
       ~accessTokens'[i].gone /\ accessTokens'[i].family \in {0} \cup DOMAIN refreshTokens'
  /\ \A i \in DOMAIN accessTokens : accessTokens'[i] = accessTokens[i]

LEMMA MintedRefresh ==
  ASSUME TablesInv, NEW f \in {0} \cup DOMAIN refreshTokens, RefreshMinted(f),
         f # 0 => /\ refreshTokens[f].family = 0
                  /\ \A i \in DOMAIN refreshTokens : FamilyOf(i) = f => refreshTokens'[i].revoked
  PROVE  RefreshSound'
<1>1. PICK n : n = Len(refreshTokens) + 1
  OBVIOUS
<1>2. /\ Len(refreshTokens) \in Nat /\ DOMAIN refreshTokens = 1 .. Len(refreshTokens)
      /\ \A i \in DOMAIN refreshTokens :
           /\ refreshTokens[i].family < i
           /\ refreshTokens[i].family # 0 =>
                /\ refreshTokens[i].family \in DOMAIN refreshTokens
                /\ refreshTokens[refreshTokens[i].family].family = 0
  BY SeatRows DEF TablesInv
<1>3. /\ n \in Nat /\ n # 0 /\ n \notin DOMAIN refreshTokens
      /\ DOMAIN refreshTokens' = DOMAIN refreshTokens \cup {n}
      /\ refreshTokens'[n].family = f /\ ~refreshTokens'[n].gone
      /\ \A i \in DOMAIN refreshTokens : i < n
  BY <1>1, <1>2 DEF RefreshMinted
<1>4. \A i \in DOMAIN refreshTokens : FamilyOf(i)' = FamilyOf(i)
  BY DEF RefreshMinted, FamilyOf
<1>5. FamilyOf(n)' = IF f = 0 THEN n ELSE f
  BY <1>3 DEF FamilyOf
<1>6. \A i \in DOMAIN refreshTokens : FamilyOf(i) # n
  BY <1>3, FamilyOfRow DEF TablesInv
<1>7. \A i \in DOMAIN refreshTokens' :
        LET g == refreshTokens'[i].family IN g < i /\ (g # 0 => refreshTokens'[g].family = 0)
  <2>1. ASSUME NEW i \in DOMAIN refreshTokens
        PROVE  LET g == refreshTokens'[i].family IN g < i /\ (g # 0 => refreshTokens'[g].family = 0)
    BY <1>2 DEF RefreshMinted
  <2>2. f < n /\ (f # 0 => refreshTokens'[f].family = 0)
    BY <1>3 DEF RefreshMinted
  <2> QED BY <1>3, <2>1, <2>2
<1>8. OneLiveRefresh'
  <2> SUFFICES ASSUME NEW i \in DOMAIN refreshTokens', NEW j \in DOMAIN refreshTokens',
                      i # j, FamilyOf(i)' = FamilyOf(j)',
                      ~refreshTokens'[i].revoked, ~refreshTokens'[j].revoked
               PROVE  FALSE
    BY DEF OneLiveRefresh
  <2>1. CASE i \in DOMAIN refreshTokens /\ j \in DOMAIN refreshTokens
    BY <1>4, <2>1 DEF TablesInv, OneLiveRefresh, RefreshMinted
  <2>2. CASE i = n /\ j \in DOMAIN refreshTokens
    BY <1>4, <1>5, <1>6, <2>2
  <2>3. CASE j = n /\ i \in DOMAIN refreshTokens
    BY <1>4, <1>5, <1>6, <2>3
  <2> QED BY <1>3, <2>1, <2>2, <2>3
<1>9. RootsSpent'
  <2> SUFFICES ASSUME NEW i \in DOMAIN refreshTokens', refreshTokens'[i].family # 0
               PROVE  refreshTokens'[refreshTokens'[i].family].revoked
    BY DEF RootsSpent
  <2>1. CASE i \in DOMAIN refreshTokens
    BY <1>2, <2>1 DEF TablesInv, RootsSpent, RefreshMinted
  <2>2. CASE i = n
    <3>1. f # 0 /\ FamilyOf(f) = f
      BY <1>3, <2>2 DEF FamilyOf
    <3> QED BY <1>3, <2>2, <3>1
  <2> QED BY <1>3, <2>1, <2>2
<1>10. \A i \in DOMAIN refreshTokens' : refreshTokens'[i].gone => refreshTokens'[i].revoked
  BY <1>3 DEF TablesInv, GoneIsRevoked, RefreshMinted
<1> QED BY <1>7, <1>8, <1>9, <1>10 DEF RefreshSound, RefreshMinted

LEMMA MintedAccess ==
  ASSUME TablesInv, AccessMinted, DOMAIN refreshTokens \subseteq DOMAIN refreshTokens'
  PROVE  AccessSound'
<1>1. ASSUME NEW i \in DOMAIN accessTokens'
      PROVE  /\ accessTokens'[i].family \in {0} \cup DOMAIN refreshTokens'
             /\ accessTokens'[i].gone => accessTokens'[i].revoked
  <2>1. CASE i \in DOMAIN accessTokens
    BY <2>1, SeatRows DEF TablesInv, AccessMinted, GoneIsRevoked
  <2>2. CASE i \notin DOMAIN accessTokens
    BY <2>2 DEF AccessMinted
  <2> QED BY <2>1, <2>2
<1> QED BY <1>1 DEF AccessSound, AccessMinted

\* Ending rows.
LEMMA RevokedRefresh ==
  ASSUME NEW rows \in Seq(RefreshRow), NEW S
  PROVE  /\ Revoked(rows, S) \in Seq(RefreshRow)
         /\ Len(Revoked(rows, S)) = Len(rows) /\ DOMAIN Revoked(rows, S) = DOMAIN rows
         /\ \A i \in DOMAIN rows :
              /\ Revoked(rows, S)[i].family = rows[i].family
              /\ Revoked(rows, S)[i].client = rows[i].client
              /\ Revoked(rows, S)[i].profile = rows[i].profile
              /\ Revoked(rows, S)[i].gone = rows[i].gone
              /\ Revoked(rows, S)[i].revoked <=> (rows[i].revoked \/ i \in S)
<1>1. \A r \in RefreshRow : RevokedRow(r) \in RefreshRow
  BY DEF RefreshRow, RevokedRow
<1>2. \A i \in DOMAIN rows : rows[i] \in RefreshRow
  BY LenProperties, ElementOfSeq
<1>3. /\ Revoked(rows, S) \in Seq(RefreshRow)
      /\ Len(Revoked(rows, S)) = Len(rows) /\ DOMAIN Revoked(rows, S) = DOMAIN rows
      /\ \A i \in DOMAIN rows :
           Revoked(rows, S)[i] = IF i \in S THEN RevokedRow(rows[i]) ELSE rows[i]
  BY <1>1, RevokedTable
<1>4. ASSUME NEW i \in DOMAIN rows
      PROVE  /\ Revoked(rows, S)[i].family = rows[i].family
             /\ Revoked(rows, S)[i].client = rows[i].client
             /\ Revoked(rows, S)[i].profile = rows[i].profile
             /\ Revoked(rows, S)[i].gone = rows[i].gone
             /\ Revoked(rows, S)[i].revoked <=> (rows[i].revoked \/ i \in S)
  <2>1. rows[i] \in RefreshRow
    BY <1>2
  <2>2. CASE i \in S
    BY <1>3, <2>1, <2>2 DEF RefreshRow, RevokedRow
  <2>3. CASE i \notin S
    BY <1>3, <2>3
  <2> QED BY <2>2, <2>3
<1> QED BY <1>3, <1>4

LEMMA RevokedAccess ==
  ASSUME NEW rows \in Seq(AccessRow), NEW S
  PROVE  /\ Revoked(rows, S) \in Seq(AccessRow)
         /\ Len(Revoked(rows, S)) = Len(rows) /\ DOMAIN Revoked(rows, S) = DOMAIN rows
         /\ \A i \in DOMAIN rows :
              /\ Revoked(rows, S)[i].family = rows[i].family
              /\ Revoked(rows, S)[i].client = rows[i].client
              /\ Revoked(rows, S)[i].profile = rows[i].profile
              /\ Revoked(rows, S)[i].org = rows[i].org
              /\ Revoked(rows, S)[i].stray = rows[i].stray
              /\ Revoked(rows, S)[i].gone = rows[i].gone
              /\ Revoked(rows, S)[i].revoked <=> (rows[i].revoked \/ i \in S)
<1>1. \A r \in AccessRow : RevokedRow(r) \in AccessRow
  BY DEF AccessRow, RevokedRow
<1>2. \A i \in DOMAIN rows : rows[i] \in AccessRow
  BY LenProperties, ElementOfSeq
<1>3. /\ Revoked(rows, S) \in Seq(AccessRow)
      /\ Len(Revoked(rows, S)) = Len(rows) /\ DOMAIN Revoked(rows, S) = DOMAIN rows
      /\ \A i \in DOMAIN rows :
           Revoked(rows, S)[i] = IF i \in S THEN RevokedRow(rows[i]) ELSE rows[i]
  BY <1>1, RevokedTable
<1>4. ASSUME NEW i \in DOMAIN rows
      PROVE  /\ Revoked(rows, S)[i].family = rows[i].family
             /\ Revoked(rows, S)[i].client = rows[i].client
             /\ Revoked(rows, S)[i].profile = rows[i].profile
             /\ Revoked(rows, S)[i].org = rows[i].org
             /\ Revoked(rows, S)[i].stray = rows[i].stray
             /\ Revoked(rows, S)[i].gone = rows[i].gone
             /\ Revoked(rows, S)[i].revoked <=> (rows[i].revoked \/ i \in S)
  <2>1. rows[i] \in AccessRow
    BY <1>2
  <2>2. CASE i \in S
    BY <1>3, <2>1, <2>2 DEF AccessRow, RevokedRow
  <2>3. CASE i \notin S
    BY <1>3, <2>3
  <2> QED BY <2>2, <2>3
<1> QED BY <1>3, <1>4

DeletedRow(r) == [r EXCEPT !.revoked = TRUE, !.gone = TRUE]

LEMMA DeletedTable ==
  ASSUME NEW T, NEW rows \in Seq(T), NEW S, \A r \in T : DeletedRow(r) \in T
  PROVE  /\ Deleted(rows, S) \in Seq(T) /\ DOMAIN Deleted(rows, S) = DOMAIN rows
         /\ \A i \in DOMAIN rows :
              Deleted(rows, S)[i] = IF i \in S THEN DeletedRow(rows[i]) ELSE rows[i]
<1>1. \A i \in DOMAIN rows : rows[i] \in T
  BY LenProperties, ElementOfSeq
<1> DEFINE new == Deleted(rows, S)
<1>2. new = [i \in DOMAIN rows |-> IF i \in S THEN DeletedRow(rows[i]) ELSE rows[i]]
  BY DEF Deleted, DeletedRow
<1>3. /\ new = [i \in DOMAIN rows |-> new[i]]
      /\ \A i \in DOMAIN rows : new[i] = IF i \in S THEN DeletedRow(rows[i]) ELSE rows[i]
  <2> HIDE DEF new
  <2> QED BY <1>2
<1> HIDE DEF new
<1>4. \A i \in DOMAIN rows : new[i] \in T
  BY <1>1, <1>3
<1>5. new \in Seq(T) /\ DOMAIN new = DOMAIN rows
  BY <1>3, <1>4, MappedTable
<1> QED BY <1>3, <1>5 DEF new

LEMMA DeletedRefresh ==
  ASSUME NEW rows \in Seq(RefreshRow), NEW S
  PROVE  /\ Deleted(rows, S) \in Seq(RefreshRow) /\ DOMAIN Deleted(rows, S) = DOMAIN rows
         /\ \A i \in DOMAIN rows :
              /\ Deleted(rows, S)[i].family = rows[i].family
              /\ Deleted(rows, S)[i].client = rows[i].client
              /\ Deleted(rows, S)[i].profile = rows[i].profile
              /\ Deleted(rows, S)[i].revoked <=> (rows[i].revoked \/ i \in S)
              /\ Deleted(rows, S)[i].gone <=> (rows[i].gone \/ i \in S)
<1>1. \A r \in RefreshRow : DeletedRow(r) \in RefreshRow
  BY DEF RefreshRow, DeletedRow
<1>2. \A i \in DOMAIN rows : rows[i] \in RefreshRow
  BY LenProperties, ElementOfSeq
<1>3. /\ Deleted(rows, S) \in Seq(RefreshRow) /\ DOMAIN Deleted(rows, S) = DOMAIN rows
      /\ \A i \in DOMAIN rows :
           Deleted(rows, S)[i] = IF i \in S THEN DeletedRow(rows[i]) ELSE rows[i]
  BY <1>1, DeletedTable
<1>4. ASSUME NEW i \in DOMAIN rows
      PROVE  /\ Deleted(rows, S)[i].family = rows[i].family
             /\ Deleted(rows, S)[i].client = rows[i].client
             /\ Deleted(rows, S)[i].profile = rows[i].profile
             /\ Deleted(rows, S)[i].revoked <=> (rows[i].revoked \/ i \in S)
             /\ Deleted(rows, S)[i].gone <=> (rows[i].gone \/ i \in S)
  <2>1. rows[i] \in RefreshRow
    BY <1>2
  <2>2. CASE i \in S
    BY <1>3, <2>1, <2>2 DEF RefreshRow, DeletedRow
  <2>3. CASE i \notin S
    BY <1>3, <2>3
  <2> QED BY <2>2, <2>3
<1> QED BY <1>3, <1>4

LEMMA DeletedAccess ==
  ASSUME NEW rows \in Seq(AccessRow), NEW S
  PROVE  /\ Deleted(rows, S) \in Seq(AccessRow) /\ DOMAIN Deleted(rows, S) = DOMAIN rows
         /\ \A i \in DOMAIN rows :
              /\ Deleted(rows, S)[i].family = rows[i].family
              /\ Deleted(rows, S)[i].client = rows[i].client
              /\ Deleted(rows, S)[i].profile = rows[i].profile
              /\ Deleted(rows, S)[i].revoked <=> (rows[i].revoked \/ i \in S)
              /\ Deleted(rows, S)[i].gone <=> (rows[i].gone \/ i \in S)
<1>1. \A r \in AccessRow : DeletedRow(r) \in AccessRow
  BY DEF AccessRow, DeletedRow
<1>2. \A i \in DOMAIN rows : rows[i] \in AccessRow
  BY LenProperties, ElementOfSeq
<1>3. /\ Deleted(rows, S) \in Seq(AccessRow) /\ DOMAIN Deleted(rows, S) = DOMAIN rows
      /\ \A i \in DOMAIN rows :
           Deleted(rows, S)[i] = IF i \in S THEN DeletedRow(rows[i]) ELSE rows[i]
  BY <1>1, DeletedTable
<1>4. ASSUME NEW i \in DOMAIN rows
      PROVE  /\ Deleted(rows, S)[i].family = rows[i].family
             /\ Deleted(rows, S)[i].client = rows[i].client
             /\ Deleted(rows, S)[i].profile = rows[i].profile
             /\ Deleted(rows, S)[i].revoked <=> (rows[i].revoked \/ i \in S)
             /\ Deleted(rows, S)[i].gone <=> (rows[i].gone \/ i \in S)
  <2>1. rows[i] \in AccessRow
    BY <1>2
  <2>2. CASE i \in S
    BY <1>3, <2>1, <2>2 DEF AccessRow, DeletedRow
  <2>3. CASE i \notin S
    BY <1>3, <2>3
  <2> QED BY <2>2, <2>3
<1> QED BY <1>3, <1>4


\* The part of TypeOK that is not about the two tables.
RestTyped ==
  /\ now \in Nat
  /\ clients \in [Client -> [profile : OrNothing(Profile), revoked : BOOLEAN]]
  /\ profiles \in [Profile -> OrNothing(ProfileRow)]
  /\ mappingActive \in [Org -> BOOLEAN] /\ mappingLabel \in [Org -> Label]
  /\ scripts \in [Client -> [next : {"none", "refresh", "access"}, profile : OrNothing(Profile),
                         token : Nat]]
  /\ walks \subseteq Walk
  /\ jobs \subseteq [kind : {"family"}, of : Nat]
             \cup [kind : {"cascade"}, of : SUBSET Profile]
             \cup [kind : {"retarget"}, from : Profile, to : Profile]
  /\ requests \in [Request -> Grant]
  /\ doomed \subseteq {"refresh", "access"} \X Nat \X BOOLEAN

LEMMA InvParts == TablesInv <=> RefreshSound /\ AccessSound /\ RestTyped /\ InHand
BY DEF TablesInv, TypeOK, RefreshSound, AccessSound, RestTyped, GoneIsRevoked

-----------------------------------------------------------------------------
(* The pages of a walk.                                                    *)

\* What a walk's page leaves of its client's rows lies ahead of its cursor.
LEMMA PageAndCursor ==
  ASSUME NEW T, NEW rows \in Seq(T), NEW c, NEW cursor \in Nat
  PROVE  LET S == After(rows, c, cursor) IN
         /\ LastOf(Page(S), cursor) \in Nat
         /\ \A i \in S : \/ i \in Page(S)
                         \/ ~LastPage(rows, c, cursor) /\ LastOf(Page(S), cursor) < i
<1> DEFINE S == After(rows, c, cursor)
<1>1. S \subseteq DOMAIN rows /\ \A i \in S : cursor < i
  <2>1. Len(rows) \in Nat /\ DOMAIN rows = 1 .. Len(rows)
    BY LenProperties
  <2> QED BY <2>1 DEF After, RowsOf
<1>2. LastPage(rows, c, cursor) <=> Cardinality(S) < Batch
  BY DEF LastPage
<1> HIDE DEF S
<1>3. S \in SUBSET Nat /\ IsFiniteSet(S) /\ Cardinality(S) \in Nat
  BY <1>1, RowsFinite
<1>4. Page(S) \subseteq S
  BY DEF Page
<1>5. /\ LastOf(Page(S), cursor) \in Nat
      /\ Page(S) = {} => LastOf(Page(S), cursor) = cursor
      /\ Page(S) # {} => LastOf(Page(S), cursor) \in Page(S)
  <2>1. CASE Page(S) = {}
    BY <2>1 DEF LastOf
  <2>2. CASE Page(S) # {}
    <3>1. Len(rows) \in Nat /\ DOMAIN rows = 1 .. Len(rows)
      BY LenProperties
    <3>2. Page(S) \subseteq 0 .. Len(rows)
      BY <1>1, <1>4, <3>1
    <3>3. \E x \in Page(S) : \A y \in Page(S) : y <= x
      BY <2>2, <3>1, <3>2, LastRow
    <3>4. LastOf(Page(S), cursor) \in Page(S)
      BY <2>2, <3>3 DEF LastOf
    <3> QED BY <2>2, <3>4, <1>3, <1>4
  <2> QED BY <2>1, <2>2
<1>6. ASSUME NEW i \in S, i \notin Page(S)
      PROVE  ~LastPage(rows, c, cursor) /\ LastOf(Page(S), cursor) < i
  <2>1. ~(Cardinality(S) < Batch)
    <3> SUFFICES ASSUME Cardinality(S) < Batch PROVE FALSE
      OBVIOUS
    <3>1. Page(S) = S
      BY <1>3, PageOfFew, BatchAssumption
    <3> QED BY <3>1, <1>6
  <2>2. \A j \in Page(S) : j < i
    BY <1>3, <1>6, PageIsFirst
  <2> QED BY <1>1, <1>2, <1>5, <2>1, <2>2
<1> QED BY <1>5, <1>6 DEF S


-----------------------------------------------------------------------------
(* Renamed rows.                                                           *)

RenamedRow(r, p) == [r EXCEPT !.profile = p]
RehomedRow(r, p, o, s) == [r EXCEPT !.profile = p, !.org = o, !.stray = s]
Rehomed(rows, S, p, o, s) ==
  [i \in DOMAIN rows |-> IF i \in S THEN RehomedRow(rows[i], p, o, s) ELSE rows[i]]

LEMMA RenamedRefresh ==
  ASSUME NEW rows \in Seq(RefreshRow), NEW S, NEW p \in Profile
  PROVE  /\ Retarget(rows, S, p) \in Seq(RefreshRow)
         /\ DOMAIN Retarget(rows, S, p) = DOMAIN rows
         /\ \A i \in DOMAIN rows :
              /\ Retarget(rows, S, p)[i].family = rows[i].family
              /\ Retarget(rows, S, p)[i].client = rows[i].client
              /\ Retarget(rows, S, p)[i].revoked = rows[i].revoked
              /\ Retarget(rows, S, p)[i].gone = rows[i].gone
              /\ Retarget(rows, S, p)[i].profile = IF i \in S THEN p ELSE rows[i].profile
<1>1. \A r \in RefreshRow :
        /\ RenamedRow(r, p) \in RefreshRow
        /\ RenamedRow(r, p).family = r.family /\ RenamedRow(r, p).client = r.client
        /\ RenamedRow(r, p).revoked = r.revoked /\ RenamedRow(r, p).gone = r.gone
        /\ RenamedRow(r, p).profile = p
  BY DEF RefreshRow, RenamedRow
<1>2. \A i \in DOMAIN rows : rows[i] \in RefreshRow
  BY LenProperties, ElementOfSeq
<1> DEFINE new == Retarget(rows, S, p)
<1>3. /\ new = [i \in DOMAIN rows |-> new[i]]
      /\ \A i \in DOMAIN rows : new[i] = IF i \in S THEN RenamedRow(rows[i], p) ELSE rows[i]
  BY DEF Retarget, RenamedRow
<1> HIDE DEF new
<1>4. \A i \in DOMAIN rows : new[i] \in RefreshRow
  BY <1>1, <1>2, <1>3
<1>5. new \in Seq(RefreshRow) /\ DOMAIN new = DOMAIN rows
  BY <1>3, <1>4, MappedTable
<1>6. ASSUME NEW i \in DOMAIN rows
      PROVE  /\ new[i].family = rows[i].family /\ new[i].client = rows[i].client
             /\ new[i].revoked = rows[i].revoked /\ new[i].gone = rows[i].gone
             /\ new[i].profile = IF i \in S THEN p ELSE rows[i].profile
  <2>1. CASE i \in S
    BY <1>1, <1>2, <1>3, <2>1
  <2>2. CASE i \notin S
    BY <1>3, <2>2
  <2> QED BY <2>1, <2>2
<1> QED BY <1>5, <1>6 DEF new

LEMMA RehomedAccess ==
  ASSUME NEW rows \in Seq(AccessRow), NEW S, NEW p \in Profile, NEW o \in OrNothing(Org),
         NEW s \in BOOLEAN
  PROVE  LET new == Rehomed(rows, S, p, o, s) IN
         /\ new \in Seq(AccessRow) /\ DOMAIN new = DOMAIN rows
         /\ \A i \in DOMAIN rows :
              /\ new[i].family = rows[i].family /\ new[i].client = rows[i].client
              /\ new[i].revoked = rows[i].revoked /\ new[i].gone = rows[i].gone
              /\ new[i].profile = IF i \in S THEN p ELSE rows[i].profile
              /\ new[i].org = IF i \in S THEN o ELSE rows[i].org
              /\ new[i].stray = IF i \in S THEN s ELSE rows[i].stray
<1>1. \A r \in AccessRow :
        /\ RehomedRow(r, p, o, s) \in AccessRow
        /\ RehomedRow(r, p, o, s).family = r.family /\ RehomedRow(r, p, o, s).client = r.client
        /\ RehomedRow(r, p, o, s).revoked = r.revoked /\ RehomedRow(r, p, o, s).gone = r.gone
        /\ RehomedRow(r, p, o, s).profile = p /\ RehomedRow(r, p, o, s).org = o
        /\ RehomedRow(r, p, o, s).stray = s
  BY DEF AccessRow, RehomedRow
<1>2. \A i \in DOMAIN rows : rows[i] \in AccessRow
  BY LenProperties, ElementOfSeq
<1> DEFINE new == Rehomed(rows, S, p, o, s)
<1>3. /\ new = [i \in DOMAIN rows |-> new[i]]
      /\ \A i \in DOMAIN rows : new[i] = IF i \in S THEN RehomedRow(rows[i], p, o, s) ELSE rows[i]
  BY DEF Rehomed
<1> HIDE DEF new
<1>4. \A i \in DOMAIN rows : new[i] \in AccessRow
  BY <1>1, <1>2, <1>3
<1>5. new \in Seq(AccessRow) /\ DOMAIN new = DOMAIN rows
  BY <1>3, <1>4, MappedTable
<1>6. ASSUME NEW i \in DOMAIN rows
      PROVE  /\ new[i].family = rows[i].family /\ new[i].client = rows[i].client
             /\ new[i].revoked = rows[i].revoked /\ new[i].gone = rows[i].gone
             /\ new[i].profile = IF i \in S THEN p ELSE rows[i].profile
             /\ new[i].org = IF i \in S THEN o ELSE rows[i].org
             /\ new[i].stray = IF i \in S THEN s ELSE rows[i].stray
  <2>1. CASE i \in S
    BY <1>1, <1>2, <1>3, <2>1
  <2>2. CASE i \notin S
    BY <1>3, <2>2
  <2> QED BY <2>1, <2>2
<1> QED BY <1>5, <1>6 DEF new


-----------------------------------------------------------------------------
(* What a step leaves alone.                                               *)

\* The tables grow, and every older row keeps its place, its family and its end.
RowsStay ==
  /\ DOMAIN refreshTokens \subseteq DOMAIN refreshTokens'
  /\ DOMAIN accessTokens \subseteq DOMAIN accessTokens'
  /\ \A i \in DOMAIN refreshTokens :
       /\ refreshTokens'[i].client = refreshTokens[i].client
       /\ refreshTokens'[i].profile = refreshTokens[i].profile
       /\ refreshTokens[i].revoked => refreshTokens'[i].revoked
  /\ \A i \in DOMAIN accessTokens :
       /\ accessTokens'[i].client = accessTokens[i].client
       /\ accessTokens'[i].profile = accessTokens[i].profile
       /\ accessTokens'[i].family = accessTokens[i].family
       /\ accessTokens[i].revoked => accessTokens'[i].revoked

JobsStay ==
  /\ \A P \in SUBSET Profile : NamesJob(P) \in jobs => NamesJob(P) \in jobs'
  /\ \A f \in Nat : FamilyJob(f) \in jobs => FamilyJob(f) \in jobs'

LEMMA DoomedStay ==
  ASSUME TypeOK, DoomedCovered, RowsStay, JobsStay, Revoking \subseteq Revoking', doomed' \subseteq doomed
  PROVE  DoomedCovered'
<1>1. \A p : NameCovered(p) => NameCovered(p)'
  BY DEF NameCovered, JobsStay, NamesJob
<1>2. ASSUME NEW i, NEW byName, <<"refresh", i, byName>> \in doomed'
      PROVE  RefreshCovered(i, byName)'
  <2>1. RefreshCovered(i, byName)
    BY <1>2 DEF DoomedCovered
  <2>2. i \in DOMAIN refreshTokens /\ (RefreshWalked(i) => RefreshWalked(i)')
    BY <2>1 DEF RefreshCovered, RefreshWalked, RowsStay
  <2> QED BY <1>1, <2>1, <2>2 DEF RefreshCovered, RowsStay
<1>3. ASSUME NEW i, NEW byName, <<"access", i, byName>> \in doomed'
      PROVE  AccessCovered(i, byName)'
  <2>1. AccessCovered(i, byName)
    BY <1>3 DEF DoomedCovered
  <2>2. i \in DOMAIN accessTokens /\ (AccessWalked(i) => AccessWalked(i)')
    BY <2>1 DEF AccessCovered, AccessWalked, RowsStay
  <2>3. accessTokens[i].family \in Nat
    BY <2>2, SeatRows
  <2> QED BY <1>1, <2>1, <2>2, <2>3 DEF AccessCovered, RowsStay, JobsStay, FamilyJob
<1> QED BY <1>2, <1>3 DEF DoomedCovered

\* A step that touches neither table, no continuation and nobody's hands.
LEMMA TablesStay ==
  ASSUME TablesInv, UNCHANGED tables
  PROVE  RefreshSound' /\ AccessSound' /\ RowsStay
<1>1. RefreshSound /\ AccessSound
  BY InvParts
<1>2. RefreshSound'
  BY <1>1 DEF tables, RefreshSound, OneLiveRefresh, FamilyOf, RootsSpent
<1>3. AccessSound'
  BY <1>1 DEF tables, AccessSound
<1>4. RowsStay
  BY DEF tables, RowsStay
<1> QED BY <1>2, <1>3, <1>4

LEMMA HandsStay ==
  ASSUME InHand, UNCHANGED callers, DOMAIN refreshTokens \subseteq DOMAIN refreshTokens',
         \A w \in walks' : w.op = "retarget_scope" => w.to \in Profile
  PROVE  InHand'
BY DEF InHand, callers


LEMMA InvFrom ==
  ASSUME RefreshSound', AccessSound', RestTyped', InHand', DoomedCovered'
  PROVE  SeatInv'
BY DEF SeatInv, TablesInv, TypeOK, RefreshSound, AccessSound, RestTyped, GoneIsRevoked

\* The conjuncts of the invariant, and a clock that counts.
LEMMA Facts ==
  ASSUME SeatInv
  PROVE  /\ TablesInv /\ TypeOK /\ DoomedCovered
         /\ RefreshSound /\ AccessSound /\ RestTyped /\ InHand
         /\ \A p \in Profile : profiles[p] \in OrNothing(ProfileRow)
BY InvParts DEF SeatInv, TablesInv, TypeOK

\* The organisation of a profile that is there is the one its row holds.
LEMMA IdOfProfile ==
  ASSUME TypeOK, NEW p \in Profile
  PROVE  /\ IdOf(p) \in OrNothing(Org)
         /\ profiles[p] # Nothing =>
              /\ profiles[p] \in ProfileRow /\ IdOf(p) = profiles[p].org
              /\ profiles[p].label \in OrNothing(Label)
<1>1. profiles[p] = Nothing \/ profiles[p] \in ProfileRow
  BY DEF TypeOK, OrNothing
<1>2. \A r \in ProfileRow : r.label \in OrNothing(Label) /\ r.org \in OrNothing(Org)
  BY DEF ProfileRow
<1>3. Nothing \in OrNothing(Org)
  BY DEF OrNothing
<1> QED BY <1>1, <1>2, <1>3 DEF IdOf

\* A label has one organisation or none.
LEMMA HolderIsOrg ==
  ASSUME NEW l
  PROVE  ClerkOrgIdForSlug(l) \in OrNothing(Org)
BY DEF ClerkOrgIdForSlug, OrNothing

-----------------------------------------------------------------------------
(* Tokens are minted.                                                      *)

LEMMA AppendRefresh ==
  ASSUME TypeOK, NEW c \in Client, NEW p \in Profile, NEW f \in Nat,
         refreshTokens' = Append(refreshTokens, Refresh(c, p, f))
  PROVE  /\ RefreshMinted(f) /\ refreshTokens'[Len(refreshTokens) + 1] = Refresh(c, p, f)
         /\ \A i \in DOMAIN refreshTokens : refreshTokens'[i] = refreshTokens[i]
<1>1. Refresh(c, p, f) \in RefreshRow /\ Refresh(c, p, f).family = f /\ ~Refresh(c, p, f).gone
  BY SeatAssumption DEF Refresh, RefreshRow, TypeOK
<1>2. refreshTokens \in Seq(RefreshRow)
  BY DEF TypeOK
<1> QED BY <1>1, <1>2, AppendedTable DEF RefreshMinted

LEMMA AppendAccess ==
  ASSUME TypeOK, NEW c \in Client, NEW p \in Profile, NEW f \in Nat, NEW o \in OrNothing(Org),
         f \in {0} \cup DOMAIN refreshTokens', accessTokens' = Append(accessTokens, Access(c, p, f, o))
  PROVE  /\ AccessMinted
         /\ DOMAIN accessTokens' = DOMAIN accessTokens \cup {Len(accessTokens) + 1}
         /\ accessTokens'[Len(accessTokens) + 1] = Access(c, p, f, o)
<1>1. Access(c, p, f, o) \in AccessRow /\ Access(c, p, f, o).family = f /\ ~Access(c, p, f, o).gone
  BY SeatAssumption DEF Access, AccessRow, TypeOK
<1>2. accessTokens \in Seq(AccessRow)
  BY DEF TypeOK
<1> QED BY <1>1, <1>2, AppendedTable DEF AccessMinted

LEMMA NoAccessMinted ==
  ASSUME TypeOK, UNCHANGED accessTokens
  PROVE  AccessMinted
BY DEF TypeOK, AccessMinted

LEMMA MintingKeepsInv ==
  ASSUME SeatInv, NEW f \in {0} \cup DOMAIN refreshTokens, RefreshMinted(f), AccessMinted,
         f # 0 => /\ refreshTokens[f].family = 0
                  /\ \A i \in DOMAIN refreshTokens : FamilyOf(i) = f => refreshTokens'[i].revoked,
         UNCHANGED <<queue, doomed>>, RestTyped', InHand'
  PROVE  SeatInv'
<1>1. DOMAIN refreshTokens \subseteq DOMAIN refreshTokens'
  BY DEF RefreshMinted
<1>2. RefreshSound' /\ AccessSound'
  BY <1>1, Facts, MintedRefresh, MintedAccess
<1>3. RowsStay
  BY <1>1 DEF RowsStay, RefreshMinted, AccessMinted
<1>4. JobsStay /\ Revoking \subseteq Revoking'
  BY DEF queue, JobsStay, Revoking
<1>5. DoomedCovered'
  BY <1>3, <1>4, Facts, DoomedStay DEF queue
<1> QED BY <1>2, <1>5, InvFrom

LEMMA ProvisionKeepsInv ==
  ASSUME SeatInv, NEW c \in Client, NEW p \in Profile, NEW o \in Org, ProvisionSeat(c, p, o)
  PROVE  SeatInv'
<1>1. RefreshMinted(0) /\ DOMAIN refreshTokens \subseteq DOMAIN refreshTokens'
  <2>1. RefreshMinted(0)
    BY Facts, AppendRefresh DEF ProvisionSeat
  <2> QED BY <2>1 DEF RefreshMinted
<1>2. AccessMinted
  BY Facts, AppendAccess DEF ProvisionSeat, OrNothing
<1>3. RestTyped'
  <2>1. mappingLabel \in [Org -> Label] /\ profiles \in [Profile -> OrNothing(ProfileRow)]
    BY Facts DEF RestTyped
  <2>2. [label |-> mappingLabel[o], org |-> o] \in OrNothing(ProfileRow)
    BY <2>1 DEF ProfileRow, OrNothing
  <2>3. profiles' \in [Profile -> OrNothing(ProfileRow)]
    BY <2>1, <2>2 DEF ProvisionSeat
  <2> QED BY <2>3, Facts DEF RestTyped, ProvisionSeat, OrNothing, mappings, queue, callers
<1>4. InHand'
  BY <1>1, Facts, HandsStay DEF InHand, ProvisionSeat, queue
<1> QED BY <1>1, <1>2, <1>3, <1>4, MintingKeepsInv DEF ProvisionSeat

LEMMA ScriptedRefreshKeepsInv ==
  ASSUME SeatInv, NEW c \in Client, CreateRefreshToken(c)
  PROVE  SeatInv'
<1>1. scripts[c].profile \in Profile
  BY Facts DEF InHand, CreateRefreshToken
<1>2. RefreshMinted(0) /\ DOMAIN refreshTokens' = DOMAIN refreshTokens \cup {Len(refreshTokens) + 1}
  <2>1. RefreshMinted(0)
    BY <1>1, Facts, AppendRefresh DEF CreateRefreshToken
  <2> QED BY <2>1 DEF RefreshMinted
<1>3. AccessMinted
  BY Facts, NoAccessMinted DEF CreateRefreshToken
<1>4. Len(refreshTokens) + 1 \in Nat
  BY Facts, SeatRows
<1>5. RestTyped'
  BY <1>4, Facts DEF RestTyped, CreateRefreshToken, catalog, mappings, queue
<1>6. InHand'
  BY <1>1, <1>2, Facts DEF InHand, RestTyped, CreateRefreshToken, queue
<1> QED BY <1>2, <1>3, <1>5, <1>6, MintingKeepsInv DEF CreateRefreshToken

LEMMA RetrofitKeepsInv ==
  ASSUME SeatInv, NEW c \in Client, RetrofitSeatRefreshToken(c)
  PROVE  SeatInv'
<1>1. clients[c].profile \in Profile
  BY Facts DEF RestTyped, RetrofitSeatRefreshToken, OrNothing
<1>2. RefreshMinted(0) /\ DOMAIN refreshTokens \subseteq DOMAIN refreshTokens'
  <2>1. RefreshMinted(0)
    BY <1>1, Facts, AppendRefresh DEF RetrofitSeatRefreshToken
  <2> QED BY <2>1 DEF RefreshMinted
<1>3. AccessMinted
  BY Facts, NoAccessMinted DEF RetrofitSeatRefreshToken
<1>4. RestTyped'
  BY Facts DEF RestTyped, RetrofitSeatRefreshToken, catalog, mappings, queue, callers
<1>5. InHand'
  BY <1>2, Facts, HandsStay DEF InHand, RetrofitSeatRefreshToken, queue
<1> QED BY <1>2, <1>3, <1>4, <1>5, MintingKeepsInv DEF RetrofitSeatRefreshToken


LEMMA ScriptedAccessKeepsInv ==
  ASSUME SeatInv, NEW c \in Client, CreateAccessToken(c)
  PROVE  SeatInv'
<1>1. /\ scripts[c].profile \in Profile /\ scripts[c].token \in {0} \cup DOMAIN refreshTokens
      /\ scripts[c].token \in Nat
  BY Facts, SeatRows DEF InHand, CreateAccessToken
<1>2. AccessMinted
  <2>1. CASE UNCHANGED accessTokens
    BY <2>1, Facts, NoAccessMinted
  <2>2. CASE accessTokens' = Append(accessTokens, Access(c, scripts[c].profile, scripts[c].token,
                                                         IdOf(scripts[c].profile)))
    <3>1. IdOf(scripts[c].profile) \in OrNothing(Org)
      BY <1>1, Facts, IdOfProfile
    <3> QED BY <1>1, <2>2, <3>1, Facts, AppendAccess DEF CreateAccessToken
  <2> QED BY <2>1, <2>2 DEF CreateAccessToken
<1>3. RefreshSound' /\ AccessSound'
  BY <1>2, Facts, MintedAccess DEF CreateAccessToken, RefreshSound, OneLiveRefresh, FamilyOf, RootsSpent
<1>4. RowsStay /\ JobsStay /\ Revoking \subseteq Revoking'
  BY <1>2 DEF RowsStay, JobsStay, Revoking, AccessMinted, CreateAccessToken, queue
<1>5. DoomedCovered'
  BY <1>4, Facts, DoomedStay DEF CreateAccessToken
<1>6. RestTyped'
  BY Facts DEF RestTyped, CreateAccessToken, catalog, mappings, queue
<1>7. InHand'
  BY Facts DEF InHand, RestTyped, CreateAccessToken, queue
<1> QED BY <1>3, <1>5, <1>6, <1>7, InvFrom

\* The organisation of a family's first row, if it has a row.
LEMMA LineageIsOrg ==
  ASSUME TypeOK, NEW f
  PROVE  /\ Lineage(f) \in OrNothing(Org)
         /\ Lineage(f) # Nothing => \E i \in DOMAIN accessTokens : Lineage(f) = accessTokens[i].org
<1> DEFINE rows == {i \in DOMAIN accessTokens : accessTokens[i].family = f /\ ~accessTokens[i].gone}
           live == rows \cap LiveRows(accessTokens)
           S == IF live # {} THEN live ELSE rows
<1>1. S \in SUBSET DOMAIN accessTokens
  OBVIOUS
<1>2. Lineage(f) = IF S = {} THEN Nothing
                   ELSE accessTokens[CHOOSE i \in S : \A j \in S : i <= j].org
  BY DEF Lineage
<1> HIDE DEF S
<1>3. CASE S = {}
  BY <1>2, <1>3 DEF OrNothing
<1>4. CASE S # {}
  <2>1. S \in SUBSET Nat
    BY <1>1, SeatRows
  <2>2. \E i \in S : \A j \in S : i <= j
    BY <1>4, <2>1, FirstRow
  <2>3. PICK i \in S : Lineage(f) = accessTokens[i].org
    BY <1>2, <1>4, <2>2
  <2>4. accessTokens[i].org \in OrNothing(Org) /\ i \in DOMAIN accessTokens
    BY <1>1, SeatRows DEF AccessRow
  <2> QED BY <2>3, <2>4
<1> QED BY <1>3, <1>4

\* What a rotation does to the tables.
LEMMA RotatedRows ==
  ASSUME TablesInv, NEW q \in Request, RotateRefreshToken(q)
  PROVE  LET i == requests[q].token
             f == FamilyOf(i)
         IN
         /\ i \in DOMAIN refreshTokens /\ f \in DOMAIN refreshTokens /\ f # 0
         /\ refreshTokens[f].family = 0
         /\ RefreshMinted(f) /\ AccessMinted
         /\ refreshTokens'[Len(refreshTokens) + 1].profile = requests[q].profile
         /\ DOMAIN accessTokens' = DOMAIN accessTokens \cup {Len(accessTokens) + 1}
         /\ accessTokens'[Len(accessTokens) + 1] =
              Access(refreshTokens[i].client, requests[q].profile, f, Lineage(f))
         /\ \A j \in DOMAIN refreshTokens : FamilyOf(j) = f => refreshTokens'[j].revoked
<1>1. PICK i : i = requests[q].token
  OBVIOUS
<1>2. PICK f : f = FamilyOf(i)
  OBVIOUS
<1>3. PICK c, p : c = refreshTokens[i].client /\ p = requests[q].profile
  OBVIOUS
<1>4. /\ i \in DOMAIN refreshTokens /\ p \in Profile /\ ~refreshTokens[i].revoked
      /\ refreshTokens' = Append(Spent(i), Refresh(c, p, f))
      /\ accessTokens' = Append(accessTokens, Access(c, p, f, Lineage(f)))
  BY <1>1, <1>2, <1>3 DEF TablesInv, InHand, RotateRefreshToken, Presentable
<1>5. c \in Client /\ f \in DOMAIN refreshTokens /\ f # 0 /\ f \in Nat /\ refreshTokens[f].family = 0
  BY <1>2, <1>3, <1>4, FamilyOfRow, SeatRows DEF TablesInv, RefreshRow
<1>6. Refresh(c, p, f) \in RefreshRow /\ Refresh(c, p, f).family = f
      /\ ~Refresh(c, p, f).gone /\ Refresh(c, p, f).profile = p
  <2>1. now + RefreshTtl \in Nat /\ p \in Profile /\ c \in Client /\ f \in Nat
    BY <1>4, <1>5, SeatAssumption DEF TablesInv, TypeOK
  <2> QED BY <2>1 DEF Refresh, RefreshRow
<1>7. /\ Spent(i) \in Seq(RefreshRow) /\ Len(Spent(i)) = Len(refreshTokens)
      /\ DOMAIN Spent(i) = DOMAIN refreshTokens
      /\ \A j \in DOMAIN refreshTokens :
           /\ Spent(i)[j].family = refreshTokens[j].family
           /\ Spent(i)[j].client = refreshTokens[j].client
           /\ Spent(i)[j].profile = refreshTokens[j].profile
           /\ Spent(i)[j].gone = refreshTokens[j].gone
           /\ Spent(i)[j].revoked <=> (refreshTokens[j].revoked \/ j = i)
  BY RevokedRefresh DEF Spent, TablesInv, TypeOK
<1>8. /\ refreshTokens' \in Seq(RefreshRow)
      /\ DOMAIN refreshTokens' = DOMAIN refreshTokens \cup {Len(refreshTokens) + 1}
      /\ \A j \in DOMAIN refreshTokens : refreshTokens'[j] = Spent(i)[j]
      /\ refreshTokens'[Len(refreshTokens) + 1] = Refresh(c, p, f)
  BY <1>4, <1>6, <1>7, AppendedTable
<1>9. RefreshMinted(f)
  BY <1>6, <1>7, <1>8 DEF RefreshMinted
<1>10. Lineage(f) \in OrNothing(Org)
  BY LineageIsOrg DEF TablesInv
<1>11. f \in {0} \cup DOMAIN refreshTokens'
  BY <1>5, <1>8
<1>12. /\ AccessMinted
       /\ DOMAIN accessTokens' = DOMAIN accessTokens \cup {Len(accessTokens) + 1}
       /\ accessTokens'[Len(accessTokens) + 1] = Access(c, p, f, Lineage(f))
  BY <1>4, <1>5, <1>10, <1>11, AppendAccess DEF TablesInv
<1>13. ASSUME NEW j \in DOMAIN refreshTokens, FamilyOf(j) = f
       PROVE  refreshTokens'[j].revoked
  <2>1. CASE j = i
    BY <1>7, <1>8, <2>1
  <2>2. CASE j # i
    <3>1. refreshTokens[j].revoked
      BY <1>2, <1>4, <1>13, <2>2 DEF TablesInv, OneLiveRefresh
    <3> QED BY <1>7, <1>8, <3>1
  <2> QED BY <2>1, <2>2
<1> QED BY <1>1, <1>2, <1>3, <1>4, <1>5, <1>6, <1>8, <1>9, <1>12, <1>13

\* The record of a request that is answered, or goes on.
LEMMA GrantRecords ==
  /\ Idle \in Grant /\ Idle.pc = "idle"
  /\ \A g \in Grant : \A pc \in {"idle", "read", "client", "profile", "reused", "refused"} :
       [g EXCEPT !.pc = pc] \in Grant
BY DEF Idle, Grant, OrNothing

LEMMA AnsweredHands ==
  ASSUME RestTyped, InHand, NEW q \in Request, Answered(q), scripts' = scripts, walks' = walks,
         DOMAIN refreshTokens \subseteq DOMAIN refreshTokens'
  PROVE  requests' \in [Request -> Grant] /\ InHand'
<1>1. requests \in [Request -> Grant] /\ requests' = [requests EXCEPT ![q] = Idle]
  BY DEF RestTyped, Answered
<1>2. Idle \in Grant /\ Idle.pc = "idle"
  BY GrantRecords
<1>3. requests' \in [Request -> Grant] /\ requests'[q] = Idle
      /\ \A r \in Request : r # q => requests'[r] = requests[r]
  BY <1>1, <1>2
<1>4. \A r \in Request : requests'[r].pc \in {"read", "client", "profile"} =>
        requests'[r].token \in DOMAIN refreshTokens' /\ requests'[r].profile \in Profile
  BY <1>2, <1>3 DEF InHand
<1> QED BY <1>3, <1>4 DEF InHand

LEMMA RotationKeepsInv ==
  ASSUME SeatInv, NEW q \in Request, RotateRefreshToken(q)
  PROVE  SeatInv'
<1>1. PICK f : f = FamilyOf(requests[q].token)
  OBVIOUS
<1>2. /\ f \in DOMAIN refreshTokens /\ refreshTokens[f].family = 0
      /\ RefreshMinted(f) /\ AccessMinted
      /\ \A j \in DOMAIN refreshTokens : FamilyOf(j) = f => refreshTokens'[j].revoked
  BY <1>1, Facts, RotatedRows
<1>3. requests' \in [Request -> Grant] /\ InHand'
  BY <1>2, Facts, AnsweredHands DEF RotateRefreshToken, RefreshMinted, queue
<1>4. RestTyped'
  BY <1>3, Facts DEF RestTyped, RotateRefreshToken, catalog, mappings, queue
<1> QED BY <1>2, <1>3, <1>4, MintingKeepsInv DEF RotateRefreshToken


-----------------------------------------------------------------------------
(* A family is ended.                                                      *)

LEMMA FamilyRowsAre ==
  ASSUME NEW f
  PROVE  /\ \A i, b : <<"refresh", i, b>> \in FamilyRows(f) =>
              i \in DOMAIN refreshTokens /\ FamilyOf(i) = f
         /\ \A i, b : <<"access", i, b>> \in FamilyRows(f) =>
              i \in DOMAIN accessTokens /\ accessTokens[i].family = f /\ b = FALSE
<1> DEFINE R == {i \in DOMAIN refreshTokens : FamilyOf(i) = f}
           A == {i \in DOMAIN accessTokens : accessTokens[i].family = f}
<1>1. FamilyRows(f) = Doom(R, A, FALSE)
  BY DEF FamilyRows
<1> HIDE DEF R, A
<1>2. /\ \A i, b : <<"refresh", i, b>> \in FamilyRows(f) => i \in R
      /\ \A i, b : <<"access", i, b>> \in FamilyRows(f) => i \in A /\ b = FALSE
  BY <1>1 DEF Doom
<1> QED BY <1>2 DEF R, A

LEMMA DoomTyped ==
  ASSUME TypeOK, NEW R \in SUBSET DOMAIN refreshTokens, NEW A \in SUBSET DOMAIN accessTokens,
         NEW n \in BOOLEAN
  PROVE  Doom(R, A, n) \subseteq {"refresh", "access"} \X Nat \X BOOLEAN
<1>1. R \subseteq Nat /\ A \subseteq Nat
  BY SeatRows
<1> QED BY <1>1 DEF Doom

\* The first batch of a family holds all its refresh tokens, for one at most is
\* live; what it leaves of the access tokens has a job.
LEMMA EndedFamily ==
  ASSUME TablesInv, NEW f, NEW Roots, NEW rest, EndFamily(f, Roots, rest)
  PROVE  /\ RefreshKept /\ AccessKept /\ RowsStay
         /\ rest \subseteq jobs' /\ jobs' \subseteq rest \cup {FamilyJob(f)}
         /\ \A i \in DOMAIN refreshTokens :
              FamilyOf(i) = f /\ (i = f => f \in Roots \/ refreshTokens[f].revoked)
                => refreshTokens'[i].revoked
         /\ \A i \in DOMAIN accessTokens :
              accessTokens[i].family = f => accessTokens'[i].revoked \/ FamilyJob(f) \in jobs'
<1> DEFINE R == LiveInFamily(refreshTokens, f)
           A == LiveInFamily(accessTokens, f)
<1>1. /\ refreshTokens \in Seq(RefreshRow) /\ accessTokens \in Seq(AccessRow)
      /\ refreshTokens' = Revoked(refreshTokens, Roots \cup Page(R))
      /\ accessTokens' = Revoked(accessTokens, Page(A))
      /\ jobs' = rest \cup FamilyJobs(f, refreshTokens, accessTokens)
  BY DEF TablesInv, TypeOK, EndFamily
<1>2. R \in SUBSET DOMAIN refreshTokens /\ A \in SUBSET DOMAIN accessTokens
  BY DEF LiveInFamily
<1>3. /\ RefreshKept /\ AccessKept
  BY <1>1, RevokedRefresh, RevokedAccess DEF RefreshKept, AccessKept
<1>4. RowsStay
  BY <1>1, RevokedRefresh, RevokedAccess DEF RowsStay
<1>5. /\ \A i \in DOMAIN refreshTokens :
           refreshTokens'[i].revoked <=> (refreshTokens[i].revoked \/ i \in Roots \cup Page(R))
      /\ \A i \in DOMAIN accessTokens :
           accessTokens'[i].revoked <=> (accessTokens[i].revoked \/ i \in Page(A))
  BY <1>1, RevokedRefresh, RevokedAccess
<1>6. FamilyJobs(f, refreshTokens, accessTokens) \subseteq {FamilyJob(f)}
  BY DEF FamilyJobs, Unfinished, FamilyJob
<1>7. Cardinality(A) > Batch => FamilyJob(f) \in FamilyJobs(f, refreshTokens, accessTokens)
  BY DEF FamilyJobs, Unfinished, FamilyJob
<1>8. ASSUME NEW i \in DOMAIN refreshTokens, FamilyOf(i) = f,
             i = f => f \in Roots \/ refreshTokens[f].revoked, ~refreshTokens[i].revoked
      PROVE  i \in Roots \cup Page(R)
  <2>1. CASE i = f
    BY <1>8, <2>1
  <2>2. CASE i # f
    <3>1. refreshTokens[i].family = f /\ f # 0
      BY <1>8, <2>2, FamilyOfRow DEF FamilyOf, TablesInv
    <3>2. i \in R
      BY <1>8, <3>1 DEF LiveInFamily
    <3>3. \A j \in R : FamilyOf(j) = f /\ ~refreshTokens[j].revoked /\ j \in DOMAIN refreshTokens
      BY <3>1 DEF LiveInFamily, FamilyOf
    <3>4. \A j, k \in R : j = k
      BY <3>3 DEF TablesInv, OneLiveRefresh
    <3>5. R \in SUBSET Nat
      BY <1>1, <1>2, RowsFinite
    <3> HIDE DEF R
    <3>6. Page(R) = R
      BY <3>4, <3>5, PageOfOne
    <3> QED BY <3>2, <3>6
  <2> QED BY <2>1, <2>2
<1>9. ASSUME NEW i \in DOMAIN accessTokens, accessTokens[i].family = f,
             ~accessTokens[i].revoked, i \notin Page(A)
      PROVE  Cardinality(A) > Batch
  <2>1. i \in A
    BY <1>9 DEF LiveInFamily
  <2>2. A \in SUBSET Nat /\ IsFiniteSet(A) /\ Cardinality(A) \in Nat
    BY <1>1, <1>2, RowsFinite
  <2> HIDE DEF A
  <2>3. Cardinality(A) <= Batch => Page(A) = A
    BY <2>2, PageOfFew
  <2> QED BY <1>9, <2>1, <2>2, <2>3, BatchAssumption
<1> HIDE DEF R, A
<1>10. \A i \in DOMAIN refreshTokens :
         FamilyOf(i) = f /\ (i = f => f \in Roots \/ refreshTokens[f].revoked)
           => refreshTokens'[i].revoked
  BY <1>5, <1>8
<1>11. \A i \in DOMAIN accessTokens :
         accessTokens[i].family = f => accessTokens'[i].revoked \/ FamilyJob(f) \in jobs'
  BY <1>1, <1>5, <1>7, <1>9
<1> QED BY <1>1, <1>3, <1>4, <1>6, <1>10, <1>11

LEMMA EndingCovers ==
  ASSUME SeatInv, NEW f \in Nat, NEW Roots, NEW rest, EndFamily(f, Roots, rest),
         jobs \ {FamilyJob(f)} \subseteq rest, walks' = walks,
         doomed' \subseteq doomed \cup FamilyRows(f),
         doomed' \subseteq doomed \/ f \in Roots \/ refreshTokens[f].revoked
  PROVE  DoomedCovered'
<1>1. /\ RefreshKept /\ AccessKept /\ RowsStay
      /\ jobs \ {FamilyJob(f)} \subseteq jobs'
      /\ \A i \in DOMAIN refreshTokens :
           FamilyOf(i) = f /\ (i = f => f \in Roots \/ refreshTokens[f].revoked)
             => refreshTokens'[i].revoked
      /\ \A i \in DOMAIN accessTokens :
           accessTokens[i].family = f => accessTokens'[i].revoked \/ FamilyJob(f) \in jobs'
  BY Facts, EndedFamily
<1>2. \A p : NameCovered(p) => NameCovered(p)'
  <2>1. \A P : NamesJob(P) # FamilyJob(f)
    BY DEF NamesJob, FamilyJob
  <2> QED BY <1>1, <2>1 DEF NameCovered, NamesJob
<1>3. ASSUME NEW i, NEW byName, <<"refresh", i, byName>> \in doomed'
      PROVE  RefreshCovered(i, byName)'
  <2>1. CASE <<"refresh", i, byName>> \in doomed
    <3>1. RefreshCovered(i, byName)
      BY <2>1, Facts DEF DoomedCovered
    <3>2. i \in DOMAIN refreshTokens /\ (RefreshWalked(i) => RefreshWalked(i)')
      BY <1>1, <3>1 DEF RefreshCovered, RefreshWalked, RowsStay, Revoking
    <3> QED BY <1>1, <1>2, <3>1, <3>2 DEF RefreshCovered, RowsStay
  <2>2. CASE <<"refresh", i, byName>> \notin doomed
    <3>1. i \in DOMAIN refreshTokens /\ FamilyOf(i) = f
      BY <1>3, <2>2, FamilyRowsAre
    <3>2. f \in Roots \/ refreshTokens[f].revoked
      BY <1>3, <2>2
    <3> QED BY <1>1, <3>1, <3>2 DEF RefreshCovered, RowsStay
  <2> QED BY <2>1, <2>2
<1>4. ASSUME NEW i, NEW byName, <<"access", i, byName>> \in doomed'
      PROVE  AccessCovered(i, byName)'
  <2>1. CASE <<"access", i, byName>> \in doomed
    <3>1. AccessCovered(i, byName)
      BY <2>1, Facts DEF DoomedCovered
    <3>2. i \in DOMAIN accessTokens /\ (AccessWalked(i) => AccessWalked(i)')
      BY <1>1, <3>1 DEF AccessCovered, AccessWalked, RowsStay, Revoking
    <3>3. FamilyJob(accessTokens[i].family) \in jobs =>
            accessTokens'[i].revoked \/ FamilyJob(accessTokens'[i].family) \in jobs'
      <4>1. accessTokens'[i].family = accessTokens[i].family
        BY <1>1, <3>2 DEF RowsStay
      <4>2. accessTokens[i].family # f => FamilyJob(accessTokens[i].family) # FamilyJob(f)
        BY DEF FamilyJob
      <4> QED BY <1>1, <3>2, <4>1, <4>2
    <3> QED BY <1>1, <1>2, <3>1, <3>2, <3>3 DEF AccessCovered, RowsStay
  <2>2. CASE <<"access", i, byName>> \notin doomed
    <3>1. i \in DOMAIN accessTokens /\ accessTokens[i].family = f /\ byName = FALSE
      BY <1>4, <2>2, FamilyRowsAre
    <3> QED BY <1>1, <3>1 DEF AccessCovered, RowsStay, FamilyJob
  <2> QED BY <2>1, <2>2
<1> QED BY <1>3, <1>4 DEF DoomedCovered


\* A request that goes on, with what it has in hand.
LEMMA RequestHands ==
  ASSUME RestTyped, InHand, NEW q \in Request, NEW g \in Grant,
         requests' = [requests EXCEPT ![q] = g], scripts' = scripts, walks' = walks,
         DOMAIN refreshTokens \subseteq DOMAIN refreshTokens',
         g.pc \in {"read", "client", "profile"} =>
           g.token \in DOMAIN refreshTokens /\ g.profile \in Profile
  PROVE  requests' \in [Request -> Grant] /\ InHand'
<1>1. requests \in [Request -> Grant]
  BY DEF RestTyped
<1>2. requests' \in [Request -> Grant] /\ requests'[q] = g
      /\ \A r \in Request : r # q => requests'[r] = requests[r]
  BY <1>1
<1>3. \A r \in Request : requests'[r].pc \in {"read", "client", "profile"} =>
        requests'[r].token \in DOMAIN refreshTokens' /\ requests'[r].profile \in Profile
  BY <1>2 DEF InHand
<1> QED BY <1>2, <1>3 DEF InHand

LEMMA StepHands ==
  ASSUME RestTyped, InHand, NEW q \in Request,
         NEW pc \in {"client", "profile", "reused", "refused"}, Goto(q, pc),
         requests[q].pc \in {"read", "client", "profile"},
         scripts' = scripts, walks' = walks, DOMAIN refreshTokens \subseteq DOMAIN refreshTokens'
  PROVE  requests' \in [Request -> Grant] /\ InHand'
<1> DEFINE g == [requests[q] EXCEPT !.pc = pc]
<1>1. requests[q] \in Grant
  BY DEF RestTyped
<1>2. g \in Grant /\ g.token = requests[q].token /\ g.profile = requests[q].profile
  BY <1>1 DEF Grant
<1>3. requests' = [requests EXCEPT ![q] = g]
  BY DEF Goto
<1>4. g.token \in DOMAIN refreshTokens /\ g.profile \in Profile
  BY <1>2 DEF InHand
<1> HIDE DEF g
<1> QED BY <1>2, <1>3, <1>4, RequestHands

LEMMA EndingTables ==
  ASSUME SeatInv, NEW f \in Nat, NEW Roots, NEW rest, EndFamily(f, Roots, rest), rest \subseteq jobs
  PROVE  /\ RefreshSound' /\ AccessSound' /\ DOMAIN refreshTokens \subseteq DOMAIN refreshTokens'
         /\ jobs' \subseteq [kind : {"family"}, of : Nat]
              \cup [kind : {"cascade"}, of : SUBSET Profile]
              \cup [kind : {"retarget"}, from : Profile, to : Profile]
<1>1. RefreshKept /\ AccessKept /\ RowsStay /\ jobs' \subseteq jobs \cup {FamilyJob(f)}
  BY Facts, EndedFamily
<1>2. DOMAIN refreshTokens \subseteq DOMAIN refreshTokens'
  BY <1>1 DEF RowsStay
<1>3. RefreshSound' /\ AccessSound'
  BY <1>1, <1>2, Facts, KeptRefresh, KeptAccess
<1>4. FamilyJob(f) \in [kind : {"family"}, of : Nat]
  BY DEF FamilyJob
<1> QED BY <1>1, <1>2, <1>3, <1>4, Facts DEF RestTyped

LEMMA FamilyRowsTyped ==
  ASSUME TypeOK, NEW f
  PROVE  FamilyRows(f) \subseteq {"refresh", "access"} \X Nat \X BOOLEAN
<1> DEFINE R == {i \in DOMAIN refreshTokens : FamilyOf(i) = f}
           A == {i \in DOMAIN accessTokens : accessTokens[i].family = f}
<1>1. /\ FamilyRows(f) = Doom(R, A, FALSE)
      /\ R \in SUBSET DOMAIN refreshTokens /\ A \in SUBSET DOMAIN accessTokens /\ FALSE \in BOOLEAN
  BY DEF FamilyRows
<1> HIDE DEF R, A
<1> QED BY <1>1, DoomTyped, Zenon

LEMMA ReplayKeepsInv ==
  ASSUME SeatInv, NEW q \in Request, ReplayRefreshToken(q)
  PROVE  SeatInv'
<1>1. PICK i, f : i = requests[q].token /\ f = FamilyOf(i)
  OBVIOUS
<1>2. i \in DOMAIN refreshTokens /\ refreshTokens[i].revoked
  BY <1>1, Facts DEF InHand, ReplayRefreshToken
<1>3. f \in Nat /\ f \in DOMAIN refreshTokens
  BY <1>1, <1>2, Facts, FamilyOfRow, SeatRows
<1>4. refreshTokens[f].revoked
  <2>1. CASE refreshTokens[i].family = 0
    BY <1>1, <1>2, <2>1 DEF FamilyOf
  <2>2. CASE refreshTokens[i].family # 0
    BY <1>1, <1>2, <2>2, Facts DEF FamilyOf, TablesInv, RootsSpent
  <2> QED BY <2>1, <2>2
<1>5. EndFamily(f, {}, jobs) /\ doomed' = doomed \cup FamilyRows(f)
  BY <1>1 DEF ReplayRefreshToken
<1>6. /\ RefreshSound' /\ AccessSound' /\ DOMAIN refreshTokens \subseteq DOMAIN refreshTokens'
      /\ jobs' \subseteq [kind : {"family"}, of : Nat]
           \cup [kind : {"cascade"}, of : SUBSET Profile]
           \cup [kind : {"retarget"}, from : Profile, to : Profile]
  BY <1>3, <1>5, EndingTables
<1>7. DoomedCovered'
  BY <1>3, <1>4, <1>5, EndingCovers DEF ReplayRefreshToken
<1>8. requests' \in [Request -> Grant] /\ InHand'
  BY <1>6, Facts, StepHands DEF ReplayRefreshToken
<1>9. doomed' \subseteq {"refresh", "access"} \X Nat \X BOOLEAN
  BY <1>5, Facts, FamilyRowsTyped DEF RestTyped
<1>10. RestTyped'
  BY <1>6, <1>8, <1>9, Facts DEF RestTyped, ReplayRefreshToken, catalog, mappings
<1> QED BY <1>6, <1>7, <1>8, <1>10, InvFrom

LEMMA RefusalKeepsInv ==
  ASSUME SeatInv, NEW q \in Request, RefuseRotation(q)
  PROVE  SeatInv'
<1>1. PICK i, f : i = requests[q].token /\ f = FamilyOf(i)
  OBVIOUS
<1>2. i \in DOMAIN refreshTokens
  BY <1>1, Facts DEF InHand, RefuseRotation, Presentable
<1>3. f \in Nat /\ f \in DOMAIN refreshTokens
  BY <1>1, <1>2, Facts, FamilyOfRow, SeatRows
<1>5. EndFamily(f, {f}, jobs) /\ doomed' = doomed \cup FamilyRows(f)
  BY <1>1 DEF RefuseRotation
<1>6. /\ RefreshSound' /\ AccessSound' /\ DOMAIN refreshTokens \subseteq DOMAIN refreshTokens'
      /\ jobs' \subseteq [kind : {"family"}, of : Nat]
           \cup [kind : {"cascade"}, of : SUBSET Profile]
           \cup [kind : {"retarget"}, from : Profile, to : Profile]
  BY <1>3, <1>5, EndingTables
<1>7. DoomedCovered'
  BY <1>3, <1>5, EndingCovers DEF RefuseRotation
<1>8. requests' \in [Request -> Grant] /\ InHand'
  <2> DEFINE reason == Refusal(q, Lineage(f))
             g == [requests[q] EXCEPT !.pc = "refused", !.reason = reason]
  <2>1. reason \in OrNothing(Reason)
    BY DEF Refusal, OrNothing, Reason
  <2>2. requests[q] \in Grant
    BY Facts DEF RestTyped
  <2> HIDE DEF reason
  <2>3. g \in Grant /\ g.pc = "refused"
    BY <2>1, <2>2 DEF Grant
  <2>4. requests' = [requests EXCEPT ![q] = g]
    BY <1>1 DEF RefuseRotation, reason
  <2> HIDE DEF g
  <2> QED BY <1>6, <2>3, <2>4, Facts, RequestHands DEF RefuseRotation
<1>9. doomed' \subseteq {"refresh", "access"} \X Nat \X BOOLEAN
  BY <1>5, Facts, FamilyRowsTyped DEF RestTyped
<1>10. RestTyped'
  BY <1>6, <1>8, <1>9, Facts DEF RestTyped, RefuseRotation, catalog, mappings
<1> QED BY <1>6, <1>7, <1>8, <1>10, InvFrom

LEMMA FamilyBatchKeepsInv ==
  ASSUME SeatInv, NEW f \in Nat, ContinueFamilyRevoke(f)
  PROVE  SeatInv'
<1>1. EndFamily(f, {}, jobs \ {FamilyJob(f)})
  BY DEF ContinueFamilyRevoke, FamilyJob
<1>2. /\ RefreshSound' /\ AccessSound' /\ DOMAIN refreshTokens \subseteq DOMAIN refreshTokens'
      /\ jobs' \subseteq [kind : {"family"}, of : Nat]
           \cup [kind : {"cascade"}, of : SUBSET Profile]
           \cup [kind : {"retarget"}, from : Profile, to : Profile]
  BY <1>1, EndingTables
<1>3. DoomedCovered'
  BY <1>1, EndingCovers DEF ContinueFamilyRevoke
<1>4. InHand'
  BY <1>2, Facts, HandsStay DEF ContinueFamilyRevoke, InHand
<1>5. RestTyped'
  BY <1>2, Facts DEF RestTyped, ContinueFamilyRevoke, catalog, mappings, callers
<1> QED BY <1>2, <1>3, <1>4, <1>5, InvFrom


-----------------------------------------------------------------------------
(* A walk over a client's tokens.                                          *)

AccessPage(w) == IF w.accessDone THEN {} ELSE Page(After(accessTokens, w.client, w.access))
RefreshPage(w) == IF w.refreshDone THEN {} ELSE Page(After(refreshTokens, w.client, w.refresh))

Advanced(w, a, r, ad, rd) ==
  [w EXCEPT !.access = a, !.refresh = r, !.accessDone = ad, !.refreshDone = rd]

NextWalk(w) ==
  Advanced(w, LastOf(AccessPage(w), w.access), LastOf(RefreshPage(w), w.refresh),
           w.accessDone \/ LastPage(accessTokens, w.client, w.access),
           w.refreshDone \/ LastPage(refreshTokens, w.client, w.refresh))

LEMMA WalkFields ==
  ASSUME NEW w \in Walk
  PROVE  /\ w.op \in {"revoke_all", "revoke_access_only", "retarget_scope"} /\ w.client \in Client
         /\ w.access \in Nat /\ w.refresh \in Nat
         /\ w.accessDone \in BOOLEAN /\ w.refreshDone \in BOOLEAN
BY DEF Walk

LEMMA NextWalkIs ==
  ASSUME TypeOK, NEW w \in Walk
  PROVE  /\ NextWalk(w) \in Walk /\ NextWalk(w).op = w.op /\ NextWalk(w).client = w.client
         /\ NextWalk(w).to = w.to
         /\ NextWalk(w).access = LastOf(AccessPage(w), w.access)
         /\ NextWalk(w).refresh = LastOf(RefreshPage(w), w.refresh)
         /\ NextWalk(w).accessDone = (w.accessDone \/ LastPage(accessTokens, w.client, w.access))
         /\ NextWalk(w).refreshDone = (w.refreshDone \/ LastPage(refreshTokens, w.client, w.refresh))
<1>1. LastOf(AccessPage(w), w.access) \in Nat
  <2>1. CASE w.accessDone
    BY <2>1, WalkFields DEF AccessPage, LastOf
  <2>2. CASE ~w.accessDone
    BY <2>2, WalkFields, PageAndCursor DEF AccessPage, TypeOK
  <2> QED BY <2>1, <2>2
<1>2. LastOf(RefreshPage(w), w.refresh) \in Nat
  <2>1. CASE w.refreshDone
    BY <2>1, WalkFields DEF RefreshPage, LastOf
  <2>2. CASE ~w.refreshDone
    BY <2>2, WalkFields, PageAndCursor DEF RefreshPage, TypeOK
  <2> QED BY <2>1, <2>2
<1>3. PICK ad \in BOOLEAN : ad = (w.accessDone \/ LastPage(accessTokens, w.client, w.access))
  OBVIOUS
<1>4. PICK rd \in BOOLEAN : rd = (w.refreshDone \/ LastPage(refreshTokens, w.client, w.refresh))
  OBVIOUS
<1>5. PICK a \in Nat, r \in Nat :
        a = LastOf(AccessPage(w), w.access) /\ r = LastOf(RefreshPage(w), w.refresh)
  BY <1>1, <1>2
<1>6. NextWalk(w) = Advanced(w, a, r, ad, rd)
  BY <1>3, <1>4, <1>5, Zenon DEF NextWalk
<1>7. /\ NextWalk(w) \in Walk /\ NextWalk(w).op = w.op /\ NextWalk(w).client = w.client
      /\ NextWalk(w).to = w.to /\ NextWalk(w).access = a /\ NextWalk(w).refresh = r
      /\ NextWalk(w).accessDone = ad /\ NextWalk(w).refreshDone = rd
  BY <1>6 DEF Advanced, Walk
<1> QED BY <1>3, <1>4, <1>5, <1>7

Holder(w) == ClerkOrgIdForSlug(profiles[w.to].label)
Strays(w) == Holder(w) # profiles[w.to].org

\* A page of a walk in the words above.
LEMMA WalkPageIs ==
  ASSUME NEW w, NEW rest, NEW more, WalkPage(w, rest, more)
  PROVE  /\ w.op = "retarget_scope" =>
              /\ accessTokens' = Rehomed(accessTokens, Retargetable(accessTokens, AccessPage(w), w),
                                         w.to, Holder(w), Strays(w))
              /\ refreshTokens' = Retarget(refreshTokens, Retargetable(refreshTokens, RefreshPage(w), w),
                                           w.to)
              /\ doomed' = doomed \ Doom(RefreshPage(w), AccessPage(w), TRUE)
         /\ w.op # "retarget_scope" =>
              /\ accessTokens' = Revoked(accessTokens, AccessPage(w))
              /\ refreshTokens' = Revoked(refreshTokens, RefreshPage(w))
              /\ doomed' = doomed \cup more
         /\ rest \subseteq walks' /\ walks' \subseteq rest \cup {NextWalk(w)}
         /\ NextWalk(w) \in walks' \/ (NextWalk(w).accessDone /\ NextWalk(w).refreshDone)
BY DEF WalkPage, AccessPage, RefreshPage, NextWalk, Advanced, Rehomed, RehomedRow,
   Holder, Strays

LEMMA WalkedRows ==
  ASSUME TablesInv, NEW w \in Walk, NEW rest, NEW more, WalkPage(w, rest, more),
         w.op = "retarget_scope" => w.to \in Profile
  PROVE  /\ RefreshKept /\ AccessKept
         /\ \A i \in DOMAIN refreshTokens : i \notin RefreshPage(w) =>
              refreshTokens'[i].profile = refreshTokens[i].profile
         /\ \A i \in DOMAIN accessTokens : i \notin AccessPage(w) =>
              accessTokens'[i].profile = accessTokens[i].profile
<1>1. /\ refreshTokens \in Seq(RefreshRow) /\ accessTokens \in Seq(AccessRow)
  BY DEF TablesInv, TypeOK
<1>2. CASE w.op = "retarget_scope"
  <2>1. \A i : /\ i \in Retargetable(refreshTokens, RefreshPage(w), w) => i \in RefreshPage(w)
               /\ i \in Retargetable(accessTokens, AccessPage(w), w) => i \in AccessPage(w)
    BY DEF Retargetable
  <2>2. /\ accessTokens' = Rehomed(accessTokens, Retargetable(accessTokens, AccessPage(w), w),
                                   w.to, Holder(w), Strays(w))
        /\ refreshTokens' = Retarget(refreshTokens, Retargetable(refreshTokens, RefreshPage(w), w), w.to)
    BY <1>2, WalkPageIs
  <2>a. PICK s \in BOOLEAN : s = Strays(w)
    BY DEF Strays
  <2>b. Holder(w) \in OrNothing(Org)
    BY HolderIsOrg DEF Holder
  <2>3. RefreshKept /\ \A i \in DOMAIN refreshTokens : i \notin RefreshPage(w) =>
          refreshTokens'[i].profile = refreshTokens[i].profile
    BY <1>1, <1>2, <2>1, <2>2, RenamedRefresh DEF RefreshKept
  <2>4. AccessKept /\ \A i \in DOMAIN accessTokens : i \notin AccessPage(w) =>
          accessTokens'[i].profile = accessTokens[i].profile
    BY <1>1, <1>2, <2>1, <2>2, <2>a, <2>b, RehomedAccess DEF AccessKept
  <2> QED BY <2>3, <2>4
<1>3. CASE w.op # "retarget_scope"
  <2>1. /\ accessTokens' = Revoked(accessTokens, AccessPage(w))
        /\ refreshTokens' = Revoked(refreshTokens, RefreshPage(w))
    BY <1>3, WalkPageIs
  <2> QED BY <1>1, <2>1, RevokedRefresh, RevokedAccess DEF RefreshKept, AccessKept
<1> QED BY <1>2, <1>3

\* A row ahead of a revoking walk is revoked by its page, or ahead of what is left of it.
LEMMA WalkGoesOn ==
  ASSUME TablesInv, NEW w \in Walk, NEW rest, NEW more, WalkPage(w, rest, more),
         w.op # "retarget_scope"
  PROVE  /\ \A i \in DOMAIN refreshTokens :
              refreshTokens[i].client = w.client /\ ~w.refreshDone /\ w.refresh < i =>
                \/ refreshTokens'[i].revoked
                \/ /\ NextWalk(w) \in Revoking' /\ ~NextWalk(w).refreshDone
                   /\ NextWalk(w).client = w.client /\ NextWalk(w).refresh < i
         /\ \A i \in DOMAIN accessTokens :
              accessTokens[i].client = w.client /\ ~w.accessDone /\ w.access < i =>
                \/ accessTokens'[i].revoked
                \/ /\ NextWalk(w) \in Revoking' /\ ~NextWalk(w).accessDone
                   /\ NextWalk(w).client = w.client /\ NextWalk(w).access < i
<1>1. /\ refreshTokens \in Seq(RefreshRow) /\ accessTokens \in Seq(AccessRow) /\ TypeOK
  BY DEF TablesInv, TypeOK
<1>2. /\ accessTokens' = Revoked(accessTokens, AccessPage(w))
      /\ refreshTokens' = Revoked(refreshTokens, RefreshPage(w))
      /\ ~(NextWalk(w).accessDone /\ NextWalk(w).refreshDone) => NextWalk(w) \in walks'
  BY WalkPageIs
<1>3. NextWalk(w) \in walks' => NextWalk(w) \in Revoking'
  BY <1>1, NextWalkIs DEF Revoking
<1>4. ASSUME NEW i \in DOMAIN refreshTokens, refreshTokens[i].client = w.client,
             ~w.refreshDone, w.refresh < i, ~refreshTokens'[i].revoked
      PROVE  /\ NextWalk(w) \in Revoking' /\ ~NextWalk(w).refreshDone
             /\ NextWalk(w).client = w.client /\ NextWalk(w).refresh < i
  <2>1. ~refreshTokens[i].revoked /\ i \notin RefreshPage(w)
    BY <1>1, <1>2, <1>4, RevokedRefresh
  <2>2. i \in After(refreshTokens, w.client, w.refresh)
    BY <1>4, <2>1 DEF After, RowsOf, TablesInv, GoneIsRevoked
  <2>3. RefreshPage(w) = Page(After(refreshTokens, w.client, w.refresh)) /\ w.refresh \in Nat
    BY <1>4, WalkFields DEF RefreshPage
  <2>4. /\ ~LastPage(refreshTokens, w.client, w.refresh)
        /\ LastOf(RefreshPage(w), w.refresh) < i
    BY <1>1, <2>1, <2>2, <2>3, PageAndCursor
  <2> QED BY <1>1, <1>2, <1>3, <1>4, <2>4, NextWalkIs
<1>5. ASSUME NEW i \in DOMAIN accessTokens, accessTokens[i].client = w.client,
             ~w.accessDone, w.access < i, ~accessTokens'[i].revoked
      PROVE  /\ NextWalk(w) \in Revoking' /\ ~NextWalk(w).accessDone
             /\ NextWalk(w).client = w.client /\ NextWalk(w).access < i
  <2>1. ~accessTokens[i].revoked /\ i \notin AccessPage(w)
    BY <1>1, <1>2, <1>5, RevokedAccess
  <2>2. i \in After(accessTokens, w.client, w.access)
    BY <1>5, <2>1 DEF After, RowsOf, TablesInv, GoneIsRevoked
  <2>3. AccessPage(w) = Page(After(accessTokens, w.client, w.access)) /\ w.access \in Nat
    BY <1>5, WalkFields DEF AccessPage
  <2>4. /\ ~LastPage(accessTokens, w.client, w.access)
        /\ LastOf(AccessPage(w), w.access) < i
    BY <1>1, <2>1, <2>2, <2>3, PageAndCursor
  <2> QED BY <1>1, <1>2, <1>3, <1>5, <2>4, NextWalkIs
<1> QED BY <1>4, <1>5


\* What a trigger dooms lies ahead of its walk.
AheadOf(w, more) ==
  /\ \A i, b : <<"refresh", i, b>> \in more =>
       b = FALSE /\ i \in DOMAIN refreshTokens /\ refreshTokens[i].client = w.client
         /\ ~w.refreshDone /\ w.refresh < i
  /\ \A i, b : <<"access", i, b>> \in more =>
       b = FALSE /\ i \in DOMAIN accessTokens /\ accessTokens[i].client = w.client
         /\ ~w.accessDone /\ w.access < i

LEMMA RetargetCovers ==
  ASSUME SeatInv, NEW w \in Walk, w.op = "retarget_scope", w.to \in Profile,
         NEW rest, WalkPage(w, rest, {}), walks \ {w} \subseteq rest, jobs' = jobs
  PROVE  DoomedCovered'
<1>1. /\ RefreshKept /\ AccessKept
      /\ \A i \in DOMAIN refreshTokens : i \notin RefreshPage(w) =>
           refreshTokens'[i].profile = refreshTokens[i].profile
      /\ \A i \in DOMAIN accessTokens : i \notin AccessPage(w) =>
           accessTokens'[i].profile = accessTokens[i].profile
  BY Facts, WalkedRows
<1>2. Revoking \subseteq Revoking'
  BY WalkPageIs DEF Revoking
<1>3. /\ doomed' = doomed \ Doom(RefreshPage(w), AccessPage(w), TRUE)
      /\ doomed' \subseteq {"refresh", "access"} \X Nat \X BOOLEAN
  BY WalkPageIs, Facts DEF RestTyped
<1>4. \A p : NameCovered(p) => NameCovered(p)'
  BY DEF NameCovered, NamesJob
<1>5. ASSUME NEW i, NEW byName, <<"refresh", i, byName>> \in doomed'
      PROVE  RefreshCovered(i, byName)'
  <2>1. RefreshCovered(i, byName) /\ byName \in BOOLEAN
    BY <1>3, <1>5, Facts DEF DoomedCovered
  <2>2. i \in DOMAIN refreshTokens /\ (RefreshWalked(i) => RefreshWalked(i)')
    BY <1>1, <1>2, <2>1 DEF RefreshCovered, RefreshWalked, RefreshKept
  <2>3. byName => i \notin RefreshPage(w)
    BY <1>3, <1>5, <2>1 DEF Doom
  <2> QED BY <1>1, <1>4, <2>1, <2>2, <2>3 DEF RefreshCovered, RefreshKept
<1>6. ASSUME NEW i, NEW byName, <<"access", i, byName>> \in doomed'
      PROVE  AccessCovered(i, byName)'
  <2>1. AccessCovered(i, byName) /\ byName \in BOOLEAN
    BY <1>3, <1>6, Facts DEF DoomedCovered
  <2>2. i \in DOMAIN accessTokens /\ (AccessWalked(i) => AccessWalked(i)')
    BY <1>1, <1>2, <2>1 DEF AccessCovered, AccessWalked, AccessKept
  <2>3. byName => i \notin AccessPage(w)
    BY <1>3, <1>6, <2>1 DEF Doom
  <2> QED BY <1>1, <1>4, <2>1, <2>2, <2>3 DEF AccessCovered, AccessKept, FamilyJob
<1> QED BY <1>5, <1>6 DEF DoomedCovered

LEMMA RevokingCovers ==
  ASSUME SeatInv, NEW w \in Walk, w.op # "retarget_scope",
         NEW rest, NEW more, AheadOf(w, more), WalkPage(w, rest, more), walks \ {w} \subseteq rest,
         jobs' = jobs
  PROVE  DoomedCovered'
<1>1. /\ accessTokens' = Revoked(accessTokens, AccessPage(w))
      /\ refreshTokens' = Revoked(refreshTokens, RefreshPage(w))
      /\ doomed' = doomed \cup more /\ rest \subseteq walks'
  BY WalkPageIs
<1>2. RowsStay
  BY <1>1, Facts, RevokedRefresh, RevokedAccess DEF RowsStay, RefreshSound, AccessSound
<1>3. \A p : NameCovered(p) => NameCovered(p)'
  BY DEF NameCovered, NamesJob
<1>4. /\ \A i \in DOMAIN refreshTokens :
           refreshTokens[i].client = w.client /\ ~w.refreshDone /\ w.refresh < i =>
             refreshTokens'[i].revoked \/ RefreshWalked(i)'
      /\ \A i \in DOMAIN accessTokens :
           accessTokens[i].client = w.client /\ ~w.accessDone /\ w.access < i =>
             accessTokens'[i].revoked \/ AccessWalked(i)'
  BY <1>2, Facts, WalkGoesOn DEF RowsStay, RefreshWalked, AccessWalked
<1>5. \A v \in Revoking : v # w => v \in Revoking'
  BY <1>1 DEF Revoking
<1>6. ASSUME NEW i, NEW byName, <<"refresh", i, byName>> \in doomed'
      PROVE  RefreshCovered(i, byName)'
  <2>1. CASE <<"refresh", i, byName>> \in more
    BY <1>2, <1>4, <2>1 DEF AheadOf, RefreshCovered, RowsStay
  <2>2. CASE <<"refresh", i, byName>> \in doomed
    <3>1. RefreshCovered(i, byName) /\ i \in DOMAIN refreshTokens
      BY <2>2, Facts DEF DoomedCovered, RefreshCovered
    <3>2. RefreshWalked(i) => refreshTokens'[i].revoked \/ RefreshWalked(i)'
      BY <1>2, <1>4, <1>5, <3>1 DEF RefreshWalked, RowsStay
    <3> QED BY <1>2, <1>3, <3>1, <3>2 DEF RefreshCovered, RowsStay
  <2> QED BY <1>1, <1>6, <2>1, <2>2
<1>7. ASSUME NEW i, NEW byName, <<"access", i, byName>> \in doomed'
      PROVE  AccessCovered(i, byName)'
  <2>1. CASE <<"access", i, byName>> \in more
    BY <1>2, <1>4, <2>1 DEF AheadOf, AccessCovered, RowsStay
  <2>2. CASE <<"access", i, byName>> \in doomed
    <3>1. AccessCovered(i, byName) /\ i \in DOMAIN accessTokens
      BY <2>2, Facts DEF DoomedCovered, AccessCovered
    <3>2. AccessWalked(i) => accessTokens'[i].revoked \/ AccessWalked(i)'
      BY <1>2, <1>4, <1>5, <3>1 DEF AccessWalked, RowsStay
    <3> QED BY <1>2, <1>3, <3>1, <3>2 DEF AccessCovered, RowsStay, FamilyJob
  <2> QED BY <1>1, <1>7, <2>1, <2>2
<1> QED BY <1>6, <1>7 DEF DoomedCovered

\* What every page of a walk keeps.
LEMMA WalkingKeepsInv ==
  ASSUME SeatInv, NEW w \in Walk, w.op = "retarget_scope" => w.to \in Profile,
         NEW rest \in SUBSET walks, NEW more, WalkPage(w, rest, more), walks \ {w} \subseteq rest,
         w.op = "retarget_scope" => more = {}, AheadOf(w, more),
         more \subseteq {"refresh", "access"} \X Nat \X BOOLEAN,
         UNCHANGED <<now, profiles, mappings, jobs, callers>>,
         clients' \in [Client -> [profile : OrNothing(Profile), revoked : BOOLEAN]]
  PROVE  SeatInv'
<1>1. RefreshKept /\ AccessKept /\ DOMAIN refreshTokens \subseteq DOMAIN refreshTokens'
  BY Facts, WalkedRows DEF RefreshKept
<1>2. RefreshSound' /\ AccessSound'
  BY <1>1, Facts, KeptRefresh, KeptAccess
<1>3. walks' \subseteq rest \cup {NextWalk(w)}
  BY WalkPageIs
<1>4. NextWalk(w) \in Walk /\ NextWalk(w).op = w.op /\ NextWalk(w).to = w.to
  BY Facts, NextWalkIs
<1>5. walks' \subseteq Walk /\ \A v \in walks' : v.op = "retarget_scope" => v.to \in Profile
  BY <1>3, <1>4, Facts DEF RestTyped, InHand
<1>6. doomed' \subseteq {"refresh", "access"} \X Nat \X BOOLEAN
  <2>1. doomed \subseteq {"refresh", "access"} \X Nat \X BOOLEAN
    BY Facts DEF RestTyped
  <2>2. doomed' \subseteq doomed \cup more
    BY WalkPageIs
  <2> QED BY <2>1, <2>2
<1>7. InHand'
  BY <1>1, <1>5, Facts, HandsStay
<1>8. RestTyped'
  BY <1>5, <1>6, Facts DEF RestTyped, mappings, callers
<1>9. DoomedCovered'
  BY RetargetCovers, RevokingCovers
<1> QED BY <1>2, <1>7, <1>8, <1>9, InvFrom

\* The rows of a client lie ahead of a new walk.
LEMMA NewWalkAhead ==
  ASSUME TypeOK, NEW w, NEW R, NEW A, w.access = 0, ~w.accessDone, w.refresh = 0,
         A = RowsOf(accessTokens, w.client),
         R = {} \/ (R = RowsOf(refreshTokens, w.client) /\ ~w.refreshDone)
  PROVE  /\ AheadOf(w, Doom(R, A, FALSE))
         /\ Doom(R, A, FALSE) \subseteq {"refresh", "access"} \X Nat \X BOOLEAN
<1>1. R \in SUBSET DOMAIN refreshTokens /\ A \in SUBSET DOMAIN accessTokens
  BY DEF RowsOf
<1>2. /\ \A i \in R : refreshTokens[i].client = w.client /\ ~w.refreshDone /\ 0 < i
      /\ \A i \in A : accessTokens[i].client = w.client /\ 0 < i
  BY SeatRows DEF RowsOf
<1>3. AheadOf(w, Doom(R, A, FALSE))
  BY <1>1, <1>2 DEF AheadOf, Doom
<1>4. FALSE \in BOOLEAN
  OBVIOUS
<1> QED BY <1>1, <1>3, <1>4, DoomTyped, Zenon


LEMMA DeleteKeepsInv ==
  ASSUME SeatInv, NEW c \in Client, DeleteClient(c)
  PROVE  SeatInv'
<1> DEFINE w == NewWalk("revoke_all", c, Nothing, FALSE)
           more == Doom(RowsOf(refreshTokens, c), RowsOf(accessTokens, c), FALSE)
<1>1. /\ w \in Walk /\ w.op = "revoke_all" /\ w.client = c
      /\ w.access = 0 /\ w.refresh = 0 /\ ~w.accessDone /\ ~w.refreshDone
  BY Facts DEF NewWalk, Walk, RestTyped, OrNothing
<1>2. WalkPage(w, walks, more)
  BY DEF DeleteClient
<1>3. clients' \in [Client -> [profile : OrNothing(Profile), revoked : BOOLEAN]]
  BY Facts DEF RestTyped, DeleteClient
<1> HIDE DEF w
<1>4. AheadOf(w, more) /\ more \subseteq {"refresh", "access"} \X Nat \X BOOLEAN
  <2>1. /\ AheadOf(w, Doom(RowsOf(refreshTokens, c), RowsOf(accessTokens, c), FALSE))
        /\ Doom(RowsOf(refreshTokens, c), RowsOf(accessTokens, c), FALSE)
             \subseteq {"refresh", "access"} \X Nat \X BOOLEAN
    BY <1>1, Facts, NewWalkAhead
  <2> QED BY <2>1
<1> HIDE DEF more
<1> QED BY <1>1, <1>2, <1>3, <1>4, WalkingKeepsInv DEF DeleteClient

LEMMA RevokeAccessKeepsInv ==
  ASSUME SeatInv, NEW c \in Client, RevokeAccessTokensOnly(c)
  PROVE  SeatInv'
<1> DEFINE w == NewWalk("revoke_access_only", c, Nothing, TRUE)
           more == Doom({}, RowsOf(accessTokens, c), FALSE)
<1>1. /\ w \in Walk /\ w.op = "revoke_access_only" /\ w.client = c
      /\ w.access = 0 /\ w.refresh = 0 /\ ~w.accessDone /\ w.refreshDone
  BY Facts DEF NewWalk, Walk, RestTyped, OrNothing
<1>2. WalkPage(w, walks, more)
  BY DEF RevokeAccessTokensOnly
<1>3. clients' \in [Client -> [profile : OrNothing(Profile), revoked : BOOLEAN]]
  BY Facts DEF RestTyped, RevokeAccessTokensOnly, catalog, mappings
<1> HIDE DEF w
<1>4. AheadOf(w, more) /\ more \subseteq {"refresh", "access"} \X Nat \X BOOLEAN
  <2>1. PICK R : R = {}
    OBVIOUS
  <2>2. PICK A : A = RowsOf(accessTokens, c)
    OBVIOUS
  <2>3. /\ AheadOf(w, Doom(R, A, FALSE))
        /\ Doom(R, A, FALSE) \subseteq {"refresh", "access"} \X Nat \X BOOLEAN
    <3>1. /\ A = RowsOf(accessTokens, w.client)
          /\ R = {} \/ (R = RowsOf(refreshTokens, w.client) /\ ~w.refreshDone)
      BY <1>1, <2>1, <2>2
    <3>2. TypeOK /\ w.access = 0 /\ ~w.accessDone /\ w.refresh = 0
      BY <1>1, Facts
    <3> QED BY <3>1, <3>2, NewWalkAhead, Zenon
  <2> QED BY <2>1, <2>2, <2>3
<1> HIDE DEF more
<1> QED BY <1>1, <1>2, <1>3, <1>4, WalkingKeepsInv DEF RevokeAccessTokensOnly, catalog

LEMMA PatchKeepsInv ==
  ASSUME SeatInv, NEW c \in Client, NEW p \in Profile, PatchClientScope(c, p)
  PROVE  SeatInv'
<1> DEFINE w == NewWalk("retarget_scope", c, p, FALSE)
<1>1. w \in Walk /\ w.op = "retarget_scope" /\ w.to = p
  BY Facts DEF NewWalk, Walk, RestTyped, OrNothing
<1>2. WalkPage(w, walks, {})
  BY DEF PatchClientScope
<1>3. clients' \in [Client -> [profile : OrNothing(Profile), revoked : BOOLEAN]]
  BY Facts DEF RestTyped, PatchClientScope, OrNothing
<1>4. /\ AheadOf(w, {}) /\ {} \subseteq {"refresh", "access"} \X Nat \X BOOLEAN
      /\ walks \in SUBSET walks /\ walks \ {w} \subseteq walks
  BY DEF AheadOf
<1> HIDE DEF w
<1> QED BY <1>1, <1>2, <1>3, <1>4, WalkingKeepsInv DEF PatchClientScope

\* A walk that raises stops, and it was no revocation.
LEMMA WalkKeepsInv ==
  ASSUME SeatInv, NEW w \in walks, ContinueClientTokenWalk(w)
  PROVE  SeatInv'
<1>1. w \in Walk /\ (w.op = "retarget_scope" => w.to \in Profile)
  BY Facts DEF RestTyped, InHand
<1>2. CASE w.op = "retarget_scope" /\ profiles[w.to] = Nothing
  <2>1. /\ walks' = walks \ {w} /\ UNCHANGED tables
        /\ UNCHANGED <<now, catalog, jobs, callers, doomed>>
    BY <1>2 DEF ContinueClientTokenWalk
  <2>2. RefreshSound' /\ AccessSound' /\ RowsStay
    BY <2>1, Facts, TablesStay
  <2>3. JobsStay /\ Revoking \subseteq Revoking'
    BY <1>2, <2>1 DEF JobsStay, Revoking
  <2>4. DoomedCovered'
    BY <2>1, <2>2, <2>3, Facts, DoomedStay
  <2>5. RestTyped'
    BY <2>1, Facts DEF RestTyped, catalog, mappings, callers
  <2>6. InHand'
    BY <2>1, Facts, HandsStay DEF InHand, tables
  <2> QED BY <2>2, <2>4, <2>5, <2>6, InvFrom
<1>3. CASE ~(w.op = "retarget_scope" /\ profiles[w.to] = Nothing)
  <2>1. WalkPage(w, walks \ {w}, {}) /\ UNCHANGED <<now, catalog, jobs, callers>>
    BY <1>3 DEF ContinueClientTokenWalk
  <2>2. AheadOf(w, {}) /\ {} \subseteq {"refresh", "access"} \X Nat \X BOOLEAN
    BY DEF AheadOf
  <2>3. clients' \in [Client -> [profile : OrNothing(Profile), revoked : BOOLEAN]]
    BY <2>1, Facts DEF RestTyped, catalog, mappings
  <2>4. walks \ {w} \in SUBSET walks /\ walks \ {w} \subseteq walks \ {w}
    OBVIOUS
  <2> QED BY <1>1, <2>1, <2>2, <2>3, <2>4, WalkingKeepsInv DEF catalog
<1> QED BY <1>2, <1>3


-----------------------------------------------------------------------------
(* A cascade over the names of a profile.                                  *)

\* A name's rows are on its first batch, or the cascade has a job.
LEMMA CascadedRows ==
  ASSUME TablesInv, NEW P, Cascade(P)
  PROVE  /\ RefreshKept /\ AccessKept /\ RowsStay
         /\ CascadeJob(P) \subseteq {NamesJob(P)}
         /\ \A i \in DOMAIN refreshTokens : refreshTokens[i].profile \in P =>
              refreshTokens'[i].revoked \/ NamesJob(P) \in CascadeJob(P)
         /\ \A i \in DOMAIN accessTokens : accessTokens[i].profile \in P =>
              accessTokens'[i].revoked \/ NamesJob(P) \in CascadeJob(P)
<1> DEFINE R == UNION {Page(Named(refreshTokens, p)) : p \in P}
           A == UNION {Page(Named(accessTokens, p)) : p \in P}
<1>1. /\ refreshTokens \in Seq(RefreshRow) /\ accessTokens \in Seq(AccessRow)
      /\ refreshTokens' = Deleted(refreshTokens, R)
      /\ accessTokens' = Deleted(accessTokens, A)
  BY DEF TablesInv, TypeOK, Cascade
<1>2. /\ CascadeJob(P) \subseteq {NamesJob(P)}
      /\ More(P) => NamesJob(P) \in CascadeJob(P)
  BY DEF CascadeJob, NamesJob
<1>3. ASSUME NEW i \in DOMAIN refreshTokens, refreshTokens[i].profile \in P,
             ~refreshTokens[i].revoked, ~More(P)
      PROVE  i \in R
  <2>1. PICK p \in P : p = refreshTokens[i].profile
    BY <1>3
  <2>2. PICK S : S = Named(refreshTokens, p)
    OBVIOUS
  <2>3. i \in S /\ S \in SUBSET DOMAIN refreshTokens
    BY <1>3, <2>1, <2>2 DEF Named, TablesInv, GoneIsRevoked
  <2>4. S \in SUBSET Nat /\ IsFiniteSet(S) /\ Cardinality(S) \in Nat
    BY <1>1, <2>3, RowsFinite
  <2>5. ~(Cardinality(S) > Batch)
    BY <1>3, <2>2 DEF More
  <2>6. Page(S) = S
    BY <2>4, <2>5, PageOfFew, BatchAssumption
  <2> QED BY <2>1, <2>2, <2>3, <2>6
<1>4. ASSUME NEW i \in DOMAIN accessTokens, accessTokens[i].profile \in P,
             ~accessTokens[i].revoked, ~More(P)
      PROVE  i \in A
  <2>1. PICK p \in P : p = accessTokens[i].profile
    BY <1>4
  <2>2. PICK S : S = Named(accessTokens, p)
    OBVIOUS
  <2>3. i \in S /\ S \in SUBSET DOMAIN accessTokens
    BY <1>4, <2>1, <2>2 DEF Named, TablesInv, GoneIsRevoked
  <2>4. S \in SUBSET Nat /\ IsFiniteSet(S) /\ Cardinality(S) \in Nat
    BY <1>1, <2>3, RowsFinite
  <2>5. ~(Cardinality(S) > Batch)
    BY <1>4, <2>2 DEF More
  <2>6. Page(S) = S
    BY <2>4, <2>5, PageOfFew, BatchAssumption
  <2> QED BY <2>1, <2>2, <2>3, <2>6
<1> HIDE DEF R, A
<1>5. RefreshKept /\ AccessKept
  BY <1>1, DeletedRefresh, DeletedAccess DEF RefreshKept, AccessKept
<1>6. RowsStay
  BY <1>1, DeletedRefresh, DeletedAccess DEF RowsStay
<1>7. /\ \A i \in DOMAIN refreshTokens :
           refreshTokens'[i].revoked <=> (refreshTokens[i].revoked \/ i \in R)
      /\ \A i \in DOMAIN accessTokens :
           accessTokens'[i].revoked <=> (accessTokens[i].revoked \/ i \in A)
  BY <1>1, DeletedRefresh, DeletedAccess
<1> QED BY <1>2, <1>3, <1>4, <1>5, <1>6, <1>7

LEMMA CascadeCovers ==
  ASSUME SeatInv, NEW P \in SUBSET Profile, Cascade(P), CascadeJob(P) \subseteq jobs', walks' = walks,
         \A Q \in SUBSET Profile : Q # P /\ NamesJob(Q) \in jobs => NamesJob(Q) \in jobs',
         \A f \in Nat : FamilyJob(f) \in jobs => FamilyJob(f) \in jobs',
         \A i, b : <<"refresh", i, b>> \in doomed' => <<"refresh", i, b>> \in doomed \/
           (b /\ i \in DOMAIN refreshTokens /\ refreshTokens[i].profile \in P),
         \A i, b : <<"access", i, b>> \in doomed' => <<"access", i, b>> \in doomed \/
           (b /\ i \in DOMAIN accessTokens /\ accessTokens[i].profile \in P)
  PROVE  DoomedCovered'
<1>1. /\ RowsStay
      /\ \A i \in DOMAIN refreshTokens : refreshTokens[i].profile \in P =>
           refreshTokens'[i].revoked \/ NamesJob(P) \in jobs'
      /\ \A i \in DOMAIN accessTokens : accessTokens[i].profile \in P =>
           accessTokens'[i].revoked \/ NamesJob(P) \in jobs'
  BY Facts, CascadedRows
<1>2. \A p : NameCovered(p) => p \in P \/ NameCovered(p)'
  BY DEF NameCovered, NamesJob
<1>3. NamesJob(P) \in jobs' => \A p \in P : NameCovered(p)'
  BY DEF NameCovered, NamesJob
<1>4. ASSUME NEW i, NEW byName, <<"refresh", i, byName>> \in doomed'
      PROVE  RefreshCovered(i, byName)'
  <2>1. CASE <<"refresh", i, byName>> \in doomed
    <3>1. RefreshCovered(i, byName) /\ i \in DOMAIN refreshTokens
      BY <2>1, Facts DEF DoomedCovered, RefreshCovered
    <3>2. RefreshWalked(i) => RefreshWalked(i)'
      BY <1>1, <3>1 DEF RefreshWalked, Revoking, RowsStay
    <3> QED BY <1>1, <1>2, <1>3, <3>1, <3>2 DEF RefreshCovered, RowsStay
  <2>2. CASE byName /\ i \in DOMAIN refreshTokens /\ refreshTokens[i].profile \in P
    BY <1>1, <1>3, <2>2 DEF RefreshCovered, RowsStay
  <2> QED BY <1>4, <2>1, <2>2
<1>5. ASSUME NEW i, NEW byName, <<"access", i, byName>> \in doomed'
      PROVE  AccessCovered(i, byName)'
  <2>1. CASE <<"access", i, byName>> \in doomed
    <3>1. AccessCovered(i, byName) /\ i \in DOMAIN accessTokens /\ accessTokens[i].family \in Nat
      BY <2>1, Facts, SeatRows DEF DoomedCovered, AccessCovered
    <3>2. AccessWalked(i) => AccessWalked(i)'
      BY <1>1, <3>1 DEF AccessWalked, Revoking, RowsStay
    <3> QED BY <1>1, <1>2, <1>3, <3>1, <3>2 DEF AccessCovered, RowsStay, FamilyJob
  <2>2. CASE byName /\ i \in DOMAIN accessTokens /\ accessTokens[i].profile \in P
    BY <1>1, <1>3, <2>2 DEF AccessCovered, RowsStay
  <2> QED BY <1>5, <2>1, <2>2
<1> QED BY <1>4, <1>5 DEF DoomedCovered

LEMMA CascadeBatchKeepsInv ==
  ASSUME SeatInv, NEW P \in SUBSET Profile, ContinueCascadeRevoke(P)
  PROVE  SeatInv'
<1>1. /\ Cascade(P) /\ jobs' = (jobs \ {NamesJob(P)}) \cup CascadeJob(P)
      /\ UNCHANGED <<now, catalog, walks, callers, doomed>>
  BY DEF ContinueCascadeRevoke, NamesJob
<1>2. /\ RefreshKept /\ AccessKept /\ CascadeJob(P) \subseteq {NamesJob(P)}
      /\ DOMAIN refreshTokens \subseteq DOMAIN refreshTokens'
  BY <1>1, Facts, CascadedRows DEF RefreshKept
<1>3. RefreshSound' /\ AccessSound'
  BY <1>2, Facts, KeptRefresh, KeptAccess
<1>4. /\ \A Q \in SUBSET Profile : Q # P => NamesJob(Q) # NamesJob(P)
      /\ \A f \in Nat : FamilyJob(f) # NamesJob(P)
      /\ NamesJob(P) \in [kind : {"cascade"}, of : SUBSET Profile]
  BY DEF NamesJob, FamilyJob
<1>5. DoomedCovered'
  <2>1. /\ \A Q \in SUBSET Profile : Q # P /\ NamesJob(Q) \in jobs => NamesJob(Q) \in jobs'
        /\ \A f \in Nat : FamilyJob(f) \in jobs => FamilyJob(f) \in jobs'
    BY <1>1, <1>4
  <2>2. CascadeJob(P) \subseteq jobs' /\ walks' = walks /\ doomed' = doomed
    BY <1>1
  <2> QED BY <1>1, <2>1, <2>2, CascadeCovers
<1>6. RestTyped'
  BY <1>1, <1>2, <1>4, Facts DEF RestTyped, catalog, mappings, callers
<1>7. InHand'
  BY <1>1, <1>2, Facts, HandsStay DEF InHand
<1> QED BY <1>3, <1>5, <1>6, <1>7, InvFrom


LEMMA MovedClients ==
  ASSUME RestTyped, NEW T, NEW r \in Profile
  PROVE  Moved(T, r) \in [Client -> [profile : OrNothing(Profile), revoked : BOOLEAN]]
<1> DEFINE Rec == [profile : OrNothing(Profile), revoked : BOOLEAN]
<1>1. ASSUME NEW c \in Client
      PROVE  clients[c] \in Rec /\ [clients[c] EXCEPT !.profile = r] \in Rec
  <2>1. clients[c] \in Rec
    BY DEF RestTyped
  <2> QED BY <2>1 DEF OrNothing
<1> HIDE DEF Rec
<1>2. Moved(T, r) \in [Client -> Rec]
  BY <1>1 DEF Moved
<1> QED BY <1>2 DEF Rec

LEMMA EmergencyParts ==
  ASSUME RestTyped, NEW p \in Profile, NEW r \in Profile, NEW cascade \in BOOLEAN,
         PatchScopeProfileEmergency(p, r, cascade)
  PROVE  /\ clients' \in [Client -> [profile : OrNothing(Profile), revoked : BOOLEAN]]
         /\ profiles' \in [Profile -> OrNothing(ProfileRow)]
         /\ jobs \subseteq jobs'
         /\ jobs' \subseteq jobs \cup {[kind |-> "retarget", from |-> p, to |-> r]}
                              \cup CascadeJob({p, r})
         /\ cascade => CascadeJob({p, r}) \subseteq jobs'
<1>1. CASE r = p
  BY <1>1 DEF RestTyped, PatchScopeProfileEmergency
<1>2. CASE r # p
  <2>1. PICK T : /\ clients' = Moved(T, r)
                 /\ jobs' = jobs \cup RetargetJob(T, p, r)
                              \cup (IF cascade THEN CascadeJob({p, r}) ELSE {})
    BY <1>2 DEF PatchScopeProfileEmergency
  <2>2. clients' \in [Client -> [profile : OrNothing(Profile), revoked : BOOLEAN]]
    BY <2>1, MovedClients
  <2>3. RetargetJob(T, p, r) \subseteq {[kind |-> "retarget", from |-> p, to |-> r]}
    BY DEF RetargetJob
  <2>4. profiles' \in [Profile -> OrNothing(ProfileRow)]
    <3>1. profiles' = [profiles EXCEPT ![r] = profiles[p], ![p] = Nothing]
      BY <1>2 DEF PatchScopeProfileEmergency
    <3>2. profiles \in [Profile -> OrNothing(ProfileRow)] /\ profiles[p] \in OrNothing(ProfileRow)
            /\ Nothing \in OrNothing(ProfileRow)
      BY DEF RestTyped, OrNothing
    <3> QED BY <3>1, <3>2
  <2> QED BY <2>1, <2>2, <2>3, <2>4
<1> QED BY <1>1, <1>2

LEMMA EmergencyKeepsInv ==
  ASSUME SeatInv, NEW p \in Profile, NEW r \in Profile, NEW cascade \in BOOLEAN,
         PatchScopeProfileEmergency(p, r, cascade)
  PROVE  SeatInv'
<1>1. PICK P \in SUBSET Profile : P = {p, r}
  OBVIOUS
<1>2. /\ clients' \in [Client -> [profile : OrNothing(Profile), revoked : BOOLEAN]]
      /\ profiles' \in [Profile -> OrNothing(ProfileRow)]
      /\ jobs \subseteq jobs'
      /\ jobs' \subseteq jobs \cup {[kind |-> "retarget", from |-> p, to |-> r]} \cup CascadeJob(P)
      /\ cascade => CascadeJob(P) \subseteq jobs'
  BY <1>1, Facts, EmergencyParts
<1>3. jobs' \subseteq [kind : {"family"}, of : Nat]
        \cup [kind : {"cascade"}, of : SUBSET Profile]
        \cup [kind : {"retarget"}, from : Profile, to : Profile]
  <2>1. CascadeJob(P) \subseteq [kind : {"cascade"}, of : SUBSET Profile]
    BY DEF CascadeJob
  <2>2. [kind |-> "retarget", from |-> p, to |-> r] \in [kind : {"retarget"}, from : Profile, to : Profile]
    OBVIOUS
  <2>3. jobs \subseteq [kind : {"family"}, of : Nat]
          \cup [kind : {"cascade"}, of : SUBSET Profile]
          \cup [kind : {"retarget"}, from : Profile, to : Profile]
    BY Facts DEF RestTyped
  <2> QED BY <1>2, <2>1, <2>2, <2>3
<1>4. UNCHANGED <<now, mappings, walks, callers>>
  BY DEF PatchScopeProfileEmergency
<1>5. CASE ~cascade
  <2>1. UNCHANGED <<tables, doomed>>
    BY <1>5 DEF PatchScopeProfileEmergency
  <2>2. RefreshSound' /\ AccessSound' /\ RowsStay
    BY <2>1, Facts, TablesStay
  <2>3. JobsStay /\ Revoking \subseteq Revoking'
    BY <1>2, <1>4 DEF JobsStay, Revoking
  <2>4. DoomedCovered'
    BY <2>1, <2>2, <2>3, Facts, DoomedStay
  <2>5. RestTyped'
    BY <1>2, <1>3, <1>4, <2>1, Facts DEF RestTyped, mappings, callers
  <2>6. InHand'
    BY <1>4, <2>1, Facts, HandsStay DEF InHand, tables
  <2> QED BY <2>2, <2>4, <2>5, <2>6, InvFrom
<1>6. CASE cascade
  <2> DEFINE R == UNION {Named(refreshTokens, n) : n \in P}
             A == UNION {Named(accessTokens, n) : n \in P}
  <2>1. Cascade(P) /\ doomed' = doomed \cup Doom(R, A, TRUE)
    BY <1>1, <1>6 DEF PatchScopeProfileEmergency
  <2>2. /\ \A i \in R : i \in DOMAIN refreshTokens /\ refreshTokens[i].profile \in P
        /\ \A i \in A : i \in DOMAIN accessTokens /\ accessTokens[i].profile \in P
    BY DEF Named
  <2> HIDE DEF R, A
  <2>3. /\ RefreshKept /\ AccessKept /\ DOMAIN refreshTokens \subseteq DOMAIN refreshTokens'
    BY <2>1, Facts, CascadedRows DEF RefreshKept
  <2>4. RefreshSound' /\ AccessSound'
    BY <2>3, Facts, KeptRefresh, KeptAccess
  <2>5. DoomedCovered'
    <3>1. /\ \A i, b : <<"refresh", i, b>> \in doomed' => <<"refresh", i, b>> \in doomed \/
               (b /\ i \in DOMAIN refreshTokens /\ refreshTokens[i].profile \in P)
          /\ \A i, b : <<"access", i, b>> \in doomed' => <<"access", i, b>> \in doomed \/
               (b /\ i \in DOMAIN accessTokens /\ accessTokens[i].profile \in P)
      BY <2>1, <2>2 DEF Doom
    <3>2. /\ \A Q \in SUBSET Profile : Q # P /\ NamesJob(Q) \in jobs => NamesJob(Q) \in jobs'
          /\ \A f \in Nat : FamilyJob(f) \in jobs => FamilyJob(f) \in jobs'
          /\ CascadeJob(P) \subseteq jobs' /\ walks' = walks
      BY <1>2, <1>4, <1>6
    <3> QED BY <2>1, <3>1, <3>2, CascadeCovers
  <2>6. doomed' \subseteq {"refresh", "access"} \X Nat \X BOOLEAN
    <3>1. R \in SUBSET DOMAIN refreshTokens /\ A \in SUBSET DOMAIN accessTokens /\ TRUE \in BOOLEAN
      BY <2>2
    <3>2. Doom(R, A, TRUE) \subseteq {"refresh", "access"} \X Nat \X BOOLEAN
      BY <3>1, Facts, DoomTyped, Zenon
    <3> QED BY <2>1, <3>2, Facts DEF RestTyped
  <2>7. RestTyped'
    BY <1>2, <1>3, <1>4, <2>6, Facts DEF RestTyped, mappings, callers
  <2>8. InHand'
    BY <1>4, <2>3, Facts, HandsStay DEF InHand
  <2> QED BY <2>4, <2>5, <2>7, <2>8, InvFrom
<1> QED BY <1>5, <1>6

-----------------------------------------------------------------------------
(* What touches no token.                                                  *)

LEMMA QuietKeepsInv ==
  ASSUME SeatInv, UNCHANGED <<tables, walks, doomed>>, JobsStay, RestTyped', InHand'
  PROVE  SeatInv'
<1>1. RefreshSound' /\ AccessSound' /\ RowsStay
  BY Facts, TablesStay
<1>2. Revoking \subseteq Revoking'
  BY DEF Revoking
<1>3. DoomedCovered'
  BY <1>1, <1>2, Facts, DoomedStay
<1> QED BY <1>1, <1>3, InvFrom

LEMMA RenamingKeepsInv ==
  ASSUME SeatInv, NEW p \in Profile, NEW r \in Profile, ContinueClientRetarget(p, r)
  PROVE  SeatInv'
<1> DEFINE job == [kind |-> "retarget", from |-> p, to |-> r]
<1>1. PICK T : clients' = Moved(T, r) /\ jobs' = (jobs \ {job}) \cup RetargetJob(T, p, r)
  BY DEF ContinueClientRetarget
<1>2. RetargetJob(T, p, r) \subseteq {job} /\ job \in jobs
  BY DEF RetargetJob, ContinueClientRetarget
<1>3. JobsStay
  <2>1. \A P, f : NamesJob(P) # job /\ FamilyJob(f) # job
    BY DEF NamesJob, FamilyJob
  <2> QED BY <1>1, <2>1 DEF JobsStay
<1>4. jobs' \subseteq jobs
  BY <1>1, <1>2
<1>5. clients' \in [Client -> [profile : OrNothing(Profile), revoked : BOOLEAN]]
  BY <1>1, Facts, MovedClients
<1>6. RestTyped'
  BY <1>4, <1>5, Facts DEF RestTyped, ContinueClientRetarget, mappings, callers
<1>7. InHand'
  BY Facts, HandsStay DEF InHand, ContinueClientRetarget, tables
<1> QED BY <1>3, <1>6, <1>7, QuietKeepsInv DEF ContinueClientRetarget

LEMMA CreateClientKeepsInv ==
  ASSUME SeatInv, NEW c \in Client, NEW p \in Profile, CreateClient(c, p)
  PROVE  SeatInv'
<1>1. RestTyped'
  BY Facts DEF RestTyped, CreateClient, OrNothing, mappings, queue
<1>2. InHand'
  BY Facts DEF RestTyped, InHand, CreateClient, tables, queue
<1> QED BY <1>1, <1>2, QuietKeepsInv DEF CreateClient, queue, JobsStay

LEMMA SetActiveKeepsInv ==
  ASSUME SeatInv, NEW o \in Org, SetActive(o)
  PROVE  SeatInv'
<1>1. RestTyped'
  BY Facts DEF RestTyped, SetActive, queue, callers
<1>2. InHand'
  BY Facts, HandsStay DEF InHand, SetActive, tables, queue
<1> QED BY <1>1, <1>2, QuietKeepsInv DEF SetActive, queue, JobsStay

LEMMA TakeLabelKeepsInv ==
  ASSUME SeatInv, NEW o \in Org, NEW l \in Label, TakeLabel(o, l)
  PROVE  SeatInv'
<1>1. RestTyped'
  BY Facts DEF RestTyped, TakeLabel, queue, callers
<1>2. InHand'
  BY Facts, HandsStay DEF InHand, TakeLabel, tables, queue
<1> QED BY <1>1, <1>2, QuietKeepsInv DEF TakeLabel, queue, JobsStay

LEMMA TickKeepsInv ==
  ASSUME SeatInv, Tick
  PROVE  SeatInv'
<1>1. RestTyped'
  BY Facts DEF RestTyped, Tick, queue, callers, catalog, mappings
<1>2. InHand'
  BY Facts, HandsStay DEF InHand, Tick, tables, queue
<1> QED BY <1>1, <1>2, QuietKeepsInv DEF Tick, queue, JobsStay


\* A step of a request that leaves its record g and nothing else.
LEMMA AnswerKeepsInv ==
  ASSUME SeatInv, NEW q \in Request, NEW g \in Grant, requests' = [requests EXCEPT ![q] = g],
         g.pc \in {"read", "client", "profile"} =>
           g.token \in DOMAIN refreshTokens /\ g.profile \in Profile,
         UNCHANGED <<now, catalog, tables, queue, doomed, scripts>>
  PROVE  SeatInv'
<1>1. requests' \in [Request -> Grant] /\ InHand'
  BY Facts, RequestHands DEF tables, queue
<1>2. RestTyped'
  BY <1>1, Facts DEF RestTyped, catalog, mappings, queue
<1> QED BY <1>1, <1>2, QuietKeepsInv DEF queue, JobsStay

LEMMA ReadKeepsInv ==
  ASSUME SeatInv, NEW q \in Request, NEW i \in DOMAIN refreshTokens, GetRefreshTokenForGrant(q, i)
  PROVE  SeatInv'
<1> DEFINE g == [Idle EXCEPT !.pc = "read", !.token = i, !.profile = refreshTokens[i].profile]
<1>1. i \in Nat /\ refreshTokens[i].profile \in Profile
  BY Facts, SeatRows DEF RefreshRow
<1>2. g \in Grant /\ g.token = i /\ g.profile = refreshTokens[i].profile
  BY <1>1 DEF Idle, Grant, OrNothing
<1>3. requests' = [requests EXCEPT ![q] = g]
  BY DEF GetRefreshTokenForGrant
<1> HIDE DEF g
<1> QED BY <1>1, <1>2, <1>3, AnswerKeepsInv DEF GetRefreshTokenForGrant

LEMMA AnsweredKeepsInv ==
  ASSUME SeatInv, NEW q \in Request, Answered(q),
         UNCHANGED <<now, catalog, tables, queue, doomed, scripts>>
  PROVE  SeatInv'
<1>1. Idle \in Grant /\ Idle.pc = "idle"
  BY GrantRecords
<1> QED BY <1>1, AnswerKeepsInv DEF Answered

LEMMA ClientKeepsInv ==
  ASSUME SeatInv, NEW q \in Request, GetClientByClientId(q)
  PROVE  SeatInv'
<1>1. /\ requests[q].pc = "read"
      /\ UNCHANGED <<now, catalog, tables, queue, doomed, scripts>>
  BY DEF GetClientByClientId
<1>2. CASE Answered(q)
  BY <1>1, <1>2, AnsweredKeepsInv
<1>3. CASE Goto(q, "client")
  <2>1. requests[q] \in Grant
    BY Facts DEF RestTyped
  <2>2. PICK g : g = [requests[q] EXCEPT !.pc = "client"]
    OBVIOUS
  <2>3. g \in Grant /\ g.token = requests[q].token /\ g.profile = requests[q].profile
    BY <2>1, <2>2 DEF Grant
  <2>4. g.token \in DOMAIN refreshTokens /\ g.profile \in Profile
    BY <1>1, <2>3, Facts DEF InHand
  <2>5. requests' = [requests EXCEPT ![q] = g]
    BY <1>3, <2>2 DEF Goto
  <2> QED BY <1>1, <2>3, <2>4, <2>5, AnswerKeepsInv
<1> QED BY <1>2, <1>3 DEF GetClientByClientId

LEMMA ProfileKeepsInv ==
  ASSUME SeatInv, NEW q \in Request, LoadScopeProfile(q)
  PROVE  SeatInv'
<1>1. /\ requests[q].pc = "client"
      /\ UNCHANGED <<now, catalog, tables, queue, doomed, scripts>>
  BY DEF LoadScopeProfile
<1>2. CASE Answered(q)
  BY <1>1, <1>2, AnsweredKeepsInv
<1>3. CASE requests' = [requests EXCEPT ![q].pc = "profile",
                                        ![q].label = profiles[requests[q].profile].label]
           /\ profiles[requests[q].profile] # Nothing
  <2>1. requests[q] \in Grant /\ requests[q].profile \in Profile
    BY <1>1, Facts DEF RestTyped, InHand
  <2>2. PICK l \in OrNothing(Label) : l = profiles[requests[q].profile].label
    BY <1>3, <2>1, Facts, IdOfProfile
  <2>3. PICK g : g = [requests[q] EXCEPT !.pc = "profile", !.label = l]
    OBVIOUS
  <2>4. g \in Grant /\ g.token = requests[q].token /\ g.profile = requests[q].profile
    BY <2>1, <2>2, <2>3 DEF Grant
  <2>5. g.token \in DOMAIN refreshTokens /\ g.profile \in Profile
    BY <1>1, <2>4, Facts DEF InHand
  <2>6. requests' = [requests EXCEPT ![q] = g]
    BY <1>3, <2>2, <2>3, Facts DEF RestTyped
  <2> QED BY <1>1, <2>4, <2>5, <2>6, AnswerKeepsInv
<1> QED BY <1>2, <1>3 DEF LoadScopeProfile

LEMMA GrantStepKeepsInv ==
  ASSUME SeatInv, NEW q \in Request, GrantStep(q)
  PROVE  SeatInv'
<1>1. CASE InvalidGrant(q)
  BY <1>1, AnsweredKeepsInv DEF InvalidGrant
<1>2. CASE Finish(q)
  BY <1>2, AnsweredKeepsInv DEF Finish
<1> QED BY <1>1, <1>2, ReadKeepsInv, ClientKeepsInv, ProfileKeepsInv, ReplayKeepsInv, RefusalKeepsInv,
           RotationKeepsInv DEF GrantStep

LEMMA SeatInvHolds == Spec => []SeatInv
<1>1. Init => SeatInv
  <2> SUFFICES ASSUME Init PROVE SeatInv
    OBVIOUS
  <2>1. DOMAIN refreshTokens = {} /\ DOMAIN accessTokens = {}
    BY DEF Init
  <2>2. RefreshSound /\ AccessSound
    BY <2>1 DEF Init, RefreshSound, AccessSound, OneLiveRefresh, RootsSpent
  <2>3. requests \in [Request -> Grant]
    BY GrantRecords DEF Init
  <2>a. profiles \in [Profile -> OrNothing(ProfileRow)]
    <3>1. \A l \in OrNothing(Label) : Upserted(l) \in ProfileRow
      BY HolderIsOrg DEF Upserted, ProfileRow
    <3>2. OrNothing({Upserted(l) : l \in OrNothing(Label)}) \subseteq OrNothing(ProfileRow)
      BY <3>1 DEF OrNothing
    <3> QED BY <3>2 DEF Init
  <2>4. RestTyped
    BY <2>3, <2>a DEF Init, RestTyped, OrNothing
  <2>5. InHand
    BY GrantRecords DEF Init, InHand
  <2>6. DoomedCovered
    BY DEF Init, DoomedCovered
  <2> QED BY <2>2, <2>4, <2>5, <2>6, InvParts DEF SeatInv
<1>2. SeatInv /\ [Next]_vars => SeatInv'
  <2> SUFFICES ASSUME SeatInv, [Next]_vars PROVE SeatInv'
    OBVIOUS
  <2>1. CASE UNCHANGED vars
    <3>1. RestTyped' /\ InHand' /\ JobsStay
      BY <2>1, Facts, HandsStay
      DEF vars, tables, queue, catalog, mappings, callers, RestTyped, InHand, JobsStay
    <3> QED BY <2>1, <3>1, QuietKeepsInv DEF vars, queue
  <2>2. ASSUME NEW q \in Request, GrantStep(q) PROVE SeatInv'
    BY <2>2, GrantStepKeepsInv
  <2>3. ASSUME NEW p \in Profile, NEW r \in Profile, ContinueClientRetarget(p, r) PROVE SeatInv'
    BY <2>3, RenamingKeepsInv
  <2>4. CASE ContinueRevocation
    <3>1. \A i \in DOMAIN refreshTokens : i \in Nat
      BY Facts, SeatRows
    <3> QED BY <2>4, <3>1, WalkKeepsInv, FamilyBatchKeepsInv, CascadeBatchKeepsInv
            DEF ContinueRevocation
  <2>5. CASE Operate
    <3>1. ASSUME NEW c \in Client, NEW p \in Profile,
                 (\E o \in Org : ProvisionSeat(c, p, o)) \/ CreateClient(c, p) \/ PatchClientScope(c, p)
          PROVE  SeatInv'
      BY <3>1, ProvisionKeepsInv, CreateClientKeepsInv, PatchKeepsInv
    <3>2. ASSUME NEW c \in Client,
                 \/ CreateRefreshToken(c) \/ CreateAccessToken(c) \/ RetrofitSeatRefreshToken(c)
                 \/ DeleteClient(c) \/ RevokeAccessTokensOnly(c)
          PROVE  SeatInv'
      BY <3>2, ScriptedRefreshKeepsInv, ScriptedAccessKeepsInv, RetrofitKeepsInv, DeleteKeepsInv,
         RevokeAccessKeepsInv
    <3>3. ASSUME NEW p \in Profile, NEW r \in Profile, NEW cascade \in BOOLEAN,
                 PatchScopeProfileEmergency(p, r, cascade)
          PROVE  SeatInv'
      BY <3>3, EmergencyKeepsInv
    <3>4. ASSUME NEW o \in Org, SetActive(o) \/ \E l \in Label : TakeLabel(o, l)
          PROVE  SeatInv'
      BY <3>4, SetActiveKeepsInv, TakeLabelKeepsInv
    <3> QED BY <2>5, <3>1, <3>2, <3>3, <3>4 DEF Operate
  <2>6. CASE Tick
    BY <2>6, TickKeepsInv
  <2> QED BY <2>1, <2>2, <2>3, <2>4, <2>5, <2>6 DEF Next
<1> QED BY <1>1, <1>2, PTL DEF Spec

-----------------------------------------------------------------------------
(* Theorems.                                                               *)

\* The seats' tables are well typed whatever the operators do to them, and no
\* family has two refresh tokens to exchange (oauth.ts rotateRefreshToken).
THEOREM SeatTablesSound == Spec => []SeatsSound
<1>1. SeatInv => SeatsSound
  BY DEF SeatInv, TablesInv, SeatsSound
<1> QED BY <1>1, SeatInvHolds, PTL

\* When no revoking continuation is left, every row that a deletion, a
\* revocation, a replay, a refusal or a cascade undertook to end is revoked
\* (oauth.ts walkClientTokensPage, revokeFamilyBatch, revokeTokenBatch).
THEOREM RevocationsComplete == Spec => []RevocationsReach
<1>1. SeatInv => RevocationsReach
  <2> SUFFICES ASSUME SeatInv, ~Draining, NEW t \in doomed
               PROVE  (IF t[1] = "refresh" THEN refreshTokens ELSE accessTokens)[t[2]].revoked
    BY DEF RevocationsReach
  <2>1. /\ \A p : ~NameCovered(p)
        /\ \A f : FamilyJob(f) \notin jobs
        /\ \A i : ~RefreshWalked(i) /\ ~AccessWalked(i)
    BY DEF Draining, NameCovered, NamesJob, FamilyJob, RefreshWalked, AccessWalked
  <2>2. t \in {"refresh", "access"} \X Nat \X BOOLEAN
    BY Facts DEF RestTyped
  <2>3. PICK i, b : t = <<"refresh", i, b>> \/ t = <<"access", i, b>>
    BY <2>2
  <2>4. CASE t = <<"refresh", i, b>>
    BY <2>1, <2>4, Facts DEF DoomedCovered, RefreshCovered
  <2>5. CASE t = <<"access", i, b>>
    BY <2>1, <2>5, Facts DEF DoomedCovered, AccessCovered
  <2> QED BY <2>3, <2>4, <2>5
<1> QED BY <1>1, SeatInvHolds, PTL


-----------------------------------------------------------------------------
(* Where no profile is renamed.                                            *)

ProfilesStay == \A p \in Profile : profiles[p] # Nothing => profiles'[p] = profiles[p]

\* A row is as it was, or its profile is there and its organisation is that of it.
RefreshNamed ==
  \A i \in DOMAIN refreshTokens' :
    \/ i \in DOMAIN refreshTokens /\ refreshTokens'[i].profile = refreshTokens[i].profile
    \/ profiles'[refreshTokens'[i].profile] # Nothing

AccessNamed ==
  \A i \in DOMAIN accessTokens' :
    \/ /\ i \in DOMAIN accessTokens /\ accessTokens'[i].profile = accessTokens[i].profile
       /\ accessTokens'[i].org = accessTokens[i].org
       /\ accessTokens'[i].stray = accessTokens[i].stray
    \/ /\ profiles'[accessTokens'[i].profile] # Nothing
       /\ accessTokens'[i].stray \/ Fits(accessTokens'[i].org, profiles'[accessTokens'[i].profile])

ClientsNamed ==
  \A c \in Client : \/ clients'[c].profile = clients[c].profile
                    \/ profiles'[clients'[c].profile] # Nothing

ScriptsNamed ==
  \A c \in Client : \/ scripts'[c].next = "none"
                    \/ scripts[c].next # "none" /\ scripts'[c].profile = scripts[c].profile
                    \/ profiles'[scripts'[c].profile] # Nothing

RequestsNamed ==
  \A q \in Request : \/ requests'[q].pc \notin {"read", "client", "profile"}
                     \/ /\ requests[q].pc \in {"read", "client", "profile"}
                        /\ requests'[q].profile = requests[q].profile
                     \/ profiles'[requests'[q].profile] # Nothing

WalksNamed ==
  \A w \in walks' : \/ w.op # "retarget_scope"
                    \/ profiles'[w.to] # Nothing
                    \/ \E v \in walks : v.op = "retarget_scope" /\ w.to = v.to

LEMMA NamesStay ==
  ASSUME NamesInv, SeatInv', ProfilesStay, RefreshNamed, AccessNamed, ClientsNamed, ScriptsNamed,
         RequestsNamed, WalksNamed, \A j \in jobs' : j.kind = "family"
  PROVE  NamesInv'
<1>1. /\ \A i \in DOMAIN refreshTokens : refreshTokens[i].profile \in Profile
      /\ \A i \in DOMAIN accessTokens : accessTokens[i].profile \in Profile
      /\ \A c \in Client : clients[c].profile # Nothing => clients[c].profile \in Profile
  BY Facts, SeatRows DEF NamesInv, RefreshRow, AccessRow, RestTyped, OrNothing
<1>2. RowsNamed'
  BY <1>1 DEF NamesInv, RowsNamed, ProfilesStay, RefreshNamed, AccessNamed
<1>3. \A c \in Client : clients'[c].profile # Nothing => profiles'[clients'[c].profile] # Nothing
  BY <1>1 DEF NamesInv, HandsNamed, ProfilesStay, ClientsNamed
<1>4. \A c \in Client : scripts'[c].next # "none" => profiles'[scripts'[c].profile] # Nothing
  BY Facts DEF NamesInv, HandsNamed, ProfilesStay, ScriptsNamed, InHand
<1>5. \A q \in Request : requests'[q].pc \in {"read", "client", "profile"} =>
        profiles'[requests'[q].profile] # Nothing
  BY Facts DEF NamesInv, HandsNamed, ProfilesStay, RequestsNamed, InHand
<1>6. \A w \in walks' : w.op = "retarget_scope" => profiles'[w.to] # Nothing
  BY Facts DEF NamesInv, HandsNamed, ProfilesStay, WalksNamed, InHand
<1> QED BY <1>2, <1>3, <1>4, <1>5, <1>6 DEF NamesInv, HandsNamed, NoNameChanges

\* What most steps leave as it was.
LEMMA HandsUntouched ==
  /\ UNCHANGED catalog => ProfilesStay /\ ClientsNamed
  /\ UNCHANGED scripts => ScriptsNamed
  /\ UNCHANGED requests => RequestsNamed
  /\ UNCHANGED callers => ScriptsNamed /\ RequestsNamed
  /\ UNCHANGED walks => WalksNamed
  /\ UNCHANGED refreshTokens => RefreshNamed
  /\ UNCHANGED accessTokens => AccessNamed
BY DEF catalog, callers, ProfilesStay, ClientsNamed, ScriptsNamed, RequestsNamed, WalksNamed,
   RefreshNamed, AccessNamed

LEMMA AppendedNamed ==
  ASSUME SeatInv, NEW c \in Client, NEW p \in Profile, profiles'[p] # Nothing
  PROVE  /\ refreshTokens' = Append(refreshTokens, Refresh(c, p, 0)) => RefreshNamed
         /\ \A f \in Nat, o \in OrNothing(Org) :
              /\ f \in {0} \cup DOMAIN refreshTokens' /\ Fits(o, profiles'[p])
              /\ accessTokens' = Append(accessTokens, Access(c, p, f, o))
              => AccessNamed
<1>1. ASSUME refreshTokens' = Append(refreshTokens, Refresh(c, p, 0))
      PROVE  RefreshNamed
  <2>1. /\ RefreshMinted(0) /\ refreshTokens'[Len(refreshTokens) + 1] = Refresh(c, p, 0)
    BY <1>1, Facts, AppendRefresh
  <2>2. Refresh(c, p, 0).profile = p
    BY DEF Refresh
  <2> QED BY <2>1, <2>2 DEF RefreshMinted, RefreshNamed
<1>2. ASSUME NEW f \in Nat, NEW o \in OrNothing(Org), f \in {0} \cup DOMAIN refreshTokens',
             Fits(o, profiles'[p]), accessTokens' = Append(accessTokens, Access(c, p, f, o))
      PROVE  AccessNamed
  <2>1. /\ AccessMinted
        /\ DOMAIN accessTokens' = DOMAIN accessTokens \cup {Len(accessTokens) + 1}
        /\ accessTokens'[Len(accessTokens) + 1] = Access(c, p, f, o)
    BY <1>2, Facts, AppendAccess
  <2>2. Access(c, p, f, o).profile = p /\ Access(c, p, f, o).org = o
    BY DEF Access
  <2> QED BY <1>2, <2>1, <2>2 DEF AccessMinted, AccessNamed
<1> QED BY <1>1, <1>2


LEMMA RevokedNamed ==
  ASSUME TypeOK, NEW R, NEW A, refreshTokens' = Revoked(refreshTokens, R),
         accessTokens' = Revoked(accessTokens, A)
  PROVE  RefreshNamed /\ AccessNamed
<1>1. refreshTokens \in Seq(RefreshRow) /\ accessTokens \in Seq(AccessRow)
  BY DEF TypeOK
<1>2. RefreshNamed
  BY <1>1, RevokedRefresh DEF RefreshNamed
<1>3. AccessNamed
  BY <1>1, RevokedAccess DEF AccessNamed
<1> QED BY <1>2, <1>3

LEMMA WalkNamed ==
  ASSUME NamesInv, NEW w \in Walk, NEW rest \in SUBSET walks, NEW more, WalkPage(w, rest, more),
         w.op = "retarget_scope" => w.to \in Profile /\ profiles[w.to] # Nothing,
         profiles' = profiles
  PROVE  RefreshNamed /\ AccessNamed /\ WalksNamed
<1>1. TypeOK /\ refreshTokens \in Seq(RefreshRow) /\ accessTokens \in Seq(AccessRow)
  BY Facts DEF NamesInv, TypeOK
<1>a. NextWalk(w).op = w.op /\ NextWalk(w).to = w.to
  BY <1>1, NextWalkIs
<1>b. walks' \subseteq rest \cup {NextWalk(w)}
  BY WalkPageIs
<1>c. WalksNamed
  <2> SUFFICES ASSUME NEW v \in walks', v.op = "retarget_scope"
               PROVE  \/ profiles'[v.to] # Nothing
                      \/ \E x \in walks : x.op = "retarget_scope" /\ v.to = x.to
    BY DEF WalksNamed
  <2>1. CASE v \in walks
    BY <2>1
  <2>2. CASE v = NextWalk(w)
    BY <1>a, <2>2
  <2> QED BY <1>b, <2>1, <2>2
<1>2. CASE w.op = "retarget_scope"
  <2>1. /\ accessTokens' = Rehomed(accessTokens, Retargetable(accessTokens, AccessPage(w), w),
                                   w.to, Holder(w), Strays(w))
        /\ refreshTokens' = Retarget(refreshTokens, Retargetable(refreshTokens, RefreshPage(w), w), w.to)
    BY <1>2, WalkPageIs
  <2>a. PICK s \in BOOLEAN : s = Strays(w)
    BY DEF Strays
  <2>b. Holder(w) \in OrNothing(Org)
    BY HolderIsOrg DEF Holder
  <2>c. s \/ Fits(Holder(w), profiles'[w.to])
    BY <2>a DEF Strays, Fits
  <2>2. RefreshNamed
    BY <1>1, <1>2, <2>1, RenamedRefresh DEF RefreshNamed
  <2>3. AccessNamed
    <3> DEFINE S == Retargetable(accessTokens, AccessPage(w), w)
    <3>1. /\ DOMAIN accessTokens' = DOMAIN accessTokens
          /\ \A i \in DOMAIN accessTokens :
               /\ accessTokens'[i].profile = IF i \in S THEN w.to ELSE accessTokens[i].profile
               /\ accessTokens'[i].org = IF i \in S THEN Holder(w) ELSE accessTokens[i].org
               /\ accessTokens'[i].stray = IF i \in S THEN s ELSE accessTokens[i].stray
      BY <1>1, <1>2, <2>1, <2>a, <2>b, RehomedAccess
    <3> HIDE DEF S
    <3> QED BY <1>2, <2>c, <3>1 DEF AccessNamed
  <2> QED BY <1>c, <2>2, <2>3
<1>3. CASE w.op # "retarget_scope"
  <2>1. /\ accessTokens' = Revoked(accessTokens, AccessPage(w))
        /\ refreshTokens' = Revoked(refreshTokens, RefreshPage(w))
    BY <1>3, WalkPageIs
  <2>2. RefreshNamed /\ AccessNamed
    BY <1>1, <2>1, RevokedNamed
  <2> QED BY <1>c, <2>2
<1> QED BY <1>2, <1>3

LEMMA RotationNamed ==
  ASSUME NamesInv, NEW q \in Request, RotateRefreshToken(q)
  PROVE  RefreshNamed /\ AccessNamed
<1>1. PICK f : f = FamilyOf(requests[q].token)
  OBVIOUS
<1>2. PICK p : p = requests[q].profile
  OBVIOUS
<1>3. PICK c : c = refreshTokens[requests[q].token].client
  OBVIOUS
<1>4. /\ RefreshMinted(f) /\ AccessMinted
      /\ refreshTokens'[Len(refreshTokens) + 1].profile = p
      /\ DOMAIN accessTokens' = DOMAIN accessTokens \cup {Len(accessTokens) + 1}
      /\ accessTokens'[Len(accessTokens) + 1] = Access(c, p, f, Lineage(f))
  BY <1>1, <1>2, <1>3, Facts, RotatedRows DEF NamesInv
<1>5. profiles' = profiles /\ profiles[p] # Nothing
  BY <1>2 DEF NamesInv, HandsNamed, RotateRefreshToken, Presentable, catalog
<1>6. Fits(Lineage(f), profiles'[p])
  <2>1. Refusal(q, Lineage(f)) = Nothing
    BY <1>1 DEF RotateRefreshToken
  <2> QED BY <1>2, <1>5, <2>1, SeatAssumption DEF Refusal, Reason, Fits, IdOf
<1>7. RefreshNamed
  BY <1>4, <1>5 DEF RefreshNamed, RefreshMinted
<1>8. Access(c, p, f, Lineage(f)).profile = p /\ Access(c, p, f, Lineage(f)).org = Lineage(f)
  BY DEF Access
<1>9. AccessNamed
  BY <1>4, <1>5, <1>6, <1>8 DEF AccessNamed, AccessMinted
<1> QED BY <1>7, <1>9

LEMMA EndingNamed ==
  ASSUME NamesInv, NEW f, NEW Roots, NEW rest \in SUBSET jobs, EndFamily(f, Roots, rest)
  PROVE  /\ RefreshNamed /\ AccessNamed
         /\ \A j \in jobs' : j.kind = "family"
<1>1. /\ refreshTokens' = Revoked(refreshTokens, Roots \cup Page(LiveInFamily(refreshTokens, f)))
      /\ accessTokens' = Revoked(accessTokens, Page(LiveInFamily(accessTokens, f)))
      /\ jobs' = rest \cup FamilyJobs(f, refreshTokens, accessTokens)
  BY DEF EndFamily
<1>2. RefreshNamed /\ AccessNamed
  BY <1>1, Facts, RevokedNamed DEF NamesInv
<1>3. \A j \in FamilyJobs(f, refreshTokens, accessTokens) : j.kind = "family"
  BY DEF FamilyJobs
<1> QED BY <1>1, <1>2, <1>3 DEF NamesInv, NoNameChanges

LEMMA RequestNamed ==
  ASSUME NamesInv, NEW q \in Request, GrantStep(q)
  PROVE  RequestsNamed
<1>1. requests \in [Request -> Grant]
  BY Facts DEF NamesInv, RestTyped
<1>2. \A r \in Request : r # q => requests'[r] = requests[r]
  BY <1>1 DEF GrantStep, GetRefreshTokenForGrant, GetClientByClientId, LoadScopeProfile,
     ReplayRefreshToken, InvalidGrant, RefuseRotation, RotateRefreshToken, Finish, Answered, Goto
<1>3. CASE Answered(q)
  BY <1>1, <1>2, <1>3, GrantRecords DEF Answered, RequestsNamed
<1>4. ASSUME NEW i \in DOMAIN refreshTokens, GetRefreshTokenForGrant(q, i)
      PROVE  RequestsNamed
  <2>1. requests'[q].profile = refreshTokens[i].profile /\ profiles' = profiles
    BY <1>1, <1>4 DEF GetRefreshTokenForGrant, Idle, catalog
  <2>2. profiles'[requests'[q].profile] # Nothing
    BY <2>1 DEF NamesInv, RowsNamed
  <2> QED BY <1>2, <2>2 DEF RequestsNamed
<1>5. CASE requests[q].pc \in {"read", "client", "profile"} /\ requests'[q].profile = requests[q].profile
  BY <1>2, <1>5 DEF RequestsNamed
<1>6. \A pc : Goto(q, pc) => requests'[q].profile = requests[q].profile
  <2>1. requests[q] \in Grant
    BY <1>1
  <2> QED BY <1>1, <2>1 DEF Goto, Grant
<1>7. ASSUME LoadScopeProfile(q)
      PROVE  Answered(q) \/ requests'[q].profile = requests[q].profile
  BY <1>1, <1>7 DEF LoadScopeProfile, Grant
<1>8. ASSUME RefuseRotation(q)
      PROVE  requests'[q].profile = requests[q].profile
  BY <1>1, <1>8 DEF RefuseRotation, Grant
<1> QED BY <1>3, <1>4, <1>5, <1>6, <1>7, <1>8
        DEF GrantStep, GetClientByClientId, LoadScopeProfile, ReplayRefreshToken, InvalidGrant,
            RefuseRotation, RotateRefreshToken, Finish, Presentable


\* An operator's step that renames nothing.
LEMMA OperatorNamed ==
  ASSUME NamesInv, SeatInv', "emergency" \notin Doors, Operate
  PROVE  NamesInv'
<1>1. ASSUME NEW c \in Client, NEW p \in Profile, NEW o \in Org, ProvisionSeat(c, p, o)
      PROVE  NamesInv'
  <2>a. PICK row : row = [label |-> mappingLabel[o], org |-> o]
    OBVIOUS
  <2>b. row \in ProfileRow /\ row.org = o /\ row # Nothing
    BY <2>a, Facts, SeatAssumption DEF NamesInv, RestTyped, ProfileRow, OrNothing
  <2>1. /\ profiles' = [profiles EXCEPT ![p] = row] /\ profiles \in [Profile -> OrNothing(ProfileRow)]
        /\ profiles[p] = Nothing
    BY <1>1, <2>a, Facts DEF NamesInv, RestTyped, ProvisionSeat
  <2>2. ProfilesStay /\ profiles'[p] # Nothing /\ Fits(o, profiles'[p])
    BY <2>1, <2>b DEF ProfilesStay, Fits
  <2>3. RefreshNamed
    BY <1>1, <2>1, <2>2, AppendedNamed DEF NamesInv, ProvisionSeat
  <2>4. AccessNamed
    <3>1. /\ accessTokens' = Append(accessTokens, Access(c, p, 0, o)) /\ 0 \in Nat
          /\ o \in OrNothing(Org) /\ Fits(o, profiles'[p]) /\ 0 \in {0} \cup DOMAIN refreshTokens'
      BY <1>1, <2>2 DEF ProvisionSeat, OrNothing
    <3> QED BY <2>1, <2>2, <3>1, AppendedNamed DEF NamesInv
  <2>5. ClientsNamed
    BY <1>1, <2>1, <2>2, Facts DEF NamesInv, RestTyped, ProvisionSeat, ClientsNamed
  <2> QED BY <1>1, <2>2, <2>3, <2>4, <2>5, HandsUntouched, NamesStay
          DEF ProvisionSeat, queue, NamesInv, NoNameChanges
<1>2. ASSUME NEW c \in Client, NEW p \in Profile, CreateClient(c, p)
      PROVE  NamesInv'
  <2>1. ProfilesStay /\ ClientsNamed /\ ScriptsNamed
    BY <1>2, Facts DEF NamesInv, RestTyped, CreateClient, ProfilesStay, ClientsNamed, ScriptsNamed
  <2> QED BY <1>2, <2>1, HandsUntouched, NamesStay
          DEF CreateClient, tables, queue, NamesInv, NoNameChanges
<1>3. ASSUME NEW c \in Client, NEW p \in Profile, PatchClientScope(c, p)
      PROVE  NamesInv'
  <2> DEFINE w == NewWalk("retarget_scope", c, p, FALSE)
  <2>1. w \in Walk /\ w.op = "retarget_scope" /\ w.to = p
    BY Facts DEF NamesInv, NewWalk, Walk, RestTyped, OrNothing
  <2>2. WalkPage(w, walks, {}) /\ profiles' = profiles /\ profiles[p] # Nothing
    BY <1>3 DEF PatchClientScope
  <2> HIDE DEF w
  <2>3. RefreshNamed /\ AccessNamed /\ WalksNamed
    BY <2>1, <2>2, WalkNamed
  <2>4. ProfilesStay /\ ClientsNamed
    BY <1>3, <2>2, Facts DEF NamesInv, RestTyped, PatchClientScope, ProfilesStay, ClientsNamed
  <2> QED BY <1>3, <2>3, <2>4, HandsUntouched, NamesStay
          DEF PatchClientScope, NamesInv, NoNameChanges
<1>4. ASSUME NEW c \in Client, CreateRefreshToken(c)
      PROVE  NamesInv'
  <2>1. scripts[c].profile \in Profile /\ profiles'[scripts[c].profile] # Nothing
    BY <1>4, Facts DEF NamesInv, InHand, HandsNamed, CreateRefreshToken, catalog
  <2>2. RefreshNamed
    BY <1>4, <2>1, AppendedNamed DEF NamesInv, CreateRefreshToken
  <2>3. ScriptsNamed
    BY <1>4, Facts DEF NamesInv, RestTyped, CreateRefreshToken, ScriptsNamed
  <2> QED BY <1>4, <2>2, <2>3, HandsUntouched, NamesStay
          DEF CreateRefreshToken, queue, NamesInv, NoNameChanges
<1>5. ASSUME NEW c \in Client, CreateAccessToken(c)
      PROVE  NamesInv'
  <2>1. /\ scripts[c].profile \in Profile /\ scripts[c].token \in {0} \cup DOMAIN refreshTokens
        /\ scripts[c].token \in Nat /\ profiles[scripts[c].profile] # Nothing
        /\ profiles' = profiles /\ refreshTokens' = refreshTokens
    BY <1>5, Facts, SeatRows DEF NamesInv, InHand, HandsNamed, CreateAccessToken, catalog
  <2>2. accessTokens' = Append(accessTokens, Access(c, scripts[c].profile, scripts[c].token,
                                                    IdOf(scripts[c].profile)))
          \/ UNCHANGED accessTokens
    BY <1>5 DEF CreateAccessToken
  <2>3. AccessNamed
    <3>1. PICK p \in Profile : p = scripts[c].profile
      BY <2>1
    <3>2. IdOf(p) \in OrNothing(Org) /\ IdOf(p) = profiles[p].org
      BY <2>1, <3>1, Facts, IdOfProfile DEF NamesInv
    <3>3. PICK o \in OrNothing(Org) : o = IdOf(p) /\ Fits(o, profiles'[p])
      BY <2>1, <3>1, <3>2 DEF Fits
    <3> QED BY <2>1, <2>2, <3>1, <3>3, HandsUntouched, AppendedNamed DEF NamesInv
  <2>4. ScriptsNamed
    BY <1>5, Facts DEF NamesInv, RestTyped, CreateAccessToken, ScriptsNamed
  <2> QED BY <1>5, <2>3, <2>4, HandsUntouched, NamesStay
          DEF CreateAccessToken, queue, NamesInv, NoNameChanges
<1>6. ASSUME NEW c \in Client, RetrofitSeatRefreshToken(c)
      PROVE  NamesInv'
  <2>1. clients[c].profile \in Profile /\ profiles'[clients[c].profile] # Nothing
    BY <1>6, Facts DEF NamesInv, RestTyped, HandsNamed, OrNothing, RetrofitSeatRefreshToken, catalog, mappings
  <2>2. RefreshNamed
    BY <1>6, <2>1, AppendedNamed DEF NamesInv, RetrofitSeatRefreshToken
  <2> QED BY <1>6, <2>2, HandsUntouched, NamesStay
          DEF RetrofitSeatRefreshToken, queue, NamesInv, NoNameChanges
<1>7. ASSUME NEW c \in Client, DeleteClient(c)
      PROVE  NamesInv'
  <2> DEFINE w == NewWalk("revoke_all", c, Nothing, FALSE)
  <2>1. w \in Walk /\ w.op # "retarget_scope"
    BY Facts DEF NamesInv, NewWalk, Walk, RestTyped, OrNothing
  <2>2. \E more : WalkPage(w, walks, more)
    BY <1>7 DEF DeleteClient
  <2> HIDE DEF w
  <2>3. RefreshNamed /\ AccessNamed /\ WalksNamed
    BY <1>7, <2>1, <2>2, WalkNamed DEF DeleteClient
  <2>4. ProfilesStay /\ ClientsNamed
    BY <1>7, Facts DEF NamesInv, RestTyped, DeleteClient, ProfilesStay, ClientsNamed
  <2> QED BY <1>7, <2>3, <2>4, HandsUntouched, NamesStay
          DEF DeleteClient, NamesInv, NoNameChanges
<1>8. ASSUME NEW c \in Client, RevokeAccessTokensOnly(c)
      PROVE  NamesInv'
  <2> DEFINE w == NewWalk("revoke_access_only", c, Nothing, TRUE)
  <2>1. w \in Walk /\ w.op # "retarget_scope"
    BY Facts DEF NamesInv, NewWalk, Walk, RestTyped, OrNothing
  <2>2. \E more : WalkPage(w, walks, more)
    BY <1>8 DEF RevokeAccessTokensOnly
  <2> HIDE DEF w
  <2>3. RefreshNamed /\ AccessNamed /\ WalksNamed
    BY <1>8, <2>1, <2>2, WalkNamed DEF RevokeAccessTokensOnly, catalog
  <2> QED BY <1>8, <2>3, HandsUntouched, NamesStay
          DEF RevokeAccessTokensOnly, NamesInv, NoNameChanges
<1>9. ASSUME NEW o \in Org, SetActive(o) \/ \E l \in Label : TakeLabel(o, l)
      PROVE  NamesInv'
  <2>1. UNCHANGED <<clients, profiles, tables, queue, callers>>
    BY <1>9 DEF SetActive, TakeLabel
  <2>2. ProfilesStay /\ ClientsNamed
    BY <2>1 DEF ProfilesStay, ClientsNamed
  <2> QED BY <2>1, <2>2, HandsUntouched, NamesStay
          DEF tables, queue, NamesInv, NoNameChanges
<1>10. ASSUME NEW c \in Client, NEW p \in Profile,
              (\E o \in Org : ProvisionSeat(c, p, o)) \/ CreateClient(c, p) \/ PatchClientScope(c, p)
       PROVE  NamesInv'
  BY <1>1, <1>2, <1>3, <1>10
<1>11. ASSUME NEW c \in Client,
              \/ CreateRefreshToken(c) \/ CreateAccessToken(c) \/ RetrofitSeatRefreshToken(c)
              \/ DeleteClient(c) \/ RevokeAccessTokensOnly(c)
       PROVE  NamesInv'
  BY <1>4, <1>5, <1>6, <1>7, <1>8, <1>11
<1> QED BY <1>9, <1>10, <1>11 DEF Operate

LEMMA StepNamed ==
  ASSUME NamesInv, SeatInv', "emergency" \notin Doors, [Next]_vars
  PROVE  NamesInv'
<1>1. CASE UNCHANGED vars
  BY <1>1, HandsUntouched, NamesStay
  DEF vars, tables, queue, NamesInv, NoNameChanges
<1>2. CASE Operate
  BY <1>2, OperatorNamed
<1>3. ASSUME NEW q \in Request, GrantStep(q)
      PROVE  NamesInv'
  <2>1. RequestsNamed
    BY <1>3, RequestNamed
  <2>2. UNCHANGED <<catalog, walks, scripts>>
    BY <1>3 DEF GrantStep, GetRefreshTokenForGrant, GetClientByClientId, LoadScopeProfile,
       ReplayRefreshToken, InvalidGrant, RefuseRotation, RotateRefreshToken, Finish, queue
  <2>3. CASE RotateRefreshToken(q)
    BY <2>1, <2>2, <2>3, RotationNamed, HandsUntouched, NamesStay
    DEF RotateRefreshToken, queue, NamesInv, NoNameChanges
  <2>4. ASSUME NEW f, NEW Roots, EndFamily(f, Roots, jobs)
        PROVE  NamesInv'
    <3>1. RefreshNamed /\ AccessNamed /\ \A j \in jobs' : j.kind = "family"
      BY <2>4, EndingNamed
    <3> QED BY <2>1, <2>2, <3>1, HandsUntouched, NamesStay
  <2>5. CASE ReplayRefreshToken(q)
    BY <2>4, <2>5 DEF ReplayRefreshToken
  <2>6. CASE RefuseRotation(q)
    BY <2>4, <2>6 DEF RefuseRotation
  <2>7. CASE UNCHANGED tables /\ UNCHANGED jobs
    BY <2>1, <2>2, <2>7, HandsUntouched, NamesStay DEF tables, NamesInv, NoNameChanges
  <2> QED BY <1>3, <2>3, <2>5, <2>6, <2>7
          DEF GrantStep, GetRefreshTokenForGrant, GetClientByClientId, LoadScopeProfile,
              InvalidGrant, Finish, queue
<1>4. ASSUME NEW p \in Profile, NEW r \in Profile, ContinueClientRetarget(p, r)
      PROVE  FALSE
  <2>1. [kind |-> "retarget", from |-> p, to |-> r] \in jobs
    BY <1>4 DEF ContinueClientRetarget
  <2> QED BY <2>1 DEF NamesInv, NoNameChanges
<1>5. ASSUME NEW P \in SUBSET Profile, ContinueCascadeRevoke(P)
      PROVE  FALSE
  <2>1. [kind |-> "cascade", of |-> P] \in jobs
    BY <1>5 DEF ContinueCascadeRevoke
  <2> QED BY <2>1 DEF NamesInv, NoNameChanges
<1>6. ASSUME NEW w \in walks, ContinueClientTokenWalk(w)
      PROVE  NamesInv'
  <2>1. w \in Walk /\ (w.op = "retarget_scope" => w.to \in Profile /\ profiles[w.to] # Nothing)
    BY Facts DEF NamesInv, RestTyped, InHand, HandsNamed
  <2>2. WalkPage(w, walks \ {w}, {}) /\ UNCHANGED <<now, catalog, jobs, callers>>
    BY <1>6, <2>1 DEF ContinueClientTokenWalk
  <2>3. RefreshNamed /\ AccessNamed /\ WalksNamed
    <3>1. walks \ {w} \in SUBSET walks /\ profiles' = profiles
      BY <2>2 DEF catalog
    <3> QED BY <2>1, <2>2, <3>1, WalkNamed
  <2> QED BY <2>2, <2>3, HandsUntouched, NamesStay DEF NamesInv, NoNameChanges
<1>7. ASSUME NEW f, ContinueFamilyRevoke(f)
      PROVE  NamesInv'
  <2>1. /\ EndFamily(f, {}, jobs \ {FamilyJob(f)})
        /\ UNCHANGED <<now, catalog, walks, callers, doomed>>
    BY <1>7 DEF ContinueFamilyRevoke, FamilyJob
  <2>2. jobs \ {FamilyJob(f)} \in SUBSET jobs
    OBVIOUS
  <2>3. RefreshNamed /\ AccessNamed /\ \A j \in jobs' : j.kind = "family"
    BY <2>1, <2>2, EndingNamed
  <2> QED BY <2>1, <2>3, HandsUntouched, NamesStay
<1>8. CASE Tick
  BY <1>8, HandsUntouched, NamesStay DEF Tick, tables, queue, NamesInv, NoNameChanges
<1> QED BY <1>1, <1>2, <1>3, <1>4, <1>5, <1>6, <1>7, <1>8 DEF Next, ContinueRevocation

\* Where no profile is renamed, a live access token stands under its profile's
\* own organisation, however rotations that read their profile earlier overlap
\* with retargets and with labels that pass to other organisations (oauth.ts
\* rotateRefreshToken, mintAccessToken).  The rows a retarget stamped with
\* another holder of the profile's label (oauth.ts:1654) are left out; no
\* rotation carries their organisation on to a profile of another.
THEOREM TokensKeepTheirOrg ==
  ASSUME "emergency" \notin Doors
  PROVE  Spec => []OrgOfProfile
<1>1. Init => RowsNamed /\ HandsNamed /\ NoNameChanges
  <2> SUFFICES ASSUME Init PROVE RowsNamed /\ HandsNamed /\ NoNameChanges
    OBVIOUS
  <2>1. DOMAIN refreshTokens = {} /\ DOMAIN accessTokens = {}
    BY DEF Init
  <2>2. RowsNamed
    BY <2>1 DEF RowsNamed
  <2>3. /\ \A c \in Client : clients[c].profile = Nothing /\ scripts[c].next = "none"
        /\ \A q \in Request : requests[q].pc = "idle"
        /\ walks = {} /\ jobs = {}
    BY GrantRecords DEF Init
  <2> QED BY <2>2, <2>3 DEF HandsNamed, NoNameChanges
<1>2. SeatInv /\ SeatInv' /\ RowsNamed /\ HandsNamed /\ NoNameChanges /\ [Next]_vars
        => (RowsNamed /\ HandsNamed /\ NoNameChanges)'
  BY StepNamed DEF NamesInv
<1>3. SeatInv /\ RowsNamed /\ HandsNamed /\ NoNameChanges => OrgOfProfile
  BY DEF RowsNamed, OrgOfProfile, LiveRows, Fits, IdOf
<1> QED BY <1>1, <1>2, <1>3, SeatInvHolds, PTL DEF Spec
=============================================================================
