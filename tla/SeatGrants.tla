----------------------------- MODULE SeatGrants -----------------------------
(***************************************************************************)
(* The connections of seats (convex/oauth.ts and the refresh grant of      *)
(* mcp-server/server-http.ts): an OAuth client holds a scope profile, its  *)
(* tokens cache it, and operators provision, retrofit, delete, retarget    *)
(* and rename while the seats refresh.  An organisation is its permanent   *)
(* ID; the label a profile was stored with may pass to another one.        *)
(*                                                                         *)
(* A refresh is three reads and a mutation, each a transaction of its own: *)
(* the record, the client, the profile, then rotateRefreshToken with the   *)
(* profile the request has in hand.  Everything an operator starts does    *)
(* one batch in the operator's transaction and the rest in the scheduler.  *)
(***************************************************************************)
EXTENDS TokenTables

CONSTANTS
  Client, Profile,
  Org,           \* permanent IDs of organisations
  Label,         \* slugs
  Request,       \* requests of the refresh grant
  Nothing,
  AccessTtl, RefreshTtl,
  MaxWalks,      \* bound: walks under way at a time
  Doors,         \* bound: the operators' doors that are used
  MaxRows,       \* bound: rows of each token table
  MaxNow         \* bound: the clock stops here

Reason == {"organisation-inactive", "organisation-id-missing", "organisation-mismatch"}

OrNothing(S) == S \cup {Nothing}

\* The organisation of a profile: its stored label and its own permanent ID.
ProfileRow == [label : OrNothing(Label), org : OrNothing(Org)]

ASSUME SeatAssumption ==
  /\ {AccessTtl, RefreshTtl, MaxRows, MaxNow, MaxWalks} \subseteq Nat
  /\ Nothing \notin Profile \cup Org \cup Label \cup Reason
  /\ Nothing \notin ProfileRow

VARIABLES
  now,
  clients,         \* oauth_clients: the profile of each, and whether it is revoked
  profiles,        \* oauth_scope_profiles: the rows that exist, by name
  mappingActive, mappingLabel,   \* client_org_mapping, by permanent ID: isActive
                                 \* and the label the organisation has now
  refreshTokens, accessTokens,
  scripts,         \* the provisioning script's runs: the profile and the next call
  walks,           \* continuations of continueClientTokenWalk
  jobs,            \* the other continuations
  requests,
  doomed           \* history: rows a revocation or a cascade has undertaken to
                   \* end, less those retargeted away from a cascade's names

tables == <<refreshTokens, accessTokens>>
queue == <<walks, jobs>>
mappings == <<mappingActive, mappingLabel>>
catalog == <<clients, profiles, mappings>>
callers == <<requests, scripts>>
vars == <<now, catalog, tables, callers, queue, doomed>>

\* Rows keep their number when a cascade deletes them.
RefreshRow == [client : Client, profile : Profile, family : Nat,
               expiresAt : Nat, revoked : BOOLEAN, gone : BOOLEAN]

\* stray is history: a retarget stamped the row with the organisation that had
\* the profile's label by then, and the profile's own is another.
AccessRow == [client : Client, profile : Profile, family : Nat, org : OrNothing(Org),
              stray : BOOLEAN, expiresAt : Nat, revoked : BOOLEAN, gone : BOOLEAN]

Walk == [op : {"revoke_all", "revoke_access_only", "retarget_scope"}, client : Client,
         to : OrNothing(Profile), at : Nat, access : Nat, refresh : Nat,
         accessDone : BOOLEAN, refreshDone : BOOLEAN]

Grant == [pc : {"idle", "read", "client", "profile", "reused", "refused"},
          token : Nat, profile : OrNothing(Profile), label : OrNothing(Label),
          reason : OrNothing(Reason)]

TypeOK ==
  /\ now \in Nat
  /\ clients \in [Client -> [profile : OrNothing(Profile), revoked : BOOLEAN]]
  /\ profiles \in [Profile -> OrNothing(ProfileRow)]
  /\ mappingActive \in [Org -> BOOLEAN] /\ mappingLabel \in [Org -> Label]
  /\ refreshTokens \in Seq(RefreshRow) /\ accessTokens \in Seq(AccessRow)
  /\ scripts \in [Client -> [next : {"none", "refresh", "access"}, profile : OrNothing(Profile),
                         token : Nat]]
  /\ walks \subseteq Walk
  /\ jobs \subseteq [kind : {"family"}, of : Nat]
             \cup [kind : {"cascade"}, of : SUBSET Profile]
             \cup [kind : {"retarget"}, from : Profile, to : Profile]
  /\ requests \in [Request -> Grant]
  /\ doomed \subseteq {"refresh", "access"} \X Nat \X BOOLEAN
  /\ \A i \in DOMAIN refreshTokens :
       LET f == refreshTokens[i].family IN f < i /\ (f # 0 => refreshTokens[f].family = 0)
  /\ \A i \in DOMAIN accessTokens : accessTokens[i].family \in {0} \cup DOMAIN refreshTokens

Idle == [pc |-> "idle", token |-> 0, profile |-> Nothing, label |-> Nothing, reason |-> Nothing]

\* lookupOrgMapping: the one organisation with the label, if there is one.
ClerkOrgIdForSlug(l) ==
  LET holders == {o \in Org : mappingLabel[o] = l}
  IN IF \E o \in Org : holders = {o} THEN CHOOSE o \in Org : holders = {o} ELSE Nothing

\* upsertScopeProfile, as it inserts a row.
Upserted(l) == [label |-> l, org |-> ClerkOrgIdForSlug(l)]

Init ==
  /\ now = 0
  /\ clients = [c \in Client |-> [profile |-> Nothing, revoked |-> FALSE]]
  /\ mappingActive = [o \in Org |-> TRUE]
  /\ mappingLabel \in {f \in [Org -> Label] : \A o, e \in Org : f[o] = f[e] => o = e}
  /\ profiles \in [Profile -> OrNothing({Upserted(l) : l \in OrNothing(Label)})]
  /\ refreshTokens = <<>> /\ accessTokens = <<>>
  /\ scripts = [c \in Client |-> [next |-> "none", profile |-> Nothing, token |-> 0]]
  /\ walks = {} /\ jobs = {}
  /\ requests = [q \in Request |-> Idle]
  /\ doomed = {}

FamilyOf(i) == LET f == refreshTokens[i].family IN IF f = 0 THEN i ELSE f

Room == Len(refreshTokens) < MaxRows /\ Len(accessTokens) < MaxRows

\* Variant: a first token is stamped with the number of its own row.
RefreshOfItself(c, p, f) ==
  [client |-> c, profile |-> p, family |-> IF f = 0 THEN Len(refreshTokens) + 1 ELSE f,
   expiresAt |-> now + RefreshTtl, revoked |-> FALSE, gone |-> FALSE]

Refresh(c, p, f) == [client |-> c, profile |-> p, family |-> f,
                     expiresAt |-> now + RefreshTtl, revoked |-> FALSE, gone |-> FALSE]

Access(c, p, f, o) == [client |-> c, profile |-> p, family |-> f, org |-> o, stray |-> FALSE,
                       expiresAt |-> now + AccessTtl, revoked |-> FALSE, gone |-> FALSE]

-----------------------------------------------------------------------------
(* Seats come to be.                                                       *)

\* provisionOrganization, one seat of it: profile, client and both tokens in
\* one transaction.  The access row is inserted without a family.
ProvisionSeat(c, p, o) ==
  /\ clients[c].profile = Nothing /\ profiles[p] = Nothing /\ mappingActive[o] /\ Room
  /\ clients' = [clients EXCEPT ![c].profile = p]
  /\ profiles' = [profiles EXCEPT ![p] = [label |-> mappingLabel[o], org |-> o]]
  /\ refreshTokens' = Append(refreshTokens, Refresh(c, p, 0))
  /\ accessTokens' = Append(accessTokens, Access(c, p, 0, o))
  /\ UNCHANGED <<now, mappings, queue, callers, doomed>>

\* The provisioning script: createClient, createRefreshToken,
\* createAccessToken, with the profile it was told.
CreateClient(c, p) ==
  /\ clients[c].profile = Nothing /\ profiles[p] # Nothing
  /\ clients' = [clients EXCEPT ![c].profile = p]
  /\ scripts' = [scripts EXCEPT ![c] = [next |-> "refresh", profile |-> p, token |-> 0]]
  /\ UNCHANGED <<now, profiles, mappings, tables, queue, requests, doomed>>

\* The ID stored on a profile's row; Nothing where there is no row or no ID.
IdOf(p) == IF profiles[p] = Nothing THEN Nothing ELSE profiles[p].org

CreateRefreshToken(c) ==
  /\ scripts[c].next = "refresh" /\ Len(refreshTokens) < MaxRows
  /\ refreshTokens' = Append(refreshTokens, Refresh(c, scripts[c].profile, 0))
  /\ scripts' = [scripts EXCEPT ![c].next = "access", ![c].token = Len(refreshTokens) + 1]
  /\ UNCHANGED <<now, catalog, accessTokens, queue, requests, doomed>>

\* mintAccessToken takes the family from the refresh token and the
\* organisation's ID from the profile, never from the label the script gives:
\* where the profile has none it raises.
CreateAccessToken(c) ==
  LET run == scripts[c] IN
  /\ run.next = "access" /\ Len(accessTokens) < MaxRows
  /\ accessTokens' = IF IdOf(run.profile) = Nothing THEN accessTokens
       ELSE Append(accessTokens, Access(c, run.profile, run.token, IdOf(run.profile)))
  /\ scripts' = [scripts EXCEPT ![c].next = "none"]
  /\ UNCHANGED <<now, catalog, refreshTokens, queue, requests, doomed>>

RowsOf(rows, c) == {i \in DOMAIN rows : rows[i].client = c /\ ~rows[i].gone}

HasLiveRefresh(c) ==
  \E i \in RowsOf(refreshTokens, c) :
    ~refreshTokens[i].revoked /\ refreshTokens[i].expiresAt > now

RetrofitSeatRefreshToken(c) ==
  /\ clients[c].profile # Nothing /\ ~clients[c].revoked
  /\ RowsOf(accessTokens, c) # {}
  /\ ~HasLiveRefresh(c) /\ Room
  /\ refreshTokens' = Append(refreshTokens, Refresh(c, clients[c].profile, 0))
  /\ UNCHANGED <<now, catalog, accessTokens, queue, callers, doomed>>

-----------------------------------------------------------------------------
(* The refresh grant.                                                      *)

\* An answered request leaves nothing; what a refusal was for is kept.
Goto(q, pc) == requests' = [requests EXCEPT ![q].pc = pc]

Answered(q) == requests' = [requests EXCEPT ![q] = Idle]

\* getRefreshTokenForGrant: a spent row answers too.
GetRefreshTokenForGrant(q, i) ==
  LET row == refreshTokens[i] IN
  /\ requests[q].pc = "idle" /\ ~row.gone
  /\ row.revoked \/ row.expiresAt >= now
  /\ requests' = [requests EXCEPT ![q] =
       [Idle EXCEPT !.pc = "read", !.token = i, !.profile = row.profile]]
  /\ UNCHANGED <<now, catalog, tables, queue, doomed, scripts>>

GetClientByClientId(q) ==
  /\ requests[q].pc = "read"
  /\ IF clients[refreshTokens[requests[q].token].client].revoked
     THEN Answered(q) ELSE Goto(q, "client")
  /\ UNCHANGED <<now, catalog, tables, queue, doomed, scripts>>

\* loadScopeProfile: what the rotation will be told.
LoadScopeProfile(q) ==
  LET p == requests[q].profile IN
  /\ requests[q].pc = "client"
  /\ IF profiles[p] = Nothing THEN Answered(q)
     ELSE requests' = [requests EXCEPT ![q].pc = "profile", ![q].label = profiles[p].label]
  /\ UNCHANGED <<now, catalog, tables, queue, doomed, scripts>>

FamilyJobs(f, refresh, access) == {[kind |-> "family", of |-> g] : g \in Unfinished({f}, refresh, access)}

\* revokeFamilyBatch, with Roots revoked first.
EndFamily(f, Roots, rest) ==
  /\ refreshTokens' = Revoked(refreshTokens, Roots \cup Page(LiveInFamily(refreshTokens, f)))
  /\ accessTokens' = Revoked(accessTokens, Page(LiveInFamily(accessTokens, f)))
  /\ jobs' = rest \cup FamilyJobs(f, refreshTokens, accessTokens)

\* The rows a trigger undertakes to end; a cascade, by their profile.
Doom(R, A, byName) == {<<"refresh", i, byName>> : i \in R} \cup {<<"access", i, byName>> : i \in A}

FamilyRows(f) == Doom({i \in DOMAIN refreshTokens : FamilyOf(i) = f},
                      {i \in DOMAIN accessTokens : accessTokens[i].family = f}, FALSE)

\* by_familyId, revokedAt last: an unrevoked row before the revoked ones.
Lineage(f) ==
  LET rows == {i \in DOMAIN accessTokens : accessTokens[i].family = f /\ ~accessTokens[i].gone}
      live == rows \cap LiveRows(accessTokens)
      S == IF live # {} THEN live ELSE rows
  IN IF S = {} THEN Nothing ELSE accessTokens[CHOOSE i \in S : \A j \in S : i <= j].org

\* Variant: the profile is not compared with the family's organisation.
NoMismatch(q, o) ==
  CASE o # Nothing /\ ~mappingActive[o] -> "organisation-inactive"
    [] o = Nothing /\ requests[q].label # Nothing -> "organisation-id-missing"
    [] OTHER -> Nothing

\* Why the rotation of a live token of a family of organisation o is refused.
Refusal(q, o) ==
  LET p == requests[q].profile IN
  CASE o # Nothing /\ ~mappingActive[o] -> "organisation-inactive"
    [] o = Nothing /\ requests[q].label # Nothing -> "organisation-id-missing"
    [] o # Nothing /\ IdOf(p) \notin {Nothing, o} -> "organisation-mismatch"
    [] OTHER -> Nothing

ReplayRefreshToken(q) ==
  LET i == requests[q].token
      f == FamilyOf(i)
  IN
  /\ requests[q].pc = "profile" /\ ~refreshTokens[i].gone /\ refreshTokens[i].revoked
  /\ EndFamily(f, {}, jobs)
  /\ doomed' = doomed \cup FamilyRows(f)
  /\ Goto(q, "reused")
  /\ UNCHANGED <<now, catalog, walks, scripts>>

Presentable(q) ==
  LET row == refreshTokens[requests[q].token] IN
  requests[q].pc = "profile" /\ ~row.gone /\ ~row.revoked /\ row.expiresAt >= now

InvalidGrant(q) ==
  LET row == refreshTokens[requests[q].token] IN
  /\ requests[q].pc = "profile" /\ (row.gone \/ (~row.revoked /\ row.expiresAt < now))
  /\ Answered(q)
  /\ UNCHANGED <<now, catalog, tables, queue, doomed, scripts>>

RefuseRotation(q) ==
  LET i == requests[q].token
      f == FamilyOf(i)
      reason == Refusal(q, Lineage(f))
  IN
  /\ Presentable(q) /\ reason # Nothing
  /\ EndFamily(f, {f}, jobs)
  /\ doomed' = doomed \cup FamilyRows(f)
  /\ requests' = [requests EXCEPT ![q].pc = "refused", ![q].reason = reason]
  /\ UNCHANGED <<now, catalog, walks, scripts>>

\* Variant: the presented token stays live.
KeptAlive(i) == refreshTokens

Spent(i) == Revoked(refreshTokens, {i})

\* rotateRefreshToken, the seat's branch: the client is not read again and the
\* profile is the one the request carries.
RotateRefreshToken(q) ==
  LET i == requests[q].token
      f == FamilyOf(i)
      c == refreshTokens[i].client
      p == requests[q].profile
  IN
  /\ Presentable(q) /\ Refusal(q, Lineage(f)) = Nothing /\ Room
  /\ refreshTokens' = Append(Spent(i), Refresh(c, p, f))
  /\ accessTokens' = Append(accessTokens, Access(c, p, f, Lineage(f)))
  /\ Answered(q)
  /\ UNCHANGED <<now, catalog, queue, doomed, scripts>>

Finish(q) ==
  /\ requests[q].pc \in {"reused", "refused"}
  /\ Answered(q)
  /\ UNCHANGED <<now, catalog, tables, queue, doomed, scripts>>

InFlight(q) == requests[q].pc \in {"read", "client", "profile"}

-----------------------------------------------------------------------------
(* The walks over a client's tokens.                                       *)

\* The rows a walk reads next, revoked ones included.
After(rows, c, cursor) == {i \in RowsOf(rows, c) : i > cursor}

LastOf(S, cursor) == IF S = {} THEN cursor ELSE CHOOSE i \in S : \A j \in S : j <= i

\* Variant: every page is taken for the last.
AlwaysLast(rows, c, cursor) == TRUE

LastPage(rows, c, cursor) == Cardinality(After(rows, c, cursor)) < Batch

Retargetable(rows, S, w) == {i \in S : ~rows[i].revoked /\ rows[i].expiresAt >= w.at}

Retarget(rows, S, p) == [i \in DOMAIN rows |-> IF i \in S THEN [rows[i] EXCEPT !.profile = p] ELSE rows[i]]

\* walkClientTokensPage over both tables, and what it leaves to the scheduler.
\* A retarget stamps the organisation that has the profile's label now.
WalkPage(w, rest, more) ==
  LET c == w.client
      access == IF w.accessDone THEN {} ELSE Page(After(accessTokens, c, w.access))
      refresh == IF w.refreshDone THEN {} ELSE Page(After(refreshTokens, c, w.refresh))
      holder == ClerkOrgIdForSlug(profiles[w.to].label)
      next == [w EXCEPT !.access = LastOf(access, @), !.refresh = LastOf(refresh, @),
                 !.accessDone = @ \/ LastPage(accessTokens, c, w.access),
                 !.refreshDone = @ \/ LastPage(refreshTokens, c, w.refresh)]
  IN
  /\ IF w.op = "retarget_scope"
     THEN /\ accessTokens' = [i \in DOMAIN accessTokens |->
                 IF i \in Retargetable(accessTokens, access, w)
                 THEN [accessTokens[i] EXCEPT !.profile = w.to, !.org = holder,
                         !.stray = holder # profiles[w.to].org]
                 ELSE accessTokens[i]]
          /\ refreshTokens' = Retarget(refreshTokens, Retargetable(refreshTokens, refresh, w), w.to)
          /\ doomed' = doomed \ Doom(refresh, access, TRUE)
     ELSE /\ accessTokens' = Revoked(accessTokens, access)
          /\ refreshTokens' = Revoked(refreshTokens, refresh)
          /\ doomed' = doomed \cup more
  /\ walks' = rest \cup (IF next.accessDone /\ next.refreshDone THEN {} ELSE {next})

NewWalk(op, c, p, countOnly) ==
  [op |-> op, client |-> c, to |-> p, at |-> now, access |-> 0, refresh |-> 0,
   accessDone |-> FALSE, refreshDone |-> countOnly]

MayWalk == Cardinality(walks) < MaxWalks

DeleteClient(c) ==
  /\ MayWalk /\ clients[c].profile # Nothing
  /\ clients' = [clients EXCEPT ![c].revoked = TRUE]
  /\ WalkPage(NewWalk("revoke_all", c, Nothing, FALSE), walks,
              Doom(RowsOf(refreshTokens, c), RowsOf(accessTokens, c), FALSE))
  /\ UNCHANGED <<now, profiles, mappings, jobs, callers>>

RevokeAccessTokensOnly(c) ==
  /\ MayWalk /\ clients[c].profile # Nothing
  /\ WalkPage(NewWalk("revoke_access_only", c, Nothing, TRUE), walks,
              Doom({}, RowsOf(accessTokens, c), FALSE))
  /\ UNCHANGED <<now, catalog, jobs, callers>>

PatchClientScope(c, p) ==
  /\ MayWalk /\ clients[c].profile # Nothing /\ ~clients[c].revoked /\ profiles[p] # Nothing
  /\ clients' = [clients EXCEPT ![c].profile = p]
  /\ WalkPage(NewWalk("retarget_scope", c, p, FALSE), walks, {})
  /\ UNCHANGED <<now, profiles, mappings, jobs, callers>>

\* A target profile that is gone by then makes the run raise: the walk stops.
ContinueClientTokenWalk(w) ==
  /\ w \in walks
  /\ IF w.op = "retarget_scope" /\ profiles[w.to] = Nothing
     THEN walks' = walks \ {w} /\ UNCHANGED <<tables, doomed>>
     ELSE WalkPage(w, walks \ {w}, {})
  /\ UNCHANGED <<now, catalog, jobs, callers>>

-----------------------------------------------------------------------------
(* patchScopeProfileEmergency: a rename, a cascade, or both.               *)

Named(rows, p) == {i \in DOMAIN rows : rows[i].profile = p /\ ~rows[i].gone}

Deleted(rows, S) == [i \in DOMAIN rows |-> IF i \in S THEN [rows[i] EXCEPT !.revoked = TRUE, !.gone = TRUE]
                                                     ELSE rows[i]]

More(P) ==
  \E p \in P : Cardinality(Named(refreshTokens, p)) > Batch \/ Cardinality(Named(accessTokens, p)) > Batch

\* revokeTokenBatch for each name.
Cascade(P) ==
  /\ refreshTokens' = Deleted(refreshTokens, UNION {Page(Named(refreshTokens, p)) : p \in P})
  /\ accessTokens' = Deleted(accessTokens, UNION {Page(Named(accessTokens, p)) : p \in P})

CascadeJob(P) == IF More(P) THEN {[kind |-> "cascade", of |-> P]} ELSE {}

\* retargetClientsBatch takes its batch in the order the clients were created.
Holding(p) == {c \in Client : clients[c].profile = p}

BatchOf(S) == {T \in SUBSET S : Cardinality(T) = IF Cardinality(S) < Batch THEN Cardinality(S) ELSE Batch}

RetargetJob(T, p, r) ==
  IF Cardinality(T) = Batch THEN {[kind |-> "retarget", from |-> p, to |-> r]} ELSE {}

Moved(T, r) == [c \in Client |-> IF c \in T THEN [clients[c] EXCEPT !.profile = r] ELSE clients[c]]

PatchScopeProfileEmergency(p, r, cascade) ==
  LET names == {p, r} IN
  /\ profiles[p] # Nothing
  /\ IF r = p
     THEN UNCHANGED <<clients, profiles>> /\ jobs' = jobs \cup (IF cascade THEN CascadeJob(names) ELSE {})
     ELSE /\ profiles[r] = Nothing
          /\ profiles' = [profiles EXCEPT ![r] = profiles[p], ![p] = Nothing]
          /\ \E T \in BatchOf(Holding(p)) :
               /\ clients' = Moved(T, r)
               /\ jobs' = jobs \cup RetargetJob(T, p, r) \cup (IF cascade THEN CascadeJob(names) ELSE {})
  /\ IF cascade
     THEN /\ Cascade(names)
          /\ doomed' = doomed \cup Doom(UNION {Named(refreshTokens, n) : n \in names},
                                       UNION {Named(accessTokens, n) : n \in names}, TRUE)
     ELSE r # p /\ UNCHANGED <<tables, doomed>>
  /\ UNCHANGED <<now, mappings, walks, callers>>

ContinueClientRetarget(p, r) ==
  LET job == [kind |-> "retarget", from |-> p, to |-> r] IN
  /\ job \in jobs
  /\ \E T \in BatchOf(Holding(p)) :
       clients' = Moved(T, r) /\ jobs' = (jobs \ {job}) \cup RetargetJob(T, p, r)
  /\ UNCHANGED <<now, profiles, mappings, tables, walks, callers, doomed>>

ContinueCascadeRevoke(P) ==
  LET job == [kind |-> "cascade", of |-> P] IN
  /\ job \in jobs
  /\ Cascade(P) /\ jobs' = (jobs \ {job}) \cup CascadeJob(P)
  /\ UNCHANGED <<now, catalog, walks, callers, doomed>>

ContinueFamilyRevoke(f) ==
  LET job == [kind |-> "family", of |-> f] IN
  /\ job \in jobs
  /\ EndFamily(f, {}, jobs \ {job})
  /\ UNCHANGED <<now, catalog, walks, callers, doomed>>

\* clientOrgMapping.setActive.
SetActive(o) ==
  /\ mappingActive' = [mappingActive EXCEPT ![o] = ~@]
  /\ UNCHANGED <<now, clients, profiles, mappingLabel, tables, queue, callers, doomed>>

\* An organisation is renamed to a label nobody has; the one it leaves is free
\* for another to take.  The row is written by hand, and nothing that stored
\* the old label follows.
TakeLabel(o, l) ==
  /\ \A e \in Org : mappingLabel[e] # l
  /\ mappingLabel' = [mappingLabel EXCEPT ![o] = l]
  /\ UNCHANGED <<now, clients, profiles, mappingActive, tables, queue, callers, doomed>>

\* The unit of the clock is longer than a request.
Tick ==
  /\ now < MaxNow /\ \A q \in Request : ~InFlight(q)
  /\ now' = now + 1
  /\ UNCHANGED <<catalog, tables, queue, callers, doomed>>

-----------------------------------------------------------------------------
GrantStep(q) ==
  \/ \E i \in DOMAIN refreshTokens : GetRefreshTokenForGrant(q, i)
  \/ GetClientByClientId(q) \/ LoadScopeProfile(q)
  \/ ReplayRefreshToken(q) \/ InvalidGrant(q) \/ RefuseRotation(q) \/ RotateRefreshToken(q)
  \/ Finish(q)

ContinueRevocation ==
  \/ \E w \in walks : ContinueClientTokenWalk(w)
  \/ \E i \in DOMAIN refreshTokens : ContinueFamilyRevoke(i)
  \/ \E P \in SUBSET Profile : ContinueCascadeRevoke(P)

Operate ==
  \/ \E c \in Client, p \in Profile :
       \/ "provision" \in Doors /\ \E o \in Org : ProvisionSeat(c, p, o)
       \/ "script" \in Doors /\ CreateClient(c, p)
       \/ "scope" \in Doors /\ PatchClientScope(c, p)
  \/ \E c \in Client :
       \/ CreateRefreshToken(c) \/ CreateAccessToken(c)
       \/ "retrofit" \in Doors /\ RetrofitSeatRefreshToken(c)
       \/ "delete" \in Doors /\ DeleteClient(c)
       \/ "access" \in Doors /\ RevokeAccessTokensOnly(c)
  \/ \E p, r \in Profile, cascade \in BOOLEAN :
       "emergency" \in Doors /\ PatchScopeProfileEmergency(p, r, cascade)
  \/ \E o \in Org :
       \/ "active" \in Doors /\ SetActive(o)
       \/ "label" \in Doors /\ \E l \in Label : TakeLabel(o, l)

Next ==
  \/ Operate
  \/ \E q \in Request : GrantStep(q)
  \/ \E p, r \in Profile : ContinueClientRetarget(p, r)
  \/ ContinueRevocation
  \/ Tick

Spec == Init /\ [][Next]_vars

\* The scheduler runs every continuation it was given.
FairSpec ==
  /\ Spec
  /\ WF_vars(\E w \in walks : ContinueClientTokenWalk(w))
  /\ \A i \in 1 .. MaxRows : WF_vars(ContinueFamilyRevoke(i))
  /\ \A P \in SUBSET Profile : WF_vars(ContinueCascadeRevoke(P))

-----------------------------------------------------------------------------
(* Properties.                                                             *)

Revoking == {w \in walks : w.op # "retarget_scope"}
Draining == Revoking # {} \/ \E j \in jobs : j.kind # "retarget"

\* However refreshes, replays, retrofits and retargets overlap, a family has
\* one refresh token to exchange.
OneLiveRefresh ==
  \A i, j \in DOMAIN refreshTokens :
    i # j /\ FamilyOf(i) = FamilyOf(j) => refreshTokens[i].revoked \/ refreshTokens[j].revoked

\* The tables as they should be, and no family with two tokens to exchange.
SeatsSound == TypeOK /\ OneLiveRefresh

\* Every row that existed when its client was deleted, its access tokens were
\* revoked, its family was replayed or refused, or a cascade named its profile
\* and no retarget took it from it since, is dead when the batches are done.
RevocationsReach ==
  ~Draining =>
    \A t \in doomed : (IF t[1] = "refresh" THEN refreshTokens ELSE accessTokens)[t[2]].revoked

\* A live access token stands under its profile's own organisation, through
\* rotations with a profile read earlier, retargets and changes of labels.  A
\* row a retarget stamped with another holder of the label (oauth.ts:1654) is
\* left out; what is rotated from such a row is not.
OrgOfProfile ==
  \A i \in LiveRows(accessTokens) :
    LET row == accessTokens[i] IN
    row.org # Nothing /\ IdOf(row.profile) # Nothing /\ ~row.stray => row.org = IdOf(row.profile)

\* A row a deletion, a revocation or a replay has undertaken to end is dead in
\* the end, whatever is minted, retargeted or cascaded between the batches.
DoomedEnd ==
  \A i \in 1 .. MaxRows :
    /\ <<"refresh", i, FALSE>> \in doomed ~> i \in DOMAIN refreshTokens \ LiveRows(refreshTokens)
    /\ <<"access", i, FALSE>> \in doomed ~> i \in DOMAIN accessTokens \ LiveRows(accessTokens)
=============================================================================
