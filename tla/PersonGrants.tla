---------------------------- MODULE PersonGrants ----------------------------
(***************************************************************************)
(* One person's connections to one organisation (convex/oauth.ts and the   *)
(* /token route of mcp-server/server-http.ts): consent codes exchanged for *)
(* a first pair of tokens, refresh tokens rotated inside their family, and *)
(* the triggers that revoke: a replayed token, a refused refresh, the      *)
(* removal of the member, the deactivation of the agent.                   *)
(*                                                                         *)
(* Rows are numbered in the order they were inserted, which is the order   *)
(* the indexes return them in.  A request of the authorization_code grant  *)
(* is several calls: consume the code, read the organisation's mapping,    *)
(* mint the pair, and, when the mint raised, mint the access token alone.  *)
(***************************************************************************)
EXTENDS TokenTables

CONSTANTS
  Code,          \* codeHash values
  Request,       \* requests of the authorization_code grant
  Agent,         \* agents the person may choose at consent
  Self,          \* "connect as myself"
  Nothing,
  CodeTtl, AccessTtl, RefreshTtl,
  FamilyMax,     \* personRefreshFamilyMaxMs
  Retention,     \* PERSON_CODE_RETENTION_MS
  MaxRows,       \* bound: refresh and access rows
  MaxNow         \* bound: the clock stops here

\* The retention of a code covers the code's life and its first access token's.
ASSUME GrantAssumption ==
  /\ {CodeTtl, AccessTtl, RefreshTtl, FamilyMax, Retention, MaxRows, MaxNow} \subseteq Nat
  /\ AccessTtl <= Retention
  /\ Self \notin Agent
  /\ IsFiniteSet(Request) /\ Code \cap (1 .. MaxRows) = {}

VARIABLES
  now,
  codes,           \* oauth_person_codes
  refreshTokens,   \* oauth_refresh_tokens, person rows
  accessTokens,    \* oauth_access_tokens, person rows
  scheduled,       \* continuations waiting in the scheduler
  member,          \* a live orgMembership row
  mappingActive,   \* client_org_mapping.isActive
  agents,          \* isActive and on the roster, or not
  requests,        \* the exchanges and where each of them is
  doomed,          \* history: tokens a trigger has undertaken to revoke
  replayed         \* history: families of a replayed refresh token

tables == <<codes, refreshTokens, accessTokens, scheduled>>
authority == <<member, mappingActive, agents>>
history == <<doomed, replayed>>
vars == <<now, tables, authority, requests, history>>

Chosen == Agent \cup {Self}

CodeRow == [state : {"none", "live", "used", "purged"}, actsAs : Chosen, expiresAt : Nat]

RefreshRow ==
  [family : Nat,        \* familyId; 0 on the first token of a family
   parent : Nat,        \* history: the row a rotation spent for it
   actsAs : Chosen, createdAt : Nat, expiresAt : Nat, revoked : BOOLEAN]

AccessRow ==
  [hash : Request \cup {Nothing}, code : Code \cup {Nothing}, family : Nat,
   expiresAt : Nat, revoked : BOOLEAN]

Exchange ==
  [pc : {"idle", "redeemed", "authorised", "retry", "replayed",
         "issued", "refused", "revoked", "gone"},
   code : Code \cup {Nothing}, won : BOOLEAN]

TypeOK ==
  /\ now \in Nat
  /\ codes \in [Code -> CodeRow]
  /\ refreshTokens \in Seq(RefreshRow) /\ accessTokens \in Seq(AccessRow)
  /\ \A i \in DOMAIN refreshTokens :
       LET r == refreshTokens[i] IN
         /\ r.family < i /\ r.parent < i
         /\ (r.family = 0) <=> (r.parent = 0)
  /\ \A i \in DOMAIN accessTokens :
       LET f == accessTokens[i].family IN
         f # 0 => f \in DOMAIN refreshTokens /\ refreshTokens[f].family = 0
  /\ scheduled \subseteq
       [kind : {"family"}, of : Nat] \cup [kind : {"member"}] \cup [kind : {"agent"}, of : Agent]
  /\ member \in BOOLEAN /\ mappingActive \in BOOLEAN
  /\ agents \in [Agent -> {"listed", "unlisted", "inactive"}]
  /\ requests \in [Request -> Exchange]
  /\ doomed \subseteq {"refresh", "access"} \X Nat
  /\ replayed \subseteq Nat

Init ==
  /\ now = 0
  /\ codes = [c \in Code |-> [state |-> "none", actsAs |-> Self, expiresAt |-> 0]]
  /\ refreshTokens = <<>> /\ accessTokens = <<>> /\ scheduled = {}
  /\ member = TRUE /\ mappingActive = TRUE
  /\ agents = [a \in Agent |-> "listed"]
  /\ requests = [r \in Request |-> [pc |-> "idle", code |-> Nothing, won |-> FALSE]]
  /\ doomed = {} /\ replayed = {}

-----------------------------------------------------------------------------
(* Revocation: live rows in index order, a batch at a time.                *)

\* row.familyId ?? row.tokenHash.
\* Variant: a rotation starts a family of its own.
FamilyOfToken(i) == i

FamilyOf(i) == LET f == refreshTokens[i].family IN IF f = 0 THEN i ELSE f

\* A batch of each family of F, and of the first tokens in Roots, over the
\* tables as this transaction has left them so far.
EndFamilies(F, Roots, refresh, access, queue) ==
  /\ refreshTokens' = Revoked(refresh, Roots \cup UNION {Page(LiveInFamily(refresh, f)) : f \in F})
  /\ accessTokens' = Revoked(access, UNION {Page(LiveInFamily(access, f)) : f \in F})
  /\ scheduled' = queue \cup {[kind |-> "family", of |-> f] : f \in Unfinished(F, refresh, access)}

\* revokeFamilyWithRoot.
EndFamiliesWithRoot(F, refresh, access, queue) == EndFamilies(F, F, refresh, access, queue)

RefreshOf(F) == {<<"refresh", i>> : i \in {j \in DOMAIN refreshTokens : FamilyOf(j) \in F}}
AccessOf(F) == {<<"access", i>> : i \in {j \in DOMAIN accessTokens : accessTokens[j].family \in F}}

-----------------------------------------------------------------------------
(* The authorization_code grant.                                           *)

InFlight(r) == requests[r].pc \in {"redeemed", "authorised", "retry", "replayed"}

MoveTo(r, pc) == requests' = [requests EXCEPT ![r].pc = pc]

Room(rows) == Len(rows) < MaxRows

\* putPersonCode, behind the consent screen of a verified member.
PutPersonCode(c, a) ==
  /\ member /\ codes[c].state = "none"
  /\ a \in {Self} \cup {x \in Agent : agents[x] # "inactive"}
  /\ codes' = [codes EXCEPT ![c] =
       [state |-> "live", actsAs |-> a, expiresAt |-> now + CodeTtl]]
  /\ UNCHANGED <<now, refreshTokens, accessTokens, scheduled, authority, requests, history>>

\* Variant: the mark is not read.
RedeemableTwice(c) == codes[c].state \in {"live", "used"}

Redeemable(c) == codes[c].state = "live"

\* consumePersonCode marks the code used whatever follows; the package then
\* refuses an expired one.
ConsumePersonCode(r, c) ==
  /\ requests[r].pc = "idle" /\ codes[c].state # "none"
  /\ IF Redeemable(c)
     THEN /\ codes' = [codes EXCEPT ![c].state = "used"]
          /\ requests' = [requests EXCEPT ![r] =
               [pc |-> IF codes[c].expiresAt < now THEN "refused" ELSE "redeemed",
                code |-> c, won |-> TRUE]]
     ELSE /\ requests' = [requests EXCEPT ![r] =
               [pc |-> IF codes[c].state = "used" THEN "replayed" ELSE "refused",
                code |-> c, won |-> FALSE]]
          /\ UNCHANGED codes
  /\ UNCHANGED <<now, refreshTokens, accessTokens, scheduled, authority, history>>

\* revokeAccessTokensForCode: what carries the code's digest.
RevokeAccessTokensForCode(r) ==
  /\ requests[r].pc = "replayed" /\ MoveTo(r, "revoked")
  /\ accessTokens' = Revoked(accessTokens,
       {i \in DOMAIN accessTokens : accessTokens[i].code = requests[r].code})
  /\ UNCHANGED <<now, codes, refreshTokens, scheduled, authority, history>>

LookupOrgMapping(r) ==
  /\ requests[r].pc = "redeemed"
  /\ MoveTo(r, IF mappingActive THEN "authorised" ELSE "refused")
  /\ UNCHANGED <<now, tables, authority, history>>

FirstAccess(r, f) ==
  [hash |-> r, code |-> requests[r].code, family |-> f,
   expiresAt |-> now + AccessTtl, revoked |-> FALSE]

\* createAccessToken with personRefresh: both rows in one transaction.  The
\* answer may be lost on its way, which the server takes for a failure.
MintPair(r) ==
  /\ requests[r].pc = "authorised" /\ Room(refreshTokens) /\ Room(accessTokens)
  /\ \/ MoveTo(r, "issued")
     \/ MoveTo(r, "retry")
  /\ refreshTokens' = Append(refreshTokens,
       [family |-> 0, parent |-> 0, actsAs |-> codes[requests[r].code].actsAs,
        createdAt |-> now, expiresAt |-> now + RefreshTtl, revoked |-> FALSE])
  /\ accessTokens' = Append(accessTokens, FirstAccess(r, Len(refreshTokens) + 1))
  /\ UNCHANGED <<now, codes, scheduled, authority, history>>

MintPairFails(r) ==
  /\ requests[r].pc = "authorised" /\ MoveTo(r, "retry")
  /\ UNCHANGED <<now, tables, authority, history>>

\* The second createAccessToken: the same token hash, no refresh row.
MintAlone(r) ==
  /\ requests[r].pc = "retry" /\ Room(accessTokens)
  /\ MoveTo(r, "issued")
  /\ accessTokens' = Append(accessTokens, FirstAccess(r, 0))
  /\ UNCHANGED <<now, codes, refreshTokens, scheduled, authority, history>>

\* The server stops, or a call of its raises.
Die(r) ==
  /\ InFlight(r) /\ MoveTo(r, "gone")
  /\ UNCHANGED <<now, tables, authority, history>>

-----------------------------------------------------------------------------
(* The refresh grant: rotateRefreshToken, one transaction.                 *)

\* A spent token is presented again.
ReplayRefreshToken(i) ==
  LET f == FamilyOf(i) IN
  /\ refreshTokens[i].revoked
  /\ EndFamilies({f}, {}, refreshTokens, accessTokens, scheduled)
  /\ replayed' = replayed \cup {f}
  /\ doomed' = doomed \cup RefreshOf({f}) \cup AccessOf({f})
  /\ UNCHANGED <<now, codes, authority, requests>>

\* Variant: the lifetime is measured from the presented token.
DeadlineOfRow(i) == refreshTokens[i].createdAt + FamilyMax

\* "absolute family expiry, measured from the first token of the family"
Deadline(i) == refreshTokens[FamilyOf(i)].createdAt + FamilyMax

Live(i) == ~refreshTokens[i].revoked /\ now <= refreshTokens[i].expiresAt

\* What the rotation resolves anew: the family's age, the organisation, the
\* member and the agent.
MayRotate(i) ==
  /\ now < Deadline(i)
  /\ mappingActive /\ member
  /\ refreshTokens[i].actsAs \in {Self} \cup {a \in Agent : agents[a] = "listed"}

RefuseRotation(i) ==
  LET f == FamilyOf(i) IN
  /\ Live(i) /\ ~MayRotate(i)
  /\ EndFamiliesWithRoot({f}, refreshTokens, accessTokens, scheduled)
  /\ doomed' = doomed \cup RefreshOf({f}) \cup AccessOf({f})
  /\ UNCHANGED <<now, codes, authority, requests, replayed>>

\* Variant: the presented token stays live.
KeptAlive(i) == refreshTokens

Spent(i) == Revoked(refreshTokens, {i})

Sooner(a, b) == IF a < b THEN a ELSE b

RotateRefreshToken(i) ==
  LET f == FamilyOf(i) IN
  /\ Live(i) /\ MayRotate(i)
  /\ Room(refreshTokens) /\ Room(accessTokens)
  /\ refreshTokens' = Append(Spent(i),
       [family |-> f, parent |-> i, actsAs |-> refreshTokens[i].actsAs, createdAt |-> now,
        expiresAt |-> Sooner(now + RefreshTtl, Deadline(i)), revoked |-> FALSE])
  /\ accessTokens' = Append(accessTokens,
       [hash |-> Nothing, code |-> Nothing, family |-> f,
        expiresAt |-> now + AccessTtl, revoked |-> FALSE])
  /\ UNCHANGED <<now, codes, scheduled, authority, requests, history>>

-----------------------------------------------------------------------------
(* Triggers.                                                               *)

\* revokeMemberTokensBatch: a page of live access rows, each with its family,
\* and the families of a page of live refresh rows.
RevokeMemberTokensBatch(queue) ==
  LET access == Page(LiveRows(accessTokens))
      refresh == Page(LiveRows(refreshTokens))
      families == ({accessTokens[i].family : i \in access} \ {0})
                    \cup {FamilyOf(i) : i \in refresh}
      more == Cardinality(LiveRows(accessTokens)) > Batch
                \/ Cardinality(LiveRows(refreshTokens)) > Batch
  IN EndFamiliesWithRoot(families, refreshTokens, Revoked(accessTokens, access),
       queue \cup (IF more THEN {[kind |-> "member"]} ELSE {}))

\* writeMembershipTombstone: the row and the first batch in one transaction.
\* A tombstone applied again revokes again.
RemoveMember ==
  /\ member' = FALSE
  /\ RevokeMemberTokensBatch(scheduled)
  /\ doomed' = doomed \cup {<<"refresh", i>> : i \in DOMAIN refreshTokens}
                      \cup {<<"access", i>> : i \in DOMAIN accessTokens}
  /\ UNCHANGED <<now, codes, mappingActive, agents, requests, replayed>>

\* writeMembershipUpsert revives the row.
RestoreMember ==
  /\ ~member /\ member' = TRUE
  /\ UNCHANGED <<now, tables, mappingActive, agents, requests, history>>

NamedBy(a) == {i \in LiveRows(refreshTokens) : refreshTokens[i].actsAs = a}

\* revokePersonRefreshTokens, for an agent.
RevokeAgentBatch(a, queue) ==
  LET page == Page(NamedBy(a)) IN
  EndFamiliesWithRoot({FamilyOf(i) : i \in page}, Revoked(refreshTokens, page), accessTokens,
    queue \cup (IF Cardinality(NamedBy(a)) > Batch THEN {[kind |-> "agent", of |-> a]} ELSE {}))

DeactivateAgent(a) ==
  LET families == {FamilyOf(i) : i \in NamedBy(a)} IN
  /\ agents[a] # "inactive"
  /\ agents' = [agents EXCEPT ![a] = "inactive"]
  /\ RevokeAgentBatch(a, scheduled)
  /\ doomed' = doomed \cup RefreshOf(families) \cup AccessOf(families)
  /\ UNCHANGED <<now, codes, member, mappingActive, requests, replayed>>

\* reactivateAgent, and the roster's writers, which revoke nothing here.
ChangeAgent(a) ==
  /\ agents' = [agents EXCEPT ![a] = IF agents[a] = "listed" THEN "unlisted" ELSE "listed"]
  /\ UNCHANGED <<now, tables, member, mappingActive, requests, history>>

\* clientOrgMapping.setActive: no revocation is wired to it.
SetActive ==
  /\ mappingActive' = ~mappingActive
  /\ UNCHANGED <<now, tables, member, agents, requests, history>>

ContinueFamilyRevoke(f) ==
  LET job == [kind |-> "family", of |-> f] IN
  /\ job \in scheduled
  /\ EndFamilies({f}, {}, refreshTokens, accessTokens, scheduled \ {job})
  /\ UNCHANGED <<now, codes, authority, requests, history>>

ContinueMemberRevoke ==
  /\ [kind |-> "member"] \in scheduled
  /\ RevokeMemberTokensBatch(scheduled \ {[kind |-> "member"]})
  /\ UNCHANGED <<now, codes, authority, requests, history>>

ContinueAgentRevoke(a) ==
  LET job == [kind |-> "agent", of |-> a] IN
  /\ job \in scheduled
  /\ RevokeAgentBatch(a, scheduled \ {job})
  /\ UNCHANGED <<now, codes, authority, requests, history>>

Purgeable(c) == codes[c].expiresAt < now - Retention

\* purgeExpiredPersonCodes.
PurgeExpiredPersonCodes ==
  LET old == {c \in Code : codes[c].state \in {"live", "used"} /\ Purgeable(c)} IN
  /\ old # {}
  /\ codes' = [c \in Code |-> IF c \in old THEN [codes[c] EXCEPT !.state = "purged"] ELSE codes[c]]
  /\ UNCHANGED <<now, refreshTokens, accessTokens, scheduled, authority, requests, history>>

\* The unit of the clock is longer than a request.
Tick ==
  /\ now < MaxNow /\ \A r \in Request : ~InFlight(r)
  /\ now' = now + 1
  /\ UNCHANGED <<tables, authority, requests, history>>

-----------------------------------------------------------------------------
ExchangeStep(r) ==
  \/ \E c \in Code : ConsumePersonCode(r, c)
  \/ RevokeAccessTokensForCode(r) \/ LookupOrgMapping(r)
  \/ MintPair(r) \/ MintPairFails(r) \/ MintAlone(r)
  \/ Die(r)

RefreshStep(i) == ReplayRefreshToken(i) \/ RefuseRotation(i) \/ RotateRefreshToken(i)

Continue ==
  \/ \E i \in DOMAIN refreshTokens : ContinueFamilyRevoke(i)
  \/ ContinueMemberRevoke
  \/ \E a \in Agent : ContinueAgentRevoke(a)

Next ==
  \/ \E c \in Code, a \in Chosen : PutPersonCode(c, a)
  \/ \E r \in Request : ExchangeStep(r)
  \/ \E i \in DOMAIN refreshTokens : RefreshStep(i)
  \/ RemoveMember \/ RestoreMember
  \/ \E a \in Agent : DeactivateAgent(a) \/ ChangeAgent(a)
  \/ SetActive
  \/ Continue
  \/ PurgeExpiredPersonCodes \/ Tick

Spec == Init /\ [][Next]_vars

\* The scheduler runs what was scheduled.
FairSpec == Spec /\ WF_vars(Continue)

-----------------------------------------------------------------------------
(* Properties.                                                             *)

\* How often a code was redeemed, or a refresh token exchanged for its successor.
Redemptions ==
  [k \in Code \cup (1 .. MaxRows) |->
     IF k \in Code THEN Cardinality({r \in Request : requests[r].won /\ requests[r].code = k})
                   ELSE Cardinality({i \in DOMAIN refreshTokens : refreshTokens[i].parent = k})]

Grants == INSTANCE OncePerKey WITH Key <- Code \cup (1 .. MaxRows), effects <- Redemptions

\* A code is redeemed, and a refresh token exchanged for its successor, at
\* most once, whatever requests overlap, repeat or die.
RedeemedOnce == Grants!Spec

\* A family has at most one refresh token that can still be exchanged.
OneLiveRefresh ==
  \A i, j \in DOMAIN refreshTokens :
    i # j /\ FamilyOf(i) = FamilyOf(j) => refreshTokens[i].revoked \/ refreshTokens[j].revoked

\* The tables as they should be, and no family with two tokens to exchange.
GrantsSound == TypeOK /\ OneLiveRefresh

\* Every token that existed when its family was replayed or refused, its
\* person removed or its agent deactivated is revoked once the scheduler is
\* done, whatever was minted, removed or restored between the batches.
TriggersReach ==
  scheduled = {} =>
    \A t \in doomed : IF t[1] = "refresh" THEN refreshTokens[t[2]].revoked
                                          ELSE accessTokens[t[2]].revoked

\* After a spent refresh token was presented again, and the batches are done,
\* nothing of its family is live and nothing of it will be minted again.
ReplayEndsFamily ==
  \A f \in replayed :
    [kind |-> "family", of |-> f] \notin scheduled =>
      /\ \A i \in DOMAIN refreshTokens : FamilyOf(i) = f => refreshTokens[i].revoked
      /\ \A i \in DOMAIN accessTokens : accessTokens[i].family = f => accessTokens[i].revoked

\* However often it was rotated, a family's last access token is dead one
\* access lifetime after the family's absolute deadline.
FamilyEnds ==
  \A i \in LiveRows(accessTokens) :
    accessTokens[i].family # 0 /\ now <= accessTokens[i].expiresAt =>
      now <= refreshTokens[accessTokens[i].family].createdAt + FamilyMax + AccessTtl

\* Every revocation cut into batches comes to its end.
RevocationDrains == scheduled # {} ~> scheduled = {}
=============================================================================
