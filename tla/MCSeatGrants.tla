---------------------------- MODULE MCSeatGrants ----------------------------
(***************************************************************************)
(* One seat that refreshes while its profile is retargeted and labels pass *)
(* to other organisations, and one whose tokens are revoked and deleted    *)
(* one row at a time.                                                      *)
(***************************************************************************)
EXTENDS SeatClaims, TLC

CONSTANT Spare     \* a label that is nobody's at first

\* Clients, profiles, organisations, labels and requests are interchangeable.
Symmetry == Permutations(Client) \cup Permutations(Profile) \cup Permutations(Org)
              \cup Permutations(Label \ {Spare}) \cup Permutations(Request)

\* A label has passed on when somebody has the spare one; a profile may have no
\* organisation from the start.
Passed == \E o \in Org : mappingLabel[o] = Spare
Unbound == \E p \in Profile : profiles[p] # Nothing /\ profiles[p].org = Nothing

\* Once a label has passed on or the first tokens have expired, and where a
\* profile has no organisation, requests come one at a time and each table holds
\* two rows; labels do not pass on, nor are profiles without organisation, after
\* the tick.
InBounds ==
  Passed \/ Unbound \/ now > 0 =>
    /\ \E q \in Request : \A r \in Request \ {q} : requests[r] = Idle
    /\ Len(refreshTokens) <= 2 /\ Len(accessTokens) <= 2
    /\ Passed \/ Unbound => now = 0

\* A step stays within them, and the spare label is not given back.
StepInBounds == InBounds' /\ (Passed => Passed')

RefreshInit == Init /\ ~Passed

RefreshSpec == RefreshInit /\ [][Next]_vars
=============================================================================
