--------------------------- MODULE MCPersonGrants ---------------------------
(***************************************************************************)
(* Two small worlds in one run: a clock and one connection that rotates    *)
(* until its family ends, and several connections in one batch-by-batch    *)
(* revocation, before any time passes.                                     *)
(***************************************************************************)
EXTENDS PersonGrants

First == CHOOSE c \in Code : TRUE
FirstRequest == CHOOSE r \in Request : TRUE

\* One connection, of the person itself, whose roster never changes.
Alone ==
  /\ \A c \in Code \ {First} : codes[c].state = "none"
  /\ codes[First].actsAs = Self
  /\ \A a \in Agent : agents[a] = "listed"

\* Time passes for one connection, with a row more to write.  Codes
\* and requests are interchangeable, so the first of each comes first.
InBounds == /\ codes[First].state = "none" => \A c \in Code : codes[c].state = "none"
            /\ requests[FirstRequest].pc = "idle" => \A r \in Request : requests[r].pc = "idle"
            /\ now > 0 => Alone
            /\ now = 0 => Len(refreshTokens) < MaxRows /\ Len(accessTokens) < MaxRows

MCSpec == Init /\ [][Next /\ InBounds']_vars /\ WF_vars(Continue)
=============================================================================
